---------------------------- MODULE MCMcpSession ----------------------------
(* McpSession with the source's three attempts each; how many reads, failed *)
(* openings and broken connections there are is what the runs differ in.    *)
EXTENDS McpSession
=============================================================================
