---------------------------- MODULE MCDarwinProbe ---------------------------
(* A chain of a root, a directory and a file on macOS, for TLC. *)
EXTENDS DarwinProbe

\* Everything an object may be besides what is expected of it.
MCNatures == {"link", "odd", "loose", "remote", "second", "mounted", "ubiquitous",
              "placeholder", "managed", "unlinked"}
=============================================================================
