---------------------------- MODULE MCWin32Probe ----------------------------
(* A chain of three paths on Windows, for TLC. *)
EXTENDS Win32Probe

\* The three questions of one evaluation: the root itself, a file one or two levels
\* below it, and a destination elsewhere or below it.
MCCalls == {[role |-> "source_root", root |-> Length],
            [role |-> "source_file", root |-> 1],
            [role |-> "source_file", root |-> 2],
            [role |-> "destination_directory", root |-> 0]}

\* A file below the root, for what may happen to its identity.
MCFileCalls == {[role |-> "source_file", root |-> 2]}

\* Everything an object may be.
MCNatures == {"plain", "link", "pinned", "offline", "second", "remote", "leaving"}
=============================================================================
