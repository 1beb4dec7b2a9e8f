----------------------------- MODULE PathRules -----------------------------
(***************************************************************************)
(* What fileops/path_policy.py accepts of the facts a platform probe       *)
(* reports of one path.  A fact is a record                                *)
(*   [path, role, failing, kind, volume, within]                           *)
(* where "failing" holds the checks of _unsafe_fact_denial it fails.       *)
(***************************************************************************)
EXTENDS Naturals, Sequences

Roles == <<"source_root", "source_file", "destination_directory">>

\* The checks in the order in which they are made, with the denial of each.
Checks == <<[check |-> "exists",         denial |-> "not_found"],
            [check |-> "complete",       denial |-> "api_unavailable"],
            [check |-> "not a link",     denial |-> "link"],
            [check |-> "no link above",  denial |-> "link"],
            [check |-> "no mount",       denial |-> "mount_indirection"],
            [check |-> "filesystem",     denial |-> "unsupported_filesystem"],
            [check |-> "local",          denial |-> "nonlocal_volume"],
            [check |-> "not network",    denial |-> "network_location"],
            [check |-> "not cloud",      denial |-> "cloud_location"],
            [check |-> "no placeholder", denial |-> "placeholder"],
            [check |-> "identity",       denial |-> "unstable_identity"],
            [check |-> "no replace",     denial |-> "required_capability_missing"]>>

CheckNames == {Checks[i].check : i \in DOMAIN Checks}

Denials == {Checks[i].denial : i \in DOMAIN Checks} \cup
    {"invalid_path", "wrong_type", "escapes_root", "different_volume", "api_error"}

ExpectedKind(role) == IF role = "source_file" THEN "file" ELSE "directory"

\* _unsafe_fact_denial, of the checks a fact fails.
UnsafeFactDenial(failing) ==
    LET failed == {i \in DOMAIN Checks : Checks[i].check \in failing}
    IN  IF failed = {} THEN "none"
        ELSE Checks[CHOOSE i \in failed : \A j \in failed : i <= j].denial
=============================================================================
