----------------------------- MODULE MCAuditLog -----------------------------
EXTENDS AuditLog

\* Two events; a caller may also use the identifier of the first for another.
MCEvents == {[id |-> "aud_1", body |-> "started"], [id |-> "aud_2", body |-> "finished"],
             [id |-> "aud_1", body |-> "failed"], [id |-> "aud_3", body |-> "started"]}
=============================================================================
