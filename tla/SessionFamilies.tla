--------------------------- MODULE SessionFamilies ---------------------------
(***************************************************************************)
(* What the backend's session owner promises to everyone who presents a    *)
(* session cookie (packages/auth/src/server/opaque-store/seam.ts): a       *)
(* session is a family of generations.  At any time at most one of them is *)
(* readable; a re-login hands the family from its readable generation to a *)
(* new one; and a family that ended, by logout, by revocation or by its    *)
(* expiry, is never readable again.  How requests interleave on the way is *)
(* ServerSession's business, which implements this specification.          *)
(***************************************************************************)
CONSTANT Generation     \* names of generations; a family has the name of its first

VARIABLES
    readable,   \* readable[f]: the generations of family f that a read finds
    used,       \* the generations that were stored
    closed      \* the families that ended

vars == <<readable, used, closed>>

\* Some families are open already.
Init ==
    \E open \in SUBSET Generation :
        /\ readable = [f \in Generation |-> IF f \in open THEN {f} ELSE {}]
        /\ used = open /\ closed = {}

\* A first login.
Open(f) ==
    /\ f \notin used /\ f \notin closed
    /\ readable' = [readable EXCEPT ![f] = {f}]
    /\ used' = used \union {f}
    /\ UNCHANGED closed

\* A re-login: whoever replaces a generation finds it readable, and is the only one to do so.
Replace(f, g) ==
    /\ f \notin closed /\ readable[f] # {}
    /\ g \notin used
    /\ readable' = [readable EXCEPT ![f] = {g}]
    /\ used' = used \union {g}
    /\ UNCHANGED closed

\* The end of a family.
End(f) ==
    /\ f \in used
    /\ closed' = closed \union {f}
    /\ readable' = [readable EXCEPT ![f] = {}]
    /\ UNCHANGED used

Next == \E f, g \in Generation : Open(f) \/ Replace(f, g) \/ End(f)

Spec == Init /\ [][Next]_vars
=============================================================================
