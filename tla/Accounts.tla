-------------------------------- MODULE Accounts --------------------------------
(* What signing up promises (cloud/api/app.py, `signup'): an e-mail address gets *)
(* at most one account, for good, and a signup is confirmed only when the        *)
(* account it asked for, with the tenant it made, is the one that is registered. *)
EXTENDS Naturals

CONSTANTS Email, Signup, EmailOf, None

VARIABLES account,    \* the signup that registered each address, or None
          confirmed   \* the signups answered with success

Init == account = [e \in Email |-> None] /\ confirmed = {}

Register(s) == /\ account[EmailOf[s]] = None
               /\ account' = [account EXCEPT ![EmailOf[s]] = s]
               /\ confirmed' \in {confirmed, confirmed \cup {s}}

Confirm(s) == /\ account[EmailOf[s]] = s
              /\ confirmed' = confirmed \cup {s}
              /\ UNCHANGED account

Next == \E s \in Signup : Register(s) \/ Confirm(s)

Spec == Init /\ [][Next]_<<account, confirmed>>
================================================================================
