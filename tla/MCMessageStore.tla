--------------------------- MODULE MCMessageStore ---------------------------
(* MessageStore for TLC: two mailboxes, an address that does not resolve, and *)
(* recipient lists with one entry, a repeated entry and a failing first entry. *)
EXTENDS MessageStore, TLC

CONSTANTS a, b, x, A, B

MCInboxOf == (a :> A) @@ (b :> B) @@ (x :> NoMailbox)
MCRecipients == {<<a>>, <<a, a>>, <<x, b>>}

\* One call begins only when the others have, and only if all are for one mailbox:
\* then they compete for its row and, with two connections, for the pool.
third == CHOOSE d \in Delivery : TRUE
Bound == pc[third] # "idle" => \A d \in Delivery : event[d] = <<a>>
=============================================================================
