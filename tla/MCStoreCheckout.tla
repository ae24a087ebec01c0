--------------------------- MODULE MCStoreCheckout ---------------------------
(* Small instances of StoreCheckout for TLC. *)
EXTENDS StoreCheckout, TLC

CONSTANTS s1, s2, h1, h2, k1, k2

MCOutcomes == {"CAPTURED", "INSUFFICIENT_FUNDS", "PAYMENT_TYPE_MISMATCH"}
\* The page orders mugs; another client uses its first key for a keyboard, and
\* for what Validate refuses.
MCOrders == {"mug"}
MCRefused == {"bad"}
MCPayments == {[id |-> k, order |-> o] : k \in PaymentIds, o \in {"mug", "keyboard"}}
MCOtherPosts == {[id |-> k1, order |-> o] : o \in {"keyboard", "bad"}}
MCPosts == {[id |-> k, order |-> "mug"] : k \in PaymentIds} \cup MCOtherPosts

\* Keys are drawn in this order.
KeysInOrder == k2 \in UsedKeys => k1 \in UsedKeys

Symmetry == Permutations(Sessions) \cup Permutations(Handlers)
=============================================================================
