---------------------------- MODULE StoreCheckout ----------------------------
(***************************************************************************)
(* store-service and its page: the checkout form and its retry key         *)
(* (static/app.js), and POST /store/api/checkout (main.go), in front of    *)
(* AcquirerService.                                                        *)
(*                                                                         *)
(* One shopper uses the page; other clients of the acquirer may use the    *)
(* keys the page has drawn.  The page waits for one fetch at a time; the   *)
(* store keeps nothing and waits 7 s, less than the acquirer's 10 s.       *)
(***************************************************************************)
EXTENDS AcquirerService, Naturals

CONSTANTS
    Orders,      \* what the form can hold: product, quantity, card, payment type
    OtherPosts,  \* what other clients send
    NoKey, NoOrder

\* The page and the other clients send posts; what is shown or answered without
\* a decision is no outcome.
ASSUME StoreAssumption ==
    /\ [id : PaymentIds, order : Orders] \cup OtherPosts \subseteq Posts
    /\ Outcomes \cap (Failures \cup {None, "FAILED", "UNREADABLE"}) = {}
    /\ NoKey \notin PaymentIds

VARIABLES
    form,        \* what the form holds
    retryKey,    \* the Idempotency-Key kept for a repetition
    fetch,       \* the request of the page under way
    shown,       \* the result the page shows, no failures
    drawn,       \* history: the keys drawn since the last edit or result
    earlier      \* history: the same of the purchases before

pageVars == <<form, retryKey, fetch, shown, drawn, earlier>>
vars == <<chainVars, pageVars>>

NoFetch == [state |-> "none"]
Nothing == [outcome |-> None]
UsedKeys == drawn \cup UNION earlier

Init ==
    /\ AcquirerInit
    /\ form = NoOrder /\ retryKey = NoKey
    /\ fetch = NoFetch /\ shown = Nothing
    /\ drawn = {} /\ earlier = {}

\* From here on the shopper means another purchase.
AnotherPurchase ==
    /\ drawn' = {}
    /\ earlier' = IF drawn = {} THEN earlier ELSE earlier \cup {drawn}

-----------------------------------------------------------------------------
(* The page *)

\* chooseProduct, and the change event of any field: the key is dropped, a
\* fetch under way goes on.
Edit(o) ==
    /\ form' = o
    /\ retryKey' = NoKey
    /\ AnotherPurchase
    /\ UNCHANGED <<chainVars, fetch, shown>>

\* The page is loaded anew: its fetch is abandoned, the store hangs up.
Reload ==
    /\ form' = NoOrder
    /\ retryKey' = NoKey
    /\ fetch' = NoFetch
    /\ shown' = Nothing
    /\ AnotherPurchase
    /\ UNCHANGED chainVars

\* The submit event, once the number of the card passes.
Submit(k) ==
    /\ form # NoOrder /\ fetch = NoFetch
    /\ IF retryKey = NoKey THEN k \notin UsedKeys ELSE k = retryKey
    /\ retryKey' = k
    /\ drawn' = drawn \cup {k}
    /\ fetch' = [state |-> "sent", key |-> k, order |-> form]
    /\ shown' = Nothing
    /\ UNCHANGED <<chainVars, form, earlier>>

\* Fault: the key is dropped after a failure as well.
ShowFailureForgettingKey ==
    /\ fetch.state = "answered" /\ fetch.reply \in {"CONFLICT", "FAILED"}
    /\ fetch' = NoFetch
    /\ retryKey' = NoKey
    /\ UNCHANGED <<chainVars, form, shown, drawn, earlier>>

\* A 409, an error of the store, or a fetch that failed: the key is kept.
ShowFailure ==
    /\ fetch.state = "answered" /\ fetch.reply \in {"CONFLICT", "FAILED"}
    /\ fetch' = NoFetch
    /\ UNCHANGED <<chainVars, form, retryKey, shown, drawn, earlier>>

\* "Compra autorizada" or "Compra recusada"; number and cvv are cleared.  A 200
\* whose body is cut off counts as a refusal without a reason.
ShowResult ==
    /\ fetch.state = "answered" /\ fetch.reply \in Outcomes
    /\ \E o \in {fetch.reply, "UNREADABLE"} :
          shown' = [outcome |-> o, key |-> fetch.key, order |-> fetch.order]
    /\ fetch' = NoFetch
    /\ form' = NoOrder
    /\ retryKey' = NoKey
    /\ AnotherPurchase
    /\ UNCHANGED chainVars

-----------------------------------------------------------------------------
(* The store *)

Reply(r) ==
    fetch' = [state |-> "answered", key |-> fetch.key, order |-> fetch.order, reply |-> r]

\* checkout posts what validateCheckout lets through.
Checkout(h) ==
    /\ fetch.state = "sent"
    /\ ReceivePayment(h, [id |-> fetch.key, order |-> fetch.order])
    /\ fetch' = [state |-> "posted", key |-> fetch.key, order |-> fetch.order, handler |-> h]
    /\ UNCHANGED <<form, retryKey, shown, drawn, earlier>>

\* The acquirer's response: a conflict, a decision, or anything else (502).
Relay ==
    /\ fetch.state = "posted"
    /\ LET r == response[fetch.handler]
       IN /\ Hangup(fetch.handler)
          /\ Reply(IF r \in Outcomes \cup {"CONFLICT"} THEN r ELSE "FAILED")
    /\ UNCHANGED <<form, retryKey, shown, drawn, earlier>>

\* The 7 s of the store, a refusal of its own, or a connection that is lost.
Fail ==
    /\ fetch.state \in {"sent", "posted"}
    /\ Reply("FAILED")
    /\ UNCHANGED <<chainVars, form, retryKey, shown, drawn, earlier>>

\* Another client posts with a key of the page.
OtherPost(h, r) ==
    /\ r.id \in UsedKeys
    /\ ReceivePayment(h, r)
    /\ UNCHANGED pageVars

Listening(h) == fetch.state = "posted" /\ fetch.handler = h

Acquirer(h) ==
    /\ HandlerStep(h) \/ (~Listening(h) /\ Hangup(h))
    /\ UNCHANGED pageVars

Next ==
    \/ (\E o \in Orders : Edit(o)) \/ Reload
    \/ (\E k \in PaymentIds : Submit(k)) \/ ShowFailure \/ ShowResult
    \/ Relay \/ Fail
    \/ \E h \in Handlers :
          Checkout(h) \/ Acquirer(h) \/ \E r \in OtherPosts : OtherPost(h, r)
    \/ \E s \in Sessions : Serve(s) /\ UNCHANGED pageVars

Spec == Init /\ [][Next]_vars

-----------------------------------------------------------------------------
(* Properties *)

\* What the page tells the shopper is so at the bank: an authorised purchase
\* was captured for the order the shopper sent, and a purchase refused for a
\* reason is not charged, neither by this attempt nor by one that still goes
\* on.  main.go:286-341, app.js:144-157.
PageTellsTheTruth ==
    shown.outcome \in Outcomes =>
        /\ payments[shown.key] # NoPayment
        /\ payments[shown.key].decision = shown.outcome
        /\ payments[shown.key].request.order = shown.order

\* A shopper who repeats a submit without editing anything is charged at most
\* once, whatever failed, timed out or still goes on.  app.js:111, 136-142,
\* 161-163; README-banking.md:85-86.
RepeatedSubmitsChargeOnce ==
    \A keys \in earlier \cup {drawn} : Cardinality({k \in keys : Charged(k)}) <= 1
=============================================================================
