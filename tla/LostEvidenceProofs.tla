------------------------- MODULE LostEvidenceProofs -------------------------
(***************************************************************************)
(* What the reports and the verdicts make of a collection that lost some of *)
(* the evidence Weaker names, for any source and target: the reports are    *)
(* sound still, and no gate approves of less what it did not approve of     *)
(* before.                                                                  *)
(*                                                                         *)
(* Less is what is left of the evidence, Weakened what the gates of         *)
(* readiness and migration can see of the loss, FewerJudged what the        *)
(* controls can; every check of a gate is compared for the two.             *)
(***************************************************************************)
EXTENDS CommandLineProofs

-----------------------------------------------------------------------------
(* An account that answers one call less *)

SessionFields == {"requests", "retries", "coverage"}
AccountFields ==
    {"named", "cli", "maxRequests", "retries", "accountSecurity", "answers", "names", "nodegroups", "addons", "fargate",
     "insights", "detectors", "scans", "images", "otherImages", "associations", "lowCapacity", "zones", "worldOpen", "cluster"}
Kinds == {"nodegroups", "addons", "fargate-profiles", "access-entries", "cluster-insights", "guardduty-detectors"}

\* The account v is w but for the call k, which it does not answer any more.
Withheld(v, w, k) ==
    /\ DOMAIN v = DOMAIN w /\ \A f \in AccountFields \ {"answers"} : v[f] = w[f]
    /\ DOMAIN v.answers = DOMAIN w.answers /\ k \in DOMAIN v.answers
    /\ \A key \in DOMAIN w.answers \ {k} : v.answers[key] = w.answers[key]
    /\ v.answers[k] \in [transient : Nat, then : {"ok", "denied", "malformed", "unsupported"}]
    /\ v.answers[k].then = "denied" \/ v.answers[k].transient > v.retries

\* A session t with v has made the same calls as s with w, or it has missed k.
Missed(t, k) == k \in DOMAIN t.coverage /\ t.coverage[k] \in {"UNAVAILABLE", "PARTIAL"}
Follows(s, t, k) == DOMAIN s = SessionFields /\ DOMAIN t = SessionFields /\ (t = s \/ Missed(t, k))

LEMMA WithheldAnswer ==
    ASSUME NEW v, NEW w, NEW k, Withheld(v, w, k)
    PROVE  /\ \A optional : Account!AnswerState(Account!AnswerOf(v, k), v.retries, optional) = "UNAVAILABLE"
           /\ \A key : key # k => Account!AnswerOf(v, key) = Account!AnswerOf(w, key)
  <1>1. Account!AnswerOf(v, k) = v.answers[k]
    BY DEF Withheld, Account!AnswerOf
  <1>2. ASSUME NEW optional PROVE Account!AnswerState(Account!AnswerOf(v, k), v.retries, optional) = "UNAVAILABLE"
    BY <1>1 DEF Withheld, Account!AnswerState
  <1>3. ASSUME NEW key, key # k PROVE Account!AnswerOf(v, key) = Account!AnswerOf(w, key)
    BY <1>3 DEF Withheld, Account!AnswerOf
  <1> QED
    BY <1>2, <1>3

\* A call covers its key and nothing else.
LEMMA CallCovers ==
    ASSUME NEW t, DOMAIN t = SessionFields, NEW v, NEW key, NEW optional
    PROVE  LET d == Account!Call(t, v, key, optional)
           IN  /\ DOMAIN d = SessionFields
               /\ DOMAIN d.coverage = DOMAIN t.coverage \cup {key}
               /\ \A x \in DOMAIN t.coverage \ {key} : d.coverage[x] = t.coverage[x]
               /\ d.coverage[key] \in {"UNAVAILABLE", "PARTIAL",
                                       Account!AnswerState(Account!AnswerOf(v, key), v.retries, optional)}
  <1> DEFINE reply == Account!AnswerOf(v, key)
             retried == IF reply.transient < v.retries THEN reply.transient ELSE v.retries
             state == Account!AnswerState(reply, v.retries, optional)
             covered(x) == [y \in DOMAIN t.coverage \cup {key} |-> IF y = key THEN x ELSE t.coverage[y]]
             d == Account!Call(t, v, key, optional)
  <1>1. ASSUME NEW x
        PROVE  /\ DOMAIN Account!Covered(t, key, x) = SessionFields
               /\ Account!Covered(t, key, x).coverage = covered(x)
    BY DEF Account!Covered, SessionFields
  <1>2. \/ d = Account!Covered(t, key, "UNAVAILABLE")
        \/ d = Account!Covered(t, key, "PARTIAL")
        \/ d = [Account!Covered(t, key, state) EXCEPT !.requests = @ + 1 + retried, !.retries = @ + retried]
    BY DEF Account!Call
  <1>3. \E x \in {"UNAVAILABLE", "PARTIAL", state} : DOMAIN d = SessionFields /\ d.coverage = covered(x)
    <2> HIDE DEF state, retried, d, covered
    <2> QED
      BY <1>1, <1>2 DEF SessionFields
  <1> HIDE DEF state, retried, d
  <1> QED
    BY <1>3 DEF state, reply, d

LEMMA CallFollows ==
    ASSUME NEW v, NEW w, NEW k, Withheld(v, w, k), NEW s, NEW t, Follows(s, t, k), NEW key, NEW optional
    PROVE  Follows(Account!Call(s, w, key, optional), Account!Call(t, v, key, optional), k)
  <1> DEFINE a == Account!Call(s, w, key, optional)
             b == Account!Call(t, v, key, optional)
  <1>1. DOMAIN s = SessionFields /\ DOMAIN t = SessionFields
    BY DEF Follows
  <1>2. DOMAIN a = SessionFields /\ DOMAIN b = SessionFields
    BY <1>1, CallCovers
  <1>3. CASE key = k
    <2>1. k \in DOMAIN b.coverage /\ b.coverage[k] \in {"UNAVAILABLE", "PARTIAL"}
      BY <1>1, <1>3, CallCovers, WithheldAnswer
    <2> QED
      BY <1>2, <2>1 DEF Follows, Missed
  <1>4. CASE key # k /\ Missed(t, k)
    <2>1. k \in DOMAIN b.coverage /\ b.coverage[k] = t.coverage[k]
      BY <1>1, <1>4, CallCovers DEF Missed
    <2> QED
      BY <1>2, <1>4, <2>1 DEF Follows, Missed
  <1>5. CASE key # k /\ t = s
    <2>1. Account!AnswerOf(v, key) = Account!AnswerOf(w, key)
      BY <1>5, WithheldAnswer
    <2>2. v.cli = w.cli /\ v.maxRequests = w.maxRequests /\ v.retries = w.retries
      BY DEF Withheld, AccountFields
    <2>3. b = a
      BY <1>5, <2>1, <2>2 DEF Account!Call
    <2> QED
      BY <1>2, <2>3 DEF Follows
  <1> QED
    BY <1>3, <1>4, <1>5 DEF Follows

\* What was missed stays missed, whatever is called next.
LEMMA CallMisses ==
    ASSUME NEW v, NEW w, NEW k, Withheld(v, w, k), NEW t, DOMAIN t = SessionFields, Missed(t, k), NEW key, NEW optional
    PROVE  /\ DOMAIN Account!Call(t, v, key, optional) = SessionFields
           /\ Missed(Account!Call(t, v, key, optional), k)
  <1> DEFINE d == Account!Call(t, v, key, optional)
  <1>1. CASE key = k
    <2>1. DOMAIN d = SessionFields /\ k \in DOMAIN d.coverage /\ d.coverage[k] \in {"UNAVAILABLE", "PARTIAL"}
      BY <1>1, CallCovers, WithheldAnswer
    <2> QED
      BY <2>1 DEF Missed
  <1>2. CASE key # k
    <2>1. DOMAIN d = SessionFields /\ k \in DOMAIN d.coverage /\ d.coverage[k] = t.coverage[k]
      BY <1>2, CallCovers DEF Missed
    <2> QED
      BY <2>1 DEF Missed
  <1> QED
    BY <1>1, <1>2

LEMMA CallIfMisses ==
    ASSUME NEW v, NEW w, NEW k, Withheld(v, w, k), NEW t, DOMAIN t = SessionFields, Missed(t, k), NEW key, NEW p
    PROVE  /\ DOMAIN Account!CallIf(t, v, key, p) = SessionFields
           /\ Missed(Account!CallIf(t, v, key, p), k)
  BY CallMisses DEF Account!CallIf

LEMMA CallOneMisses ==
    ASSUME NEW v, NEW w, NEW k, Withheld(v, w, k), NEW t, DOMAIN t = SessionFields, Missed(t, k), NEW y
    PROVE  /\ DOMAIN Account!CallOne(t, v, y) = SessionFields
           /\ Missed(Account!CallOne(t, v, y), k)
  <1> DEFINE b == Account!CallIf(t, v, y.key, y.when # "skipped")
  <1>1. DOMAIN b = SessionFields /\ Missed(b, k)
    BY CallIfMisses
  <1>2. \E p : Account!CallOne(t, v, y) = Account!CallIf(b, v, y.next, p)
    BY DEF Account!CallOne
  <1> HIDE DEF b
  <1> QED
    BY <1>1, <1>2, CallIfMisses

LEMMA CallIfCovers ==
    ASSUME NEW t, DOMAIN t = SessionFields, NEW v, NEW key, NEW p
    PROVE  DOMAIN Account!CallIf(t, v, key, p) = SessionFields
  BY CallCovers DEF Account!CallIf

LEMMA CallOneCovers ==
    ASSUME NEW t, DOMAIN t = SessionFields, NEW v, NEW y
    PROVE  DOMAIN Account!CallOne(t, v, y) = SessionFields
  <1> DEFINE b == Account!CallIf(t, v, y.key, y.when # "skipped")
  <1>1. DOMAIN b = SessionFields
    BY CallIfCovers
  <1>2. \E p : Account!CallOne(t, v, y) = Account!CallIf(b, v, y.next, p)
    BY DEF Account!CallOne
  <1> HIDE DEF b
  <1> QED
    BY <1>1, <1>2, CallIfCovers

LEMMA CallIfFollows ==
    ASSUME NEW v, NEW w, NEW k, Withheld(v, w, k), NEW s, NEW t, Follows(s, t, k),
           NEW x, NEW y, NEW p, NEW q, t = s => x = y /\ p = q
    PROVE  Follows(Account!CallIf(s, w, x, p), Account!CallIf(t, v, y, q), k)
  <1>1. CASE t = s
    <2>1. Account!CallIf(t, v, y, q) = IF p THEN Account!Call(t, v, x, TRUE) ELSE t
      BY <1>1 DEF Account!CallIf
    <2>2. Account!CallIf(s, w, x, p) = IF p THEN Account!Call(s, w, x, TRUE) ELSE s
      BY DEF Account!CallIf
    <2>3. CASE p
      <3>1. Follows(Account!Call(s, w, x, TRUE), Account!Call(t, v, x, TRUE), k)
        BY CallFollows
      <3> QED
        BY <2>1, <2>2, <2>3, <3>1
    <2>4. CASE ~ p
      BY <2>1, <2>2, <2>4
    <2> QED
      BY <2>3, <2>4
  <1>2. CASE Missed(t, k)
    BY <1>2, CallIfMisses, CallIfCovers DEF Follows
  <1> QED
    BY <1>1, <1>2 DEF Follows

LEMMA CallOneFollows ==
    ASSUME NEW v, NEW w, NEW k, Withheld(v, w, k), NEW s, NEW t, Follows(s, t, k),
           NEW x, NEW y, t = s => x = y
    PROVE  Follows(Account!CallOne(s, w, x), Account!CallOne(t, v, y), k)
  <1>1. CASE Missed(t, k)
    BY <1>1, CallOneMisses, CallOneCovers DEF Follows
  <1>2. CASE t = s
    <2> DEFINE a == Account!CallIf(s, w, x.key, x.when # "skipped")
               b == Account!CallIf(t, v, x.key, x.when # "skipped")
               more(first) == x.when = "always" \/ (x.when = "answered" /\ Account!Got(first, x.key))
    <2>1. Follows(a, b, k)
      BY CallIfFollows
    <2>2. /\ Account!CallOne(s, w, x) = Account!CallIf(a, w, x.next, more(a))
          /\ Account!CallOne(t, v, y) = Account!CallIf(b, v, x.next, more(b))
      BY <1>2 DEF Account!CallOne
    <2>3. b = a => more(b) = more(a)
      OBVIOUS
    <2> HIDE DEF a, b, more
    <2>4. Follows(Account!CallIf(a, w, x.next, more(a)), Account!CallIf(b, v, x.next, more(b)), k)
      BY <2>1, <2>3, CallIfFollows
    <2> QED
      BY <2>2, <2>4
  <1> QED
    BY <1>1, <1>2 DEF Follows

-----------------------------------------------------------------------------
(* A list of calls *)

\* r is what CallAll makes of s over list: the session after every call.
IsCalls(s, w, list, r) ==
    r = [n \in 0..Len(list) |-> IF n = 0 THEN s ELSE Account!CallOne(r[n - 1], w, list[n])]

LEMMA CallsExist ==
    ASSUME NEW s, NEW w, NEW list, Len(list) \in Nat
    PROVE  \E r : IsCalls(s, w, list, r) /\ Account!CallAll(s, w, list) = r[Len(list)]
  <1> DEFINE F(n, r) == [i \in 0..n |-> IF i = 0 THEN s ELSE Account!CallOne(r[i - 1], w, list[i])]
             D == {n \in Nat : ~ \E r : r = F(n, r)}
  <1>1. D = {}
    <2> SUFFICES ASSUME D # {} PROVE FALSE
      OBVIOUS
    <2>0. D \in SUBSET Nat
      OBVIOUS
    <2> HIDE DEF D
    <2>1. PICK m \in D : \A n \in D : m <= n
      BY <2>0, LeastNumber
    <2> USE DEF D
    <2>2. CASE m = 0
      <3> DEFINE q == [i \in 0..0 |-> s]
      <3>1. q = F(0, q)
        OBVIOUS
      <3> QED
        BY <2>1, <2>2, <3>1
    <2>3. CASE m # 0
      <3>1. m \in Nat /\ m - 1 \in Nat /\ m - 1 \notin D
        BY <2>1, <2>3
      <3>2. PICK r : r = F(m - 1, r)
        BY <3>1
      <3> DEFINE q == [i \in 0..m |-> IF i = m THEN Account!CallOne(r[m - 1], w, list[m]) ELSE r[i]]
                 G(p, i) == IF i = 0 THEN s ELSE Account!CallOne(p[i - 1], w, list[i])
      <3>3. \A i \in 0..m - 1 : r[i] = G(r, i)
        BY <3>2
      <3>4. \A i \in 0..m : q[i] = G(q, i)
        <4>1. ASSUME NEW i \in 0..m, i = m PROVE q[i] = G(q, i)
          BY <2>3, <3>1, <4>1
        <4>2. ASSUME NEW i \in 0..m, i # m PROVE q[i] = G(q, i)
          <5>1. i \in 0..m - 1 /\ q[i] = r[i] /\ (i # 0 => q[i - 1] = r[i - 1])
            BY <3>1, <4>2
          <5> QED
            BY <3>3, <5>1
        <4> QED
          BY <4>1, <4>2
      <3>5. q = F(m, q)
        BY <3>4
      <3> HIDE DEF q
      <3> QED
        BY <2>1, <3>5
    <2> QED
      BY <2>2, <2>3
  <1>2. PICK r : r = F(Len(list), r)
    <2>1. Len(list) \notin D
      BY <1>1
    <2> QED
      BY <2>1
  <1> DEFINE c == CHOOSE x : x = F(Len(list), x)
  <1>3. c = F(Len(list), c)
    BY <1>2
  <1>4. Account!CallAll(s, w, list) = c[Len(list)]
    BY DEF Account!CallAll
  <1> QED
    BY <1>3, <1>4 DEF IsCalls

LEMMA CallsByStep ==
    ASSUME NEW s, NEW w, NEW list, Len(list) \in Nat, NEW r, IsCalls(s, w, list, r)
    PROVE  r[0] = s /\ \A n \in 1..Len(list) : r[n] = Account!CallOne(r[n - 1], w, list[n])
  <1> DEFINE G(p, i) == IF i = 0 THEN s ELSE Account!CallOne(p[i - 1], w, list[i])
  <1>1. r = [i \in 0..Len(list) |-> G(r, i)]
    BY DEF IsCalls
  <1> HIDE DEF G
  <1>2. \A i \in 0..Len(list) : r[i] = G(r, i)
    BY <1>1
  <1> USE DEF G
  <1>3. r[0] = s
    BY <1>2
  <1>4. ASSUME NEW n \in 1..Len(list) PROVE r[n] = Account!CallOne(r[n - 1], w, list[n])
    BY <1>2
  <1> QED
    BY <1>3, <1>4

\* The same list of calls, or another one after a miss.
LEMMA CallAllFollows ==
    ASSUME NEW v, NEW w, NEW k, Withheld(v, w, k), NEW s, NEW t, Follows(s, t, k),
           NEW x, NEW y, Len(x) \in Nat, Len(y) \in Nat, t = s => x = y
    PROVE  Follows(Account!CallAll(s, w, x), Account!CallAll(t, v, y), k)
  <1>1. PICK a : IsCalls(s, w, x, a) /\ Account!CallAll(s, w, x) = a[Len(x)]
    BY CallsExist
  <1>2. PICK b : IsCalls(t, v, y, b) /\ Account!CallAll(t, v, y) = b[Len(y)]
    BY CallsExist
  <1>a. /\ a[0] = s /\ b[0] = t
        /\ \A n \in 1..Len(x) : a[n] = Account!CallOne(a[n - 1], w, x[n])
        /\ \A n \in 1..Len(y) : b[n] = Account!CallOne(b[n - 1], v, y[n])
    <2>1. a[0] = s /\ \A n \in 1..Len(x) : a[n] = Account!CallOne(a[n - 1], w, x[n])
      <3>1. IsCalls(s, w, x, a)
        BY <1>1
      <3> QED
        BY ONLY <3>1, CallsByStep, Len(x) \in Nat
    <2>2. b[0] = t /\ \A n \in 1..Len(y) : b[n] = Account!CallOne(b[n - 1], v, y[n])
      <3>1. IsCalls(t, v, y, b)
        BY <1>2
      <3> QED
        BY ONLY <3>1, CallsByStep, Len(y) \in Nat
    <2> QED
      BY <2>1, <2>2
  <1>3. \A n \in 0..Len(x) : DOMAIN a[n] = SessionFields
    <2> SUFFICES ASSUME ~ \A n \in 0..Len(x) : DOMAIN a[n] = SessionFields PROVE FALSE
      OBVIOUS
    <2> DEFINE Bad == {n \in 0..Len(x) : DOMAIN a[n] # SessionFields}
    <2>0. Bad \in SUBSET Nat /\ Bad # {}
      OBVIOUS
    <2> HIDE DEF Bad
    <2>1. PICK m \in Bad : \A i \in Bad : m <= i
      BY <2>0, LeastNumber
    <2> USE DEF Bad
    <2>2. m # 0
      BY <1>a, <2>1 DEF Follows
    <2>3. DOMAIN a[m - 1] = SessionFields
      BY <2>1, <2>2
    <2> QED
      BY <1>a, <2>1, <2>2, <2>3, CallOneCovers
  <1>4. CASE Missed(t, k)
    <2>1. \A n \in 0..Len(y) : DOMAIN b[n] = SessionFields /\ Missed(b[n], k)
      <3> SUFFICES ASSUME ~ \A n \in 0..Len(y) : DOMAIN b[n] = SessionFields /\ Missed(b[n], k) PROVE FALSE
        OBVIOUS
      <3> DEFINE Bad == {n \in 0..Len(y) : ~ (DOMAIN b[n] = SessionFields /\ Missed(b[n], k))}
      <3>0. Bad \in SUBSET Nat /\ Bad # {}
        OBVIOUS
      <3> HIDE DEF Bad
      <3>1. PICK m \in Bad : \A i \in Bad : m <= i
        BY <3>0, LeastNumber
      <3> USE DEF Bad
      <3>2. m # 0
        BY <1>4, <1>a, <3>1 DEF Follows
      <3>3. DOMAIN b[m - 1] = SessionFields /\ Missed(b[m - 1], k)
        BY <3>1, <3>2
      <3> QED
        BY <1>a, <3>1, <3>2, <3>3, CallOneMisses
    <2> QED
      BY <1>1, <1>2, <1>3, <2>1 DEF Follows
  <1>5. CASE t = s
    <2>1. x = y
      BY <1>5
    <2>2. \A n \in 0..Len(x) : Follows(a[n], b[n], k)
      <3> SUFFICES ASSUME ~ \A n \in 0..Len(x) : Follows(a[n], b[n], k) PROVE FALSE
        OBVIOUS
      <3> DEFINE Bad == {n \in 0..Len(x) : ~ Follows(a[n], b[n], k)}
      <3>0. Bad \in SUBSET Nat /\ Bad # {}
        OBVIOUS
      <3> HIDE DEF Bad
      <3>1. PICK m \in Bad : \A i \in Bad : m <= i
        BY <3>0, LeastNumber
      <3> USE DEF Bad
      <3>2. m # 0
        BY <1>a, <3>1
      <3>3. Follows(a[m - 1], b[m - 1], k)
        BY <3>1, <3>2
      <3>4. a[m] = Account!CallOne(a[m - 1], w, x[m]) /\ b[m] = Account!CallOne(b[m - 1], v, x[m])
        BY <1>a, <2>1, <3>1, <3>2
      <3>5. Follows(a[m], b[m], k)
        BY <3>3, <3>4, CallOneFollows
      <3> QED
        BY <3>1, <3>5
    <2> QED
      BY <1>1, <1>2, <2>1, <2>2
  <1> QED
    BY <1>4, <1>5 DEF Follows

-----------------------------------------------------------------------------
(* One collection, call by call *)

LEMMA MappedList ==
    ASSUME NEW names, IsList(names), NEW f, f = [i \in DOMAIN names |-> f[i]]
    PROVE  Len(f) \in Nat
  <1> DEFINE T == {f[i] : i \in DOMAIN names}
  <1>1. DOMAIN names = 1..Len(names) /\ Len(names) \in Nat
    BY DEF IsList
  <1>2. f \in [1..Len(names) -> T]
    BY <1>1
  <1>3. f \in Seq(T)
    BY <1>1, <1>2
  <1> QED
    BY <1>3

LEMMA PartOfList ==
    ASSUME NEW names, IsList(names), NEW limit \in Nat
    PROVE  IsList(Account!Upto(names, limit))
  <1> DEFINE T == ToSet(names)
             n == IF Len(names) < limit THEN Len(names) ELSE limit
             part == SubSeq(names, 1, n)
  <1>1. names \in Seq(T) /\ Len(names) \in Nat
    BY DEF IsList
  <1>2. n \in Nat /\ n <= Len(names)
    BY <1>1
  <1>3. part \in Seq(T) /\ Len(part) = n /\ DOMAIN part = 1..n
    <2> HIDE DEF T, n
    <2> QED
      BY <1>1, <1>2
  <1>4. part \in [1..n -> ToSet(part)]
    <2>1. part = [i \in 1..n |-> part[i]]
      BY <1>2, <1>3
    <2> QED
      BY <1>3, <2>1 DEF ToSet
  <1>5. part \in Seq(ToSet(part))
    <2> HIDE DEF n, part
    <2> QED
      BY ONLY <1>2, <1>4
  <1>6. Account!Upto(names, limit) = part
    BY DEF Account!Upto
  <1> QED
    BY <1>5, <1>6 DEF IsList

LEMMA ListedIsList ==
    ASSUME NEW w, IsAccount(w), NEW s, NEW kind \in Kinds, NEW limit \in Nat
    PROVE  IsList(Account!Listed(s, w, kind, limit))
  <1>1. IsList(w.names[kind])
    BY DEF IsAccount, Kinds
  <1>2. IsList(<<>>)
    BY DEF IsList
  <1> QED
    BY <1>1, <1>2, PartOfList DEF Account!Listed

LEMMA WithheldIsAccount ==
    ASSUME NEW v, NEW w, NEW k, Withheld(v, w, k), IsAccount(w)
    PROVE  IsAccount(v)
  <1>1. /\ v.retries = w.retries /\ v.images = w.images /\ v.names = w.names
        /\ DOMAIN v = DOMAIN w
    BY DEF Withheld, AccountFields
  <1>2. \A key \in DOMAIN v.answers :
           v.answers[key] \in [transient : Nat, then : {"ok", "denied", "malformed", "unsupported"}]
    BY DEF Withheld, IsAccount
  <1> QED
    BY <1>1, <1>2 DEF IsAccount

LEMMA SameLists ==
    ASSUME NEW v, NEW w, NEW k, Withheld(v, w, k), NEW s, NEW kind, NEW limit
    PROVE  Account!Listed(s, v, kind, limit) = Account!Listed(s, w, kind, limit)
  <1>1. v.names = w.names
    BY DEF Withheld, AccountFields
  <1> QED
    BY <1>1 DEF Account!Listed

LEMMA NamedFollows ==
    ASSUME NEW v, NEW w, NEW k, Withheld(v, w, k), IsAccount(w), NEW s, NEW t, Follows(s, t, k), NEW kind \in Kinds
    PROVE  Follows(Account!CollectNamed(s, w, kind), Account!CollectNamed(t, v, kind), k)
  <1> DEFINE a == Account!Call(s, w, <<kind>>, TRUE)
             b == Account!Call(t, v, <<kind>>, TRUE)
             p == Account!Listed(a, w, kind, Account!NamesLimit)
             q == Account!Listed(b, v, kind, Account!NamesLimit)
             x == [i \in DOMAIN p |-> Account!Asking(<<kind, p[i]>>, <<kind>>, "alone")]
             y == [i \in DOMAIN q |-> Account!Asking(<<kind, q[i]>>, <<kind>>, "alone")]
  <1>1. Follows(a, b, k)
    BY CallFollows
  <1>2. b = a => q = p
    <2> HIDE DEF a, b
    <2>1. Account!Listed(b, v, kind, Account!NamesLimit) = Account!Listed(b, w, kind, Account!NamesLimit)
      BY SameLists
    <2> QED
      BY <2>1
  <1>3. IsList(p) /\ IsList(q)
    BY WithheldIsAccount, ListedIsList DEF Account!NamesLimit
  <1>4. Len(x) \in Nat /\ Len(y) \in Nat
    <2> HIDE DEF p, q
    <2>1. x = [i \in DOMAIN p |-> x[i]] /\ y = [i \in DOMAIN q |-> y[i]]
      OBVIOUS
    <2> QED
      BY <1>3, <2>1, MappedList
  <1>5. b = a => y = x
    BY <1>2
  <1>6. /\ Account!CollectNamed(s, w, kind) = Account!CallAll(a, w, x)
        /\ Account!CollectNamed(t, v, kind) = Account!CallAll(b, v, y)
    BY DEF Account!CollectNamed
  <1> HIDE DEF a, b, x, y
  <1> QED
    BY <1>1, <1>4, <1>5, <1>6, CallAllFollows

LEMMA NodegroupsFollow ==
    ASSUME NEW v, NEW w, NEW k, Withheld(v, w, k), IsAccount(w), NEW s, NEW t, Follows(s, t, k)
    PROVE  Follows(Account!CollectNodegroups(s, w), Account!CollectNodegroups(t, v), k)
  <1> DEFINE a == Account!CollectNamed(s, w, "nodegroups")
             b == Account!CollectNamed(t, v, "nodegroups")
             p == \E n \in Account!Described(a, w, "nodegroups") : w.nodegroups[n].scaled
             q == \E n \in Account!Described(b, v, "nodegroups") : v.nodegroups[n].scaled
  <1>1. Follows(a, b, k)
    BY NamedFollows DEF Kinds
  <1>2. b = a => p = q
    <2>1. v.nodegroups = w.nodegroups
      BY DEF Withheld, AccountFields
    <2>2. b = a => Account!Described(b, v, "nodegroups") = Account!Described(a, w, "nodegroups")
      BY SameLists DEF Account!Described
    <2> QED
      BY <2>1, <2>2
  <1>3. /\ Account!CollectNodegroups(s, w) = Account!CallIf(a, w, <<"autoscaling-groups">>, p)
        /\ Account!CollectNodegroups(t, v) = Account!CallIf(b, v, <<"autoscaling-groups">>, q)
    BY DEF Account!CollectNodegroups
  <1> HIDE DEF a, b, p, q
  <1> QED
    BY <1>1, <1>2, <1>3, CallIfFollows

LEMMA IdentityFollows ==
    ASSUME NEW v, NEW w, NEW k, Withheld(v, w, k), IsAccount(w), NEW s, NEW t, Follows(s, t, k)
    PROVE  Follows(Account!CollectIdentity(s, w), Account!CollectIdentity(t, v), k)
  <1> DEFINE a == Account!Call(s, w, <<"access-entries">>, TRUE)
             b == Account!Call(t, v, <<"access-entries">>, TRUE)
             p == Account!Listed(a, w, "access-entries", Account!EntriesLimit)
             q == Account!Listed(b, v, "access-entries", Account!EntriesLimit)
             x == [i \in DOMAIN p |-> Account!Asking(<<"access-entry", p[i]>>, <<"access-policies", p[i]>>, "always")]
             y == [i \in DOMAIN q |-> Account!Asking(<<"access-entry", q[i]>>, <<"access-policies", q[i]>>, "always")]
  <1>1. Follows(a, b, k)
    BY CallFollows
  <1>2. b = a => q = p
    <2> HIDE DEF a, b
    <2>1. Account!Listed(b, v, "access-entries", Account!EntriesLimit) = Account!Listed(b, w, "access-entries", Account!EntriesLimit)
      BY SameLists
    <2> QED
      BY <2>1
  <1>3. IsList(p) /\ IsList(q)
    <2>1. IsAccount(v) /\ Account!EntriesLimit \in Nat /\ {"access-entries", "cluster-insights"} \subseteq Kinds
      BY WithheldIsAccount DEF Account!EntriesLimit, Kinds
    <2> QED
      BY <2>1, ListedIsList
  <1>4. Len(x) \in Nat /\ Len(y) \in Nat
    <2> HIDE DEF p, q
    <2>1. x = [i \in DOMAIN p |-> x[i]] /\ y = [i \in DOMAIN q |-> y[i]]
      OBVIOUS
    <2> QED
      BY <1>3, <2>1, MappedList
  <1>5. b = a => y = x
    BY <1>2
  <1>6. /\ Account!CollectIdentity(s, w) = Account!Call(Account!CallAll(a, w, x), w, <<"pod-identities">>, TRUE)
        /\ Account!CollectIdentity(t, v) = Account!Call(Account!CallAll(b, v, y), v, <<"pod-identities">>, TRUE)
    BY DEF Account!CollectIdentity
  <1> HIDE DEF a, b, x, y
  <1>7. Follows(Account!CallAll(a, w, x), Account!CallAll(b, v, y), k)
    BY <1>1, <1>4, <1>5, CallAllFollows
  <1> QED
    BY <1>6, <1>7, CallFollows

LEMMA InsightsFollow ==
    ASSUME NEW v, NEW w, NEW k, Withheld(v, w, k), IsAccount(w), NEW s, NEW t, Follows(s, t, k)
    PROVE  Follows(Account!CollectInsights(s, w), Account!CollectInsights(t, v), k)
  <1> DEFINE a == Account!Call(s, w, <<"cluster-insights">>, TRUE)
             b == Account!Call(t, v, <<"cluster-insights">>, TRUE)
             p == Account!Listed(a, w, "cluster-insights", Account!EntriesLimit)
             q == Account!Listed(b, v, "cluster-insights", Account!EntriesLimit)
             x == [i \in DOMAIN p |-> Account!Asking(<<"cluster-insight", p[i]>>, <<"cluster-insights">>, "alone")]
             y == [i \in DOMAIN q |-> Account!Asking(<<"cluster-insight", q[i]>>, <<"cluster-insights">>, "alone")]
  <1>1. Follows(a, b, k)
    BY CallFollows
  <1>2. b = a => q = p
    <2> HIDE DEF a, b
    <2>1. Account!Listed(b, v, "cluster-insights", Account!EntriesLimit) = Account!Listed(b, w, "cluster-insights", Account!EntriesLimit)
      BY SameLists
    <2> QED
      BY <2>1
  <1>3. IsList(p) /\ IsList(q)
    <2>1. IsAccount(v) /\ Account!EntriesLimit \in Nat /\ {"access-entries", "cluster-insights"} \subseteq Kinds
      BY WithheldIsAccount DEF Account!EntriesLimit, Kinds
    <2> QED
      BY <2>1, ListedIsList
  <1>4. Len(x) \in Nat /\ Len(y) \in Nat
    <2> HIDE DEF p, q
    <2>1. x = [i \in DOMAIN p |-> x[i]] /\ y = [i \in DOMAIN q |-> y[i]]
      OBVIOUS
    <2> QED
      BY <1>3, <2>1, MappedList
  <1>5. b = a => y = x
    BY <1>2
  <1>6. /\ Account!CollectInsights(s, w) = Account!CallAll(a, w, x)
        /\ Account!CollectInsights(t, v) = Account!CallAll(b, v, y)
    BY DEF Account!CollectInsights
  <1> HIDE DEF a, b, x, y
  <1> QED
    BY <1>1, <1>4, <1>5, <1>6, CallAllFollows

LEMMA NetworkFollows ==
    ASSUME NEW v, NEW w, NEW k, Withheld(v, w, k), NEW s, NEW t, Follows(s, t, k)
    PROVE  Follows(Account!CollectNetwork(s, w), Account!CollectNetwork(t, v), k)
  <1> DEFINE a == Account!CallIf(s, w, <<"subnets">>, w.cluster.subnets)
             b == Account!CallIf(t, v, <<"subnets">>, v.cluster.subnets)
  <1>1. v.cluster = w.cluster
    BY DEF Withheld, AccountFields
  <1>2. Follows(a, b, k)
    BY <1>1, CallIfFollows
  <1>3. /\ Account!CollectNetwork(s, w) = Account!CallIf(a, w, <<"security-groups">>, w.cluster.groups)
        /\ Account!CollectNetwork(t, v) = Account!CallIf(b, v, <<"security-groups">>, w.cluster.groups)
    BY <1>1 DEF Account!CollectNetwork
  <1> HIDE DEF a, b
  <1> QED
    BY <1>2, <1>3, CallIfFollows

LEMMA ImagesFollow ==
    ASSUME NEW v, NEW w, NEW k, Withheld(v, w, k), IsAccount(w), NEW s, NEW t, Follows(s, t, k)
    PROVE  Follows(Account!CollectImages(s, w), Account!CollectImages(t, v), k)
  <1> DEFINE p == Account!Upto(w.images, Account!NamesLimit)
             x == [i \in DOMAIN p |-> Account!Asking(<<"ecr-image", p[i]>>, <<"ecr-scan", p[i]>>,
                                                     Account!ScanAsked(w.scans[p[i]]))]
  <1>1. v.images = w.images /\ v.scans = w.scans
    BY DEF Withheld, AccountFields
  <1>2. IsList(p)
    BY PartOfList DEF IsAccount, Account!NamesLimit
  <1>3. Len(x) \in Nat
    <2> HIDE DEF p
    <2>1. x = [i \in DOMAIN p |-> x[i]]
      OBVIOUS
    <2> QED
      BY <1>2, <2>1, MappedList
  <1>4. /\ Account!CollectImages(s, w) = Account!CallAll(s, w, x)
        /\ Account!CollectImages(t, v) = Account!CallAll(t, v, x)
    BY <1>1 DEF Account!CollectImages
  <1> HIDE DEF x
  <1> QED
    BY <1>3, <1>4, CallAllFollows

LEMMA GuardDutyFollows ==
    ASSUME NEW v, NEW w, NEW k, Withheld(v, w, k), IsAccount(w), NEW s, NEW t, Follows(s, t, k)
    PROVE  Follows(Account!CollectGuardDuty(s, w), Account!CollectGuardDuty(t, v), k)
  <1> DEFINE a == Account!Call(s, w, <<"guardduty-detectors">>, TRUE)
             b == Account!Call(t, v, <<"guardduty-detectors">>, TRUE)
             p == Account!Detectors(a, w)
             q == Account!Detectors(b, v)
             x == [i \in DOMAIN p |-> Account!Asking(<<"guardduty", p[i]>>, <<"guardduty-detectors">>, "alone")]
             y == [i \in DOMAIN q |-> Account!Asking(<<"guardduty", q[i]>>, <<"guardduty-detectors">>, "alone")]
  <1>0. v.accountSecurity = w.accountSecurity
    BY DEF Withheld, AccountFields
  <1>1. Follows(a, b, k)
    BY CallFollows
  <1>2. b = a => q = p
    <2> HIDE DEF a, b
    <2>1. Account!Detectors(b, v) = Account!Detectors(b, w)
      BY SameLists DEF Account!Detectors
    <2> QED
      BY <2>1
  <1>3. IsList(p) /\ IsList(q)
    BY WithheldIsAccount, ListedIsList DEF Account!Detectors, Account!DetectorsLimit, Kinds
  <1>4. Len(x) \in Nat /\ Len(y) \in Nat
    <2> HIDE DEF p, q
    <2>1. x = [i \in DOMAIN p |-> x[i]] /\ y = [i \in DOMAIN q |-> y[i]]
      OBVIOUS
    <2> QED
      BY <1>3, <2>1, MappedList
  <1>5. b = a => y = x
    BY <1>2
  <1>6. /\ Account!CollectGuardDuty(s, w) = IF w.accountSecurity THEN Account!CallAll(a, w, x) ELSE s
        /\ Account!CollectGuardDuty(t, v) = IF w.accountSecurity THEN Account!CallAll(b, v, y) ELSE t
    BY <1>0 DEF Account!CollectGuardDuty
  <1> HIDE DEF a, b, x, y
  <1>7. Follows(Account!CallAll(a, w, x), Account!CallAll(b, v, y), k)
    BY <1>1, <1>4, <1>5, CallAllFollows
  <1> QED
    BY <1>6, <1>7

\* A whole collection makes the same calls, or it misses one.
LEMMA CollectionFollows ==
    ASSUME NEW v, NEW w, NEW k, Withheld(v, w, k), IsAccount(w)
    PROVE  /\ Follows(Account!AskedForCluster(w), Account!AskedForCluster(v), k)
           /\ Follows(Account!Collected(w), Account!Collected(v), k)
  <1> DEFINE a0 == Account!AskedForCluster(w)
             b0 == Account!AskedForCluster(v)
             a1 == Account!CollectNodegroups(a0, w)
             b1 == Account!CollectNodegroups(b0, v)
             a2 == Account!CollectNamed(a1, w, "addons")
             b2 == Account!CollectNamed(b1, v, "addons")
             a3 == Account!CollectNamed(a2, w, "fargate-profiles")
             b3 == Account!CollectNamed(b2, v, "fargate-profiles")
             a4 == Account!CollectIdentity(a3, w)
             b4 == Account!CollectIdentity(b3, v)
             a5 == Account!CollectInsights(a4, w)
             b5 == Account!CollectInsights(b4, v)
             a6 == Account!CollectNetwork(a5, w)
             b6 == Account!CollectNetwork(b5, v)
             a7 == Account!CollectImages(a6, w)
             b7 == Account!CollectImages(b6, v)
  <1>1. Follows(a0, b0, k)
    <2>1. Follows(Account!NewSession, Account!NewSession, k)
      BY DEF Follows, Account!NewSession, SessionFields
    <2> QED
      BY <2>1, CallFollows DEF Account!AskedForCluster
  <1>2. /\ Account!Collected(w) = Account!CollectGuardDuty(a7, w)
        /\ Account!Collected(v) = Account!CollectGuardDuty(b7, v)
    BY DEF Account!Collected
  <1> HIDE DEF a0, b0
  <1>3. Follows(a1, b1, k)
    BY <1>1, NodegroupsFollow
  <1> HIDE DEF a1, b1
  <1>4. Follows(a2, b2, k)
    BY <1>3, NamedFollows DEF Kinds
  <1> HIDE DEF a2, b2
  <1>5. Follows(a3, b3, k)
    BY <1>4, NamedFollows DEF Kinds
  <1> HIDE DEF a3, b3
  <1>6. Follows(a4, b4, k)
    BY <1>5, IdentityFollows
  <1> HIDE DEF a4, b4
  <1>7. Follows(a5, b5, k)
    BY <1>6, InsightsFollow
  <1> HIDE DEF a5, b5
  <1>8. Follows(a6, b6, k)
    BY <1>7, NetworkFollows
  <1> HIDE DEF a6, b6
  <1>9. Follows(a7, b7, k)
    BY <1>8, ImagesFollow
  <1> HIDE DEF a7, b7
  <1>10. Follows(Account!Collected(w), Account!Collected(v), k)
    BY <1>2, <1>9, GuardDutyFollows
  <1> QED
    BY <1>1, <1>10 DEF a0, b0

\* What is read of a session does not depend on the answers any more.
LEMMA SameFindings ==
    ASSUME NEW v, NEW w, NEW k, Withheld(v, w, k), NEW s
    PROVE  Account!AwsFindings(s, v) = Account!AwsFindings(s, w)
  <1>1. /\ v.nodegroups = w.nodegroups /\ v.addons = w.addons /\ v.fargate = w.fargate /\ v.insights = w.insights
        /\ v.detectors = w.detectors /\ v.scans = w.scans /\ v.images = w.images /\ v.otherImages = w.otherImages
        /\ v.associations = w.associations /\ v.lowCapacity = w.lowCapacity /\ v.zones = w.zones
        /\ v.worldOpen = w.worldOpen /\ v.cluster = w.cluster
    BY DEF Withheld, AccountFields
  <1>2. \A kind, limit : Account!Listed(s, v, kind, limit) = Account!Listed(s, w, kind, limit)
    BY SameLists
  <1>3. \A kind : Account!Described(s, v, kind) = Account!Described(s, w, kind)
    BY <1>2 DEF Account!Described
  <1>4. Account!Detectors(s, v) = Account!Detectors(s, w)
    BY <1>2 DEF Account!Detectors
  <1>5. Account!NodegroupFindings(s, v) = Account!NodegroupFindings(s, w)
    BY <1>1, <1>3 DEF Account!NodegroupFindings
  <1>6. Account!AddonFindings(s, v) = Account!AddonFindings(s, w)
    BY <1>1, <1>3 DEF Account!AddonFindings
  <1>7. Account!FargateFindings(s, v) = Account!FargateFindings(s, w)
    BY <1>1, <1>3 DEF Account!FargateFindings
  <1>8. Account!IdentityFindings(s, v) = Account!IdentityFindings(s, w)
    BY <1>1, <1>2 DEF Account!IdentityFindings
  <1>9. Account!InsightFindings(s, v) = Account!InsightFindings(s, w)
    BY <1>1, <1>2 DEF Account!InsightFindings
  <1>10. Account!NetworkFindings(s, v) = Account!NetworkFindings(s, w)
    BY <1>1 DEF Account!NetworkFindings
  <1>11. Account!ImageFindings(s, v) = Account!ImageFindings(s, w)
    BY <1>1 DEF Account!ImageFindings
  <1>12. Account!GuardDutyFindings(s, v) = Account!GuardDutyFindings(s, w)
    BY <1>1, <1>4 DEF Account!GuardDutyFindings
  <1> QED
    BY <1>1, <1>5, <1>6, <1>7, <1>8, <1>9, <1>10, <1>11, <1>12 DEF Account!AwsFindings

\* A report that calls itself complete is the one the answered call would have given.
LEMMA CompleteReportsMissNothing ==
    ASSUME NEW v, NEW w, NEW k, Withheld(v, w, k), IsAccount(w), Account!AwsReport(v).state \in {"AVAILABLE", "N/A"}
    PROVE  Account!AwsReport(v) = Account!AwsReport(w)
  <1> DEFINE a == Account!AskedForCluster(w)
             b == Account!AskedForCluster(v)
             p == Account!Collected(w)
             q == Account!Collected(v)
  <1>1. v.named = w.named
    BY DEF Withheld, AccountFields
  <1>2. CASE ~ w.named
    BY <1>1, <1>2 DEF Account!AwsReport
  <1>3. CASE w.named
    <2>1. Account!AwsReport(v) =
             IF ~ Account!Got(b, <<"cluster">>)
             THEN Account!ReportOf(b, "UNAVAILABLE", {Account!Finding("collection", "cluster", "UNKNOWN")})
             ELSE Account!ReportOf(q, Account!CollectionState(q), Account!AwsFindings(q, v))
      BY <1>1, <1>3 DEF Account!AwsReport
    <2>2. Account!AwsReport(w) =
             IF ~ Account!Got(a, <<"cluster">>)
             THEN Account!ReportOf(a, "UNAVAILABLE", {Account!Finding("collection", "cluster", "UNKNOWN")})
             ELSE Account!ReportOf(p, Account!CollectionState(p), Account!AwsFindings(p, w))
      BY <1>3 DEF Account!AwsReport
    <2>3. Follows(a, b, k) /\ Follows(p, q, k)
      BY CollectionFollows
    <2>4. \A key : Missed(b, key) => key = <<"cluster">>
      <3>1. DOMAIN b.coverage = {<<"cluster">>}
        <4>1. DOMAIN Account!NewSession = SessionFields /\ DOMAIN Account!NewSession.coverage = {}
          BY DEF Account!NewSession, SessionFields
        <4>2. DOMAIN b.coverage = DOMAIN Account!NewSession.coverage \cup {<<"cluster">>}
          <5>1. b = Account!Call(Account!NewSession, v, <<"cluster">>, FALSE)
            BY DEF Account!AskedForCluster
          <5>2. PICK s, o : s = Account!NewSession /\ o = FALSE
            OBVIOUS
          <5>3. DOMAIN s = SessionFields
            BY <4>1, <5>2
          <5>4. DOMAIN Account!Call(s, v, <<"cluster">>, o).coverage = DOMAIN s.coverage \cup {<<"cluster">>}
            BY ONLY <5>3, CallCovers
          <5> QED
            BY <5>1, <5>2, <5>4
        <4> QED
          BY <4>1, <4>2
      <3> QED
        BY <3>1 DEF Missed
    <2> HIDE DEF a, b, p, q
    <2>5. Account!Got(b, <<"cluster">>) /\ Account!CollectionState(q) # "PARTIAL"
      BY <2>1 DEF Account!ReportOf
    <2>6. b = a
      BY <2>3, <2>4, <2>5 DEF Follows, Missed, Account!Got, Account!StateOf
    <2>7. q = p
      BY <2>3, <2>5 DEF Follows, Missed, Account!CollectionState
    <2> QED
      BY <2>1, <2>2, <2>5, <2>6, <2>7, SameFindings
  <1> QED
    BY <1>2, <1>3

-----------------------------------------------------------------------------
(* What can be lost *)

\* What may be left, x, of what a collector wrote, y, under the name f.
LessOf(f, x, y) ==
    CASE f \in {"requested", "services", "endpoints", "grants", "files", "artifacts"} -> x \subseteq y
      [] f = "listed" -> DOMAIN x \subseteq DOMAIN y /\ \A k \in DOMAIN x : x[k] \subseteq y[k]
      [] f = "scope" -> \A ns : x.full \/ ns \in x.namespaces => y.full \/ ns \in y.namespaces
      [] f = "inv" -> /\ DOMAIN x = DOMAIN y /\ x.available \subseteq y.available
                      /\ \A g \in DOMAIN y \ {"available"} : x[g] = y[g]
      [] f \in {"backups", "snapshots"} -> x = y \/ x = {}
      [] f = "nodes" -> x = y \/ x = <<>>
      [] f = "manual" -> DOMAIN x = DOMAIN y /\ x.declared = y.declared /\ x.state \in {y.state, "ABSENT"}
      [] f \in {"completed", "enabled"} -> x = y \/ x = FALSE
      [] f = "kept" -> x \subseteq y /\ y \ x \subseteq {"readiness", "traffic", "probes"}
      [] f = "resources" -> DOMAIN x = DOMAIN y /\ \A r \in DOMAIN y : x[r] = y[r] \/ (y[r] = "AVAILABLE" /\ x[r] = "UNAVAILABLE")
      [] f = "budget" -> DOMAIN x = DOMAIN y /\ \A m \in DOMAIN y : x[m] = y[m] \/ (m # "duration" /\ x[m] = Insight!None)
      [] f = "account" -> x = y \/ \E k : Withheld(x, y, k)
      [] f = "cli" -> /\ DOMAIN x = DOMAIN y /\ DOMAIN x.answers = DOMAIN y.answers
                      /\ x.installed = y.installed \/ x.installed = FALSE
                      /\ \A k \in DOMAIN y.answers : x.answers[k] \in {y.answers[k], "error"}
      [] f \in {"api", "catalog", "metrics"} -> TRUE
      [] OTHER -> x = y

\* d is what is left of e.
Less(d, e) ==
    /\ DOMAIN d = DOMAIN e
    /\ \A f \in CollectedFields : LessOf(f, d[f], e[f])
    /\ d.metrics = e.metrics \/ d.nodes = <<>>

LEMMA NothingLost == \A f, x : LessOf(f, x, x)
  BY DEF LessOf

LEMMA OneLoss ==
    ASSUME NEW e, Evidence(e), NEW f \in CollectedFields \ {"nodes", "metrics"}, NEW x, LessOf(f, x, e[f])
    PROVE  Less([e EXCEPT ![f] = x], e)
  <1> DEFINE d == [e EXCEPT ![f] = x]
  <1>1. CollectedFields \subseteq DOMAIN e
    BY DEF Evidence
  <1>2. DOMAIN d = DOMAIN e /\ d[f] = x /\ \A g \in CollectedFields \ {f} : d[g] = e[g]
    BY <1>1
  <1>3. d.metrics = e.metrics
    BY <1>2 DEF CollectedFields
  <1> HIDE DEF d
  <1>4. \A g \in CollectedFields : LessOf(g, d[g], e[g])
    BY <1>2, NothingLost
  <1> QED
    BY <1>2, <1>3, <1>4 DEF Less, d

LEMMA ClusterLossIsLess ==
    ASSUME NEW e, Evidence(e), NEW d \in LostFromCluster(e)
    PROVE  Less(d, e)
  <1>0. CollectedFields \subseteq DOMAIN e
    BY DEF Evidence
  <1>1. ASSUME NEW f \in {"requested", "services", "endpoints", "grants"}, NEW s \in Without(e[f]), d = [e EXCEPT ![f] = s]
        PROVE  Less(d, e)
    <2>1. LessOf(f, s, e[f]) /\ f \in CollectedFields \ {"nodes", "metrics"}
      BY DEF Without, LessOf, CollectedFields, Written
    <2> QED
      BY <1>1, <2>1, OneLoss
  <1>2. ASSUME NEW l \in Dropped(e.listed), d = [e EXCEPT !.listed = l] PROVE Less(d, e)
    <2>1. LessOf("listed", l, e["listed"]) /\ "listed" \in CollectedFields \ {"nodes", "metrics"}
      BY DEF Dropped, LessOf, CollectedFields, Written
    <2> QED
      BY <1>2, <2>1, OneLoss
  <1>3. ASSUME NEW k \in DOMAIN e.listed, NEW s \in Without(e.listed[k]), d = [e EXCEPT !.listed[k] = s] PROVE Less(d, e)
    <2> DEFINE l == [e.listed EXCEPT ![k] = s]
    <2>1. d = [e EXCEPT !.listed = l]
      BY <1>3
    <2>2. DOMAIN l \subseteq DOMAIN e.listed /\ \A j \in DOMAIN l : l[j] \subseteq e.listed[j]
      BY DEF Without
    <2> HIDE DEF l
    <2>3. LessOf("listed", l, e["listed"]) /\ "listed" \in CollectedFields \ {"nodes", "metrics"}
      BY <2>2 DEF LessOf, CollectedFields, Written
    <2> QED
      BY <2>1, <2>3, OneLoss
  <1>4. ASSUME NEW s \in IF e.scope.full THEN {e.scope.namespaces} ELSE Without(e.scope.namespaces),
               d = [e EXCEPT !.scope = [full |-> FALSE, namespaces |-> s]]
        PROVE  Less(d, e)
    <2> DEFINE x == [full |-> FALSE, namespaces |-> s]
    <2>1. x.full = FALSE /\ x.namespaces = s
      OBVIOUS
    <2>2. e.scope.full \/ s \subseteq e.scope.namespaces
      BY DEF Without
    <2> HIDE DEF x
    <2>3. LessOf("scope", x, e["scope"]) /\ "scope" \in CollectedFields \ {"nodes", "metrics"}
      BY <2>1, <2>2 DEF LessOf, CollectedFields, Written
    <2> QED
      BY <1>4, <2>3, OneLoss DEF x
  <1>5. ASSUME NEW s \in Without(e.inv.available), d = [e EXCEPT !.inv.available = s] PROVE Less(d, e)
    <2> DEFINE x == [e.inv EXCEPT !.available = s]
    <2>1. d = [e EXCEPT !.inv = x]
      BY <1>5
    <2>2. "available" \in DOMAIN e.inv
      BY DEF Evidence, IsInventory
    <2>3. /\ DOMAIN x = DOMAIN e.inv /\ x.available \subseteq e.inv.available
          /\ \A g \in DOMAIN e.inv \ {"available"} : x[g] = e.inv[g]
      BY <2>2 DEF Without
    <2> HIDE DEF x
    <2>4. LessOf("inv", x, e["inv"]) /\ "inv" \in CollectedFields \ {"nodes", "metrics"}
      BY <2>3 DEF LessOf, CollectedFields, Written
    <2> QED
      BY <2>1, <2>4, OneLoss
  <1>6. ASSUME NEW f \in {"backups", "snapshots"}, d = [e EXCEPT ![f] = {}] PROVE Less(d, e)
    <2>1. LessOf(f, {}, e[f]) /\ f \in CollectedFields \ {"nodes", "metrics"}
      BY DEF LessOf, CollectedFields, Written
    <2> QED
      BY <1>6, <2>1, OneLoss
  <1>7. CASE d = [e EXCEPT !.nodes = <<>>, !.metrics = <<>>]
    <2>1. DOMAIN d = DOMAIN e /\ d.nodes = <<>> /\ \A g \in CollectedFields \ {"nodes", "metrics"} : d[g] = e[g]
      BY <1>0, <1>7 DEF CollectedFields, Written
    <2>2. LessOf("nodes", d["nodes"], e["nodes"]) /\ LessOf("metrics", d["metrics"], e["metrics"])
      BY <2>1 DEF LessOf
    <2> HIDE <1>7
    <2>3. \A g \in CollectedFields : LessOf(g, d[g], e[g])
      BY <2>1, <2>2, NothingLost
    <2> QED
      BY <2>1, <2>3 DEF Less
  <1>8. ASSUME NEW f \in {"api", "catalog"}, NEW x, d = [e EXCEPT ![f] = x] PROVE Less(d, e)
    <2>1. LessOf(f, x, e[f]) /\ f \in CollectedFields \ {"nodes", "metrics"}
      BY DEF LessOf, CollectedFields, Written
    <2> QED
      BY <1>8, <2>1, OneLoss
  <1>9. CASE \/ d \in {[e EXCEPT !.requested = s] : s \in Without(e.requested)}
             \/ d \in {[e EXCEPT !.services = s] : s \in Without(e.services)}
             \/ d \in {[e EXCEPT !.endpoints = s] : s \in Without(e.endpoints)}
             \/ d \in {[e EXCEPT !.grants = s] : s \in Without(e.grants)}
    BY <1>1, <1>9
  <1>10. CASE \/ d \in {[e EXCEPT !.listed = f] : f \in Dropped(e.listed)}
              \/ d \in UNION {{[e EXCEPT !.listed[k] = s] : s \in Without(e.listed[k])} : k \in DOMAIN e.listed}
    BY <1>2, <1>3, <1>10
  <1>11. CASE \/ d \in {[e EXCEPT !.scope = [full |-> FALSE, namespaces |-> s]] :
                          s \in IF e.scope.full THEN {e.scope.namespaces} ELSE Without(e.scope.namespaces)}
              \/ d \in {[e EXCEPT !.inv.available = s] : s \in Without(e.inv.available)}
    BY <1>4, <1>5, <1>11
  <1>12. CASE d \in {[e EXCEPT !.backups = {}], [e EXCEPT !.snapshots = {}], [e EXCEPT !.api.state = "UNAVAILABLE"],
                     [e EXCEPT !.catalog.asOf = Insight!None]}
    <2>1. /\ [e EXCEPT !.api.state = "UNAVAILABLE"] = [e EXCEPT !.api = [e.api EXCEPT !.state = "UNAVAILABLE"]]
          /\ [e EXCEPT !.catalog.asOf = Insight!None] = [e EXCEPT !.catalog = [e.catalog EXCEPT !.asOf = Insight!None]]
      OBVIOUS
    <2> QED
      BY <1>6, <1>8, <1>12, <2>1
  <1> QED
    BY <1>7, <1>9, <1>10, <1>11, <1>12 DEF LostFromCluster

LEMMA ReportsLossIsLess ==
    ASSUME NEW e, Evidence(e), NEW d \in LostFromReports(e)
    PROVE  Less(d, e)
  <1>1. CASE d = [e EXCEPT !.manual.state = "ABSENT"]
    <2> DEFINE x == [e.manual EXCEPT !.state = "ABSENT"]
    <2>1. d = [e EXCEPT !.manual = x]
      BY <1>1
    <2>2. {"state", "declared"} \subseteq DOMAIN e.manual
      BY DEF Evidence
    <2>3. DOMAIN x = DOMAIN e.manual /\ x.declared = e.manual.declared /\ x.state = "ABSENT"
      BY <2>2
    <2> HIDE DEF x
    <2>4. LessOf("manual", x, e["manual"]) /\ "manual" \in CollectedFields \ {"nodes", "metrics"}
      BY <2>3 DEF LessOf, CollectedFields, Written
    <2> QED
      BY <2>1, <2>4, OneLoss
  <1>2. CASE d = [e EXCEPT !.completed = FALSE]
    <2>1. LessOf("completed", FALSE, e["completed"]) /\ "completed" \in CollectedFields \ {"nodes", "metrics"}
      BY DEF LessOf, CollectedFields, Written
    <2> QED
      BY <1>2, <2>1, OneLoss
  <1>3. ASSUME NEW r \in e.kept \cap {"readiness", "traffic", "probes"}, d = [e EXCEPT !.kept = @ \ {r}] PROVE Less(d, e)
    <2>1. LessOf("kept", e.kept \ {r}, e["kept"]) /\ "kept" \in CollectedFields \ {"nodes", "metrics"}
      BY DEF LessOf, CollectedFields, Written
    <2>2. d = [e EXCEPT !.kept = e.kept \ {r}]
      BY <1>3
    <2> QED
      BY <2>1, <2>2, OneLoss
  <1>4. ASSUME NEW f \in {"files", "artifacts"}, NEW s \in Without(e[f]), d = [e EXCEPT ![f] = s] PROVE Less(d, e)
    <2>1. LessOf(f, s, e[f]) /\ f \in CollectedFields \ {"nodes", "metrics"}
      BY DEF Without, LessOf, CollectedFields, Written
    <2> QED
      BY <1>4, <2>1, OneLoss
  <1>5. ASSUME NEW r \in DOMAIN e.resources, e.resources[r] = "AVAILABLE", d = [e EXCEPT !.resources[r] = "UNAVAILABLE"]
        PROVE  Less(d, e)
    <2> DEFINE x == [e.resources EXCEPT ![r] = "UNAVAILABLE"]
    <2>1. d = [e EXCEPT !.resources = x]
      BY <1>5
    <2>2. DOMAIN x = DOMAIN e.resources /\ x[r] = "UNAVAILABLE" /\ \A q \in DOMAIN e.resources \ {r} : x[q] = e.resources[q]
      OBVIOUS
    <2> HIDE DEF x
    <2>3. LessOf("resources", x, e["resources"]) /\ "resources" \in CollectedFields \ {"nodes", "metrics"}
      BY <1>5, <2>2 DEF LessOf, CollectedFields, Written
    <2> QED
      BY <2>1, <2>3, OneLoss
  <1>6. ASSUME NEW m \in DOMAIN e.budget \ {"duration"}, d = [e EXCEPT !.budget[m] = Insight!None] PROVE Less(d, e)
    <2> DEFINE x == [e.budget EXCEPT ![m] = Insight!None]
    <2>1. d = [e EXCEPT !.budget = x]
      BY <1>6
    <2>2. DOMAIN x = DOMAIN e.budget /\ x[m] = Insight!None /\ \A q \in DOMAIN e.budget \ {m} : x[q] = e.budget[q]
      OBVIOUS
    <2> HIDE DEF x
    <2>3. LessOf("budget", x, e["budget"]) /\ "budget" \in CollectedFields \ {"nodes", "metrics"}
      BY <2>2 DEF LessOf, CollectedFields, Written
    <2> QED
      BY <2>1, <2>3, OneLoss
  <1>7. CASE \/ d \in {[e EXCEPT !.kept = @ \ {r}] : r \in e.kept \cap {"readiness", "traffic", "probes"}}
             \/ d \in {[e EXCEPT !.files = s] : s \in Without(e.files)}
             \/ d \in {[e EXCEPT !.artifacts = s] : s \in Without(e.artifacts)}
    BY <1>3, <1>4, <1>7
  <1>8. CASE d \in {[e EXCEPT !.resources[r] = "UNAVAILABLE"] : r \in {x \in DOMAIN e.resources : e.resources[x] = "AVAILABLE"}}
    BY <1>5, <1>8
  <1>9. CASE d \in {[e EXCEPT !.budget[m] = Insight!None] : m \in DOMAIN e.budget \ {"duration"}}
    BY <1>6, <1>9
  <1> QED
    BY <1>1, <1>2, <1>7, <1>8, <1>9 DEF LostFromReports

LEMMA CloudLossIsLess ==
    ASSUME NEW e, Evidence(e), NEW d \in LostFromCloud(e)
    PROVE  Less(d, e)
  <1>1. ASSUME NEW k \in DOMAIN e.account.answers, NEW x,
               x \in [transient : Nat, then : {"ok", "denied", "malformed", "unsupported"}],
               x.then = "denied" \/ x.transient > e.account.retries,
               d = [e EXCEPT !.account.answers[k] = x]
        PROVE  Less(d, e)
    <2> DEFINE answers == [e.account.answers EXCEPT ![k] = x]
               v == [e.account EXCEPT !.answers = answers]
    <2>1. d = [e EXCEPT !.account = v]
      BY <1>1
    <2>2. AccountFields \subseteq DOMAIN e.account
      BY DEF Evidence, IsAccount, AccountFields
    <2>3. DOMAIN answers = DOMAIN e.account.answers /\ answers[k] = x
          /\ \A key \in DOMAIN e.account.answers \ {k} : answers[key] = e.account.answers[key]
      OBVIOUS
    <2> HIDE DEF answers
    <2>4. DOMAIN v = DOMAIN e.account /\ v.answers = answers /\ \A f \in AccountFields \ {"answers"} : v[f] = e.account[f]
      BY <2>2 DEF AccountFields
    <2>5. v.retries = e.account.retries
      BY <2>4 DEF AccountFields
    <2> HIDE DEF v
    <2>6. Withheld(v, e.account, k)
      BY <1>1, <2>3, <2>4, <2>5 DEF Withheld
    <2>7. LessOf("account", v, e["account"]) /\ "account" \in CollectedFields \ {"nodes", "metrics"}
      BY <2>6 DEF LessOf, CollectedFields, Written
    <2> QED
      BY <2>1, <2>7, OneLoss
  <1>2. /\ e.account.retries \in Nat
        /\ \A k \in DOMAIN e.account.answers :
              e.account.answers[k] \in [transient : Nat, then : {"ok", "denied", "malformed", "unsupported"}]
    BY DEF Evidence, IsAccount
  <1>3. ASSUME NEW k \in DOMAIN e.account.answers, d = [e EXCEPT !.account.answers[k].then = "denied"] PROVE Less(d, e)
    <2> DEFINE x == [e.account.answers[k] EXCEPT !.then = "denied"]
    <2>1. d = [e EXCEPT !.account.answers[k] = x]
      BY <1>3
    <2>2. x \in [transient : Nat, then : {"ok", "denied", "malformed", "unsupported"}] /\ x.then = "denied"
      BY <1>2
    <2> HIDE DEF x
    <2> QED
      BY <1>1, <2>1, <2>2
  <1>4. ASSUME NEW k \in DOMAIN e.account.answers, d = [e EXCEPT !.account.answers[k].transient = e.account.retries + 1]
        PROVE  Less(d, e)
    <2> DEFINE x == [e.account.answers[k] EXCEPT !.transient = e.account.retries + 1]
    <2>1. d = [e EXCEPT !.account.answers[k] = x]
      BY <1>4
    <2>2. /\ x \in [transient : Nat, then : {"ok", "denied", "malformed", "unsupported"}]
          /\ x.transient = e.account.retries + 1
      BY <1>2
    <2>3. x.transient > e.account.retries
      BY <1>2, <2>2
    <2> HIDE DEF x
    <2> QED
      BY <1>1, <2>1, <2>2, <2>3
  <1>5. ASSUME NEW k \in DOMAIN e.cli.answers, d = [e EXCEPT !.cli.answers[k] = "error"] PROVE Less(d, e)
    <2> DEFINE answers == [e.cli.answers EXCEPT ![k] = "error"]
               x == [e.cli EXCEPT !.answers = answers]
    <2>1. d = [e EXCEPT !.cli = x]
      BY <1>5
    <2>2. DOMAIN answers = DOMAIN e.cli.answers /\ \A j \in DOMAIN e.cli.answers : answers[j] \in {e.cli.answers[j], "error"}
      OBVIOUS
    <2>3. {"installed", "answers"} \subseteq DOMAIN e.cli
      BY DEF Evidence
    <2> HIDE DEF answers
    <2>4. DOMAIN x = DOMAIN e.cli /\ x.installed = e.cli.installed /\ x.answers = answers
      BY <2>3
    <2> HIDE DEF x
    <2>5. LessOf("cli", x, e["cli"]) /\ "cli" \in CollectedFields \ {"nodes", "metrics"}
      BY <2>2, <2>4 DEF LessOf, CollectedFields, Written
    <2> QED
      BY <2>1, <2>5, OneLoss
  <1>6. CASE d = [e EXCEPT !.cli.installed = FALSE]
    <2> DEFINE x == [e.cli EXCEPT !.installed = FALSE]
    <2>1. d = [e EXCEPT !.cli = x]
      BY <1>6
    <2>2. {"installed", "answers"} \subseteq DOMAIN e.cli
      BY DEF Evidence
    <2>3. DOMAIN x = DOMAIN e.cli /\ x.installed = FALSE /\ x.answers = e.cli.answers
      BY <2>2
    <2> HIDE DEF x
    <2>4. LessOf("cli", x, e["cli"]) /\ "cli" \in CollectedFields \ {"nodes", "metrics"}
      BY <2>3 DEF LessOf, CollectedFields, Written
    <2> QED
      BY <2>1, <2>4, OneLoss
  <1>7. CASE d = [e EXCEPT !.enabled = FALSE]
    <2>1. LessOf("enabled", FALSE, e["enabled"]) /\ "enabled" \in CollectedFields \ {"nodes", "metrics"}
      BY DEF LessOf, CollectedFields, Written
    <2> QED
      BY <1>7, <2>1, OneLoss
  <1> QED
    BY <1>3, <1>4, <1>5, <1>6, <1>7 DEF LostFromCloud

LEMMA LossesAreLess ==
    ASSUME NEW e, Evidence(e), NEW kind \in {"cluster", "reports", "cloud"}, NEW d \in Weaker(e, kind)
    PROVE  Less(d, e)
  <1>1. CASE kind = "cluster"
    BY <1>1, ClusterLossIsLess DEF Weaker
  <1>2. CASE kind = "reports"
    BY <1>2, ReportsLossIsLess DEF Weaker
  <1>3. CASE kind = "cloud"
    BY <1>3, CloudLossIsLess DEF Weaker
  <1> QED
    BY <1>1, <1>2, <1>3

\* What is left of evidence is evidence.
LEMMA LessIsEvidenceStill ==
    ASSUME NEW e, Evidence(e), NEW d, Less(d, e)
    PROVE  Evidence(d)
  <1>1. CollectedFields \subseteq DOMAIN d /\ DOMAIN d \cap MadeLater = {}
    BY DEF Evidence, Less
  <1>2. /\ d.documents = e.documents /\ d.external = e.external /\ d.samples = e.samples /\ d.records = e.records
        /\ d.requested \subseteq e.requested /\ d.artifacts \subseteq e.artifacts
        /\ d.nodes = e.nodes \/ d.nodes = <<>>
        /\ DOMAIN d.listed \subseteq DOMAIN e.listed /\ \A k \in DOMAIN d.listed : d.listed[k] \subseteq e.listed[k]
        /\ DOMAIN d.inv = DOMAIN e.inv /\ DOMAIN d.manual = DOMAIN e.manual
        /\ DOMAIN d.cli = DOMAIN e.cli /\ DOMAIN d.cli.answers = DOMAIN e.cli.answers
        /\ DOMAIN d.resources = DOMAIN e.resources /\ DOMAIN d.budget = DOMAIN e.budget
        /\ d.account = e.account \/ \E k : Withheld(d.account, e.account, k)
    <2> DEFINE L(f) == LessOf(f, d[f], e[f])
    <2>1. \A f \in CollectedFields : L(f)
      BY DEF Less
    <2> HIDE DEF L
    <2>2. /\ L("documents") /\ L("external") /\ L("samples") /\ L("records") /\ L("requested") /\ L("artifacts")
          /\ L("nodes") /\ L("listed") /\ L("inv") /\ L("manual") /\ L("cli") /\ L("resources") /\ L("budget") /\ L("account")
      BY <2>1 DEF CollectedFields, Written
    <2>3. /\ d.documents = e.documents /\ d.external = e.external /\ d.samples = e.samples /\ d.records = e.records
      BY <2>2 DEF L, LessOf
    <2>4. /\ d.requested \subseteq e.requested /\ d.artifacts \subseteq e.artifacts
          /\ d.nodes = e.nodes \/ d.nodes = <<>>
      BY <2>2 DEF L, LessOf
    <2>5. DOMAIN d.listed \subseteq DOMAIN e.listed /\ \A k \in DOMAIN d.listed : d.listed[k] \subseteq e.listed[k]
      BY <2>2 DEF L, LessOf
    <2>6. /\ DOMAIN d.inv = DOMAIN e.inv /\ DOMAIN d.manual = DOMAIN e.manual
          /\ DOMAIN d.cli = DOMAIN e.cli /\ DOMAIN d.cli.answers = DOMAIN e.cli.answers
          /\ DOMAIN d.resources = DOMAIN e.resources /\ DOMAIN d.budget = DOMAIN e.budget
      BY <2>2 DEF L, LessOf
    <2>7. d.account = e.account \/ \E k : Withheld(d.account, e.account, k)
      BY <2>2 DEF L, LessOf
    <2> QED
      BY <2>3, <2>4, <2>5, <2>6, <2>7
  <1>3. "secrets-metadata" \notin d.artifacts /\ d.requested \subseteq {"Secret", "ConfigMap"}
    BY <1>2 DEF Evidence
  <1>4. \A k \in DOMAIN d.listed : \A o \in d.listed[k] : o.kind = k
    BY <1>2 DEF Evidence
  <1>5. IsList(d.nodes) /\ \A i \in DOMAIN d.nodes : d.nodes[i].name # "" /\ d.nodes[i].version \in DOMAIN d.records
    <2>1. CASE d.nodes = <<>>
      BY <2>1 DEF IsList
    <2>2. CASE d.nodes = e.nodes
      BY <1>2, <2>2 DEF Evidence
    <2> QED
      BY <1>2, <2>1, <2>2
  <1>6. IsAccount(d.account)
    <2>1. IsAccount(e.account)
      BY DEF Evidence
    <2> QED
      BY <1>2, <2>1, WithheldIsAccount
  <1>7. /\ IsList(e.documents) /\ IsList(e.external)
        /\ \A u \in Manifest!Usage : IsList(e.samples[u]) /\ \A i \in DOMAIN e.samples[u] : e.samples[u][i].value \in Int
        /\ IsInventory(e.inv) /\ {"state", "declared"} \subseteq DOMAIN e.manual
        /\ {"installed", "answers"} \subseteq DOMAIN e.cli /\ Insight!ReadOnlyCommands \subseteq DOMAIN e.cli.answers
        /\ IsFiniteSet(DOMAIN e.resources)
        /\ (Provider!Metrics \ {"cloudApiRequests"}) \cup {"elapsed"} \subseteq DOMAIN e.budget
    BY DEF Evidence
  <1>8. IsInventory(d.inv)
    BY <1>2, <1>7 DEF IsInventory
  <1> QED
    BY <1>1, <1>2, <1>3, <1>4, <1>5, <1>6, <1>7, <1>8 DEF Evidence

-----------------------------------------------------------------------------
(* Every collection of a pair, as its evidence gets lost *)

\* What can be lost, and what is left of it, at every step of a collection.
Losing(pair) ==
    /\ DOMAIN pair = {"source", "target", "mapping", "left"}
    /\ pair.left \subseteq {"cluster", "reports", "cloud"}
    /\ Evidence(pair.target)

LEMMA LossesKeepPairs ==
    ASSUME NEW pair, Losing(pair), NEW kind \in pair.left, NEW e \in Weaker(pair.target, kind)
    PROVE  /\ Losing([pair EXCEPT !.target = e, !.left = @ \ {kind}])
           /\ Less(e, pair.target) /\ Evidence(e)
  <1>1. Less(e, pair.target)
    BY LossesAreLess DEF Losing
  <1>2. Evidence(e)
    BY <1>1, LessIsEvidenceStill DEF Losing
  <1> QED
    BY <1>1, <1>2 DEF Losing

LEMMA WithdrawLoses ==
    ASSUME Withdraw, Losing(given)
    PROVE  /\ Losing(given') /\ Less(given'.target, given.target)
           /\ given'.source = given.source /\ given'.mapping = given.mapping
  <1>1. PICK kind \in given.left :
           given' \in {[given EXCEPT !.target = e, !.left = @ \ {kind}] : e \in Weaker(given.target, kind)}
    BY DEF Withdraw
  <1>2. PICK e \in Weaker(given.target, kind) : given' = [given EXCEPT !.target = e, !.left = @ \ {kind}]
    BY <1>1
  <1>3. given'.target = e /\ given'.source = given.source /\ given'.mapping = given.mapping
    BY <1>2 DEF Losing
  <1> QED
    BY <1>2, <1>3, LossesKeepPairs

LEMMA PairsKeepLosing ==
    GatesSpec => [](subject = "collection" => Losing(given))
  <1> DEFINE Inv == subject = "collection" => Losing(given)
  <1>1. GatesInit => Inv
    BY PairsAssumption DEF GatesInit, Losing
  <1>2. Inv /\ [GatesNext]_gatesVars => Inv'
    <2> SUFFICES ASSUME Inv, [GatesNext]_gatesVars, subject' = "collection"
                 PROVE  Losing(given')
      OBVIOUS
    <2>1. CASE Withdraw
      <3>1. Losing(given)
        BY <2>1 DEF Withdraw
      <3> QED
        BY <2>1, <3>1, WithdrawLoses
    <2>2. CASE Ask \/ Accept \/ Verify \/ UNCHANGED gatesVars
      BY <2>2 DEF Ask, Accept, Verify, gatesVars
    <2> QED
      BY <2>1, <2>2 DEF GatesNext
  <1> QED
    BY <1>1, <1>2, PTL DEF GatesSpec

\* generate and evaluate of every report, and validate_assessment_artifacts.py: whatever
\* evidence a source and a target have and lose, what is published of a complete
\* collection with a score passes the checks Valid names, and node_process_evidence.py
\* counts each sample of a known label once.
THEOREM PublishedCollectionsAreSound == GatesSpec => []ReportsAreSound
  <1>1. (subject = "collection" => Losing(given)) => ReportsAreSound
    <2> SUFFICES ASSUME subject = "collection", Losing(given)
                 PROVE  /\ Complete(given.target) /\ Scored(Collection(given.target))
                              => Sound(Published(Collection(given.target)))
                        /\ SamplesCountOnce(given.target)
      BY DEF ReportsAreSound
    <2> DEFINE e == given.target
    <2>1. Evidence(e)
      BY DEF Losing
    <2> HIDE DEF e
    <2>2. Complete(e) /\ Scored(Collection(e)) => Sound(Published(Collection(e)))
      BY <2>1, PublishedIsSound
    <2>3. SamplesCountOnce(e)
      <3>1. /\ Named(e.nodes)
            /\ \A u \in Manifest!Usage : /\ e.samples[u] \in Seq(ToSet(e.samples[u]))
                                         /\ \A i \in DOMAIN e.samples[u] : e.samples[u][i].value \in Int
        BY <2>1 DEF Evidence, Named, IsList
      <3>2. \A u \in Manifest!Usage : CountsOnce(e.nodes, e.samples, u)
        BY <3>1, EverySampleCountsOnce
      <3> QED
        BY <3>2 DEF SamplesCountOnce, CountsOnce
    <2> QED
      BY <2>2, <2>3 DEF e
  <1> QED
    BY <1>1, PairsKeepLosing, PTL

-----------------------------------------------------------------------------
(* The decisions of readiness and migration *)

LEMMA FirstOfThree ==
    ASSUME NEW x, NEW y, NEW z, NEW states
    PROVE  Migration!FirstOf(<<x, y, z>>, states) =
              IF x \in states THEN x ELSE IF y \in states THEN y ELSE IF z \in states THEN z ELSE "PASS"
  <1> DEFINE order == <<x, y, z>>
             found == {i \in DOMAIN order : order[i] \in states}
  <1>1. Migration!FirstOf(order, states) = IF found = {} THEN "PASS" ELSE order[Migration!Min(found)]
    BY DEF Migration!FirstOf
  <1>2. DOMAIN order = {1, 2, 3} /\ order[1] = x /\ order[2] = y /\ order[3] = z
    OBVIOUS
  <1>3. found # {} => Migration!Min(found) \in found /\ \A i \in found : Migration!Min(found) <= i
    <2>1. Migration!Min(found) = Min(found)
      BY DEF Migration!Min, Min
    <2>2. found \in SUBSET DOMAIN order /\ order \in Seq({x, y, z})
      OBVIOUS
    <2> HIDE DEF order, found
    <2> QED
      BY <2>1, <2>2, FirstAndLast, PositionsOfList
  <1>4. \A i : i \in found <=> i \in {1, 2, 3} /\ order[i] \in states
    BY <1>2
  <1> HIDE DEF order, found
  <1>5. CASE x \in states
    <2>1. 1 \in found
      BY <1>2, <1>4, <1>5
    <2>2. Migration!Min(found) = 1
      BY <1>2, <1>3, <1>4, <2>1
    <2> QED
      BY <1>1, <1>2, <1>5, <2>1, <2>2 DEF order
  <1>6. CASE x \notin states /\ y \in states
    <2>1. 2 \in found /\ 1 \notin found
      BY <1>2, <1>4, <1>6
    <2>2. Migration!Min(found) = 2
      BY <1>2, <1>3, <1>4, <2>1
    <2> QED
      BY <1>1, <1>2, <1>6, <2>1, <2>2 DEF order
  <1>7. CASE x \notin states /\ y \notin states /\ z \in states
    <2>1. found = {3}
      BY <1>2, <1>4, <1>7
    <2>2. Migration!Min(found) = 3
      BY <1>3, <2>1
    <2> QED
      BY <1>1, <1>2, <1>7, <2>1, <2>2 DEF order
  <1>8. CASE x \notin states /\ y \notin states /\ z \notin states
    <2>1. found = {}
      BY <1>2, <1>4, <1>8
    <2> QED
      BY <1>1, <1>8, <2>1 DEF order
  <1> QED
    BY <1>5, <1>6, <1>7, <1>8

LEMMA FirstOfTwo ==
    ASSUME NEW x, NEW y, NEW states
    PROVE  Migration!FirstOf(<<x, y>>, states) = IF x \in states THEN x ELSE IF y \in states THEN y ELSE "PASS"
  <1> DEFINE order == <<x, y>>
             found == {i \in DOMAIN order : order[i] \in states}
  <1>1. Migration!FirstOf(order, states) = IF found = {} THEN "PASS" ELSE order[Migration!Min(found)]
    BY DEF Migration!FirstOf
  <1>2. DOMAIN order = {1, 2} /\ order[1] = x /\ order[2] = y
    OBVIOUS
  <1>3. found # {} => Migration!Min(found) \in found /\ \A i \in found : Migration!Min(found) <= i
    <2>1. Migration!Min(found) = Min(found)
      BY DEF Migration!Min, Min
    <2>2. found \in SUBSET DOMAIN order /\ order \in Seq({x, y})
      OBVIOUS
    <2> HIDE DEF order, found
    <2> QED
      BY <2>1, <2>2, FirstAndLast, PositionsOfList
  <1>4. \A i : i \in found <=> i \in {1, 2} /\ order[i] \in states
    BY <1>2
  <1> HIDE DEF order, found
  <1>5. CASE x \in states
    <2>1. 1 \in found
      BY <1>2, <1>4, <1>5
    <2>2. Migration!Min(found) = 1
      BY <1>2, <1>3, <1>4, <2>1
    <2> QED
      BY <1>1, <1>2, <1>5, <2>1, <2>2 DEF order
  <1>6. CASE x \notin states /\ y \in states
    <2>1. found = {2}
      BY <1>2, <1>4, <1>6
    <2>2. Migration!Min(found) = 2
      BY <1>3, <2>1
    <2> QED
      BY <1>1, <1>2, <1>6, <2>1, <2>2 DEF order
  <1>7. CASE x \notin states /\ y \notin states
    <2>1. found = {}
      BY <1>2, <1>4, <1>7
    <2> QED
      BY <1>1, <1>7, <2>1 DEF order
  <1> QED
    BY <1>5, <1>6, <1>7

\* The states of a mandatory gate that a decision does not get past.
Blocks == {"FAIL", "UNKNOWN", "EVIDENCE_UNAVAILABLE"}
Passes(gates, g) == gates[g].mandatory => gates[g].status \notin Blocks

LEMMA GoMeans ==
    ASSUME NEW gates
    PROVE  Migration!Decision(gates) = "GO" <=> \A g \in DOMAIN gates : Passes(gates, g)
  <1>1. Migration!Decision(gates) = "GO" <=> Migration!Mandatory(gates) \cap Blocks = {}
    BY DEF Migration!Decision, Blocks
  <1>2. Migration!Mandatory(gates) \cap Blocks = {} <=> \A g \in DOMAIN gates : Passes(gates, g)
    BY DEF Migration!Mandatory, Passes
  <1> QED
    BY <1>1, <1>2

\* What the gates read of what is left, b, against what they read of the whole, c.
Standing ==
    {"manifests", "workloads", "ingresses", "gateways", "istioGateways", "certificates", "routes", "virtualServices",
     "destinationRules", "openshiftRoutes", "pvcs", "probes", "policies", "storageClasses", "serviceAccounts", "versions"}
Weakened(b, c) ==
    /\ "probes" \in DOMAIN b /\ \A f \in Standing : b[f] = c[f]
    /\ b.services \subseteq c.services /\ b.endpoints \subseteq c.endpoints
    /\ b.grants \subseteq c.grants /\ b.files \subseteq c.files
    /\ \A ns : Migration!InScope(b, ns) => Migration!InScope(c, ns)
    /\ b.backups = c.backups \/ b.backups = {}
    /\ b.snapshots = c.snapshots \/ b.snapshots = {}
    /\ b.manual.declared = c.manual.declared /\ b.manual.state \in {c.manual.state, "ABSENT"}
    /\ b.completed = c.completed \/ b.completed = FALSE
    /\ b.kept \subseteq c.kept /\ c.kept \ b.kept \subseteq {"readiness", "traffic", "probes"}
    /\ b.configuration.available \subseteq c.configuration.available
    /\ b.configuration.objects \subseteq c.configuration.objects
    /\ \/ b.nodeHealth = "EVIDENCE_UNAVAILABLE"
       \/ b.nodeHealth = c.nodeHealth /\ b.skew = c.skew /\ b.endOfSupport = c.endOfSupport
    /\ b.manifestSchema = "FAIL" <=> c.manifestSchema = "FAIL"
    /\ c.manifestSchema \in {"FAIL", "WARN", "PARTIAL"}

LEMMA StandingFacts ==
    ASSUME NEW b, NEW c, Weakened(b, c)
    PROVE  /\ b.manifests = c.manifests /\ b.workloads = c.workloads /\ b.ingresses = c.ingresses
           /\ b.gateways = c.gateways /\ b.istioGateways = c.istioGateways /\ b.certificates = c.certificates
           /\ b.routes = c.routes /\ b.virtualServices = c.virtualServices
           /\ b.destinationRules = c.destinationRules /\ b.openshiftRoutes = c.openshiftRoutes
           /\ b.pvcs = c.pvcs /\ b.probes = c.probes /\ b.policies = c.policies
           /\ b.storageClasses = c.storageClasses /\ b.serviceAccounts = c.serviceAccounts /\ b.versions = c.versions
  BY DEF Weakened, Standing

\* The states a path or a gate of the state may not have.
Barred == {"FAIL", "UNKNOWN"}

LEMMA RouteStatusMeans ==
    ASSUME NEW S
    PROVE  /\ Migration!RouteStatus(S) \in {"FAIL", "UNKNOWN", "WARN", "PASS"}
           /\ Migration!RouteStatus(S) \notin Barred <=> S \cap Barred = {}
  BY FirstOfThree DEF Migration!RouteStatus, Barred

LEMMA ServiceTargetLess ==
    ASSUME NEW b, NEW c, Weakened(b, c), NEW to, NEW p, NEW q, Migration!ServiceTarget(b, to, p) \notin Barred
    PROVE  Migration!ServiceTarget(c, to, q) \notin Barred
  <1> DEFINE in(x) == {s \in x.services : s.ns = to.ns /\ s.name = to.name}
             ready(x, s) == /\ to.port = "" \/ to.port \in s.ports
                            /\ Migration!ReadyEndpoints(x, to.ns, to.name) # {} \/ ~ s.selector
  <1>1. in(b) # {} /\ \E s \in in(b) : ready(b, s)
    BY DEF Migration!ServiceTarget, Barred
  <1>2. in(b) \subseteq in(c)
    BY DEF Weakened
  <1>3. Migration!ReadyEndpoints(b, to.ns, to.name) \subseteq Migration!ReadyEndpoints(c, to.ns, to.name)
    BY DEF Weakened, Migration!ReadyEndpoints
  <1>4. in(c) # {} /\ \E s \in in(c) : ready(c, s)
    BY <1>1, <1>2, <1>3
  <1>5. Migration!ServiceTarget(c, to, q) = "PASS"
    BY <1>4 DEF Migration!ServiceTarget
  <1> QED
    BY <1>5 DEF Barred

LEMMA ParentStateLess ==
    ASSUME NEW b, NEW c, Weakened(b, c), NEW route, NEW parent, Migration!ParentState(b, route, parent) \notin Barred
    PROVE  Migration!ParentState(c, route, parent) \notin Barred
  <1>1. b.gateways = c.gateways
    BY StandingFacts
  <1>2. {g \in c.gateways : g.ns = parent.ns /\ g.name = parent.name} # {}
    BY <1>1 DEF Migration!ParentState, Barred
  <1>3. Migration!ParentState(c, route, parent) = Migration!ParentState(b, route, parent)
    BY <1>1, <1>2 DEF Migration!ParentState
  <1> QED
    BY <1>3

LEMMA BackendStateLess ==
    ASSUME NEW b, NEW c, Weakened(b, c), NEW route, NEW to, Migration!BackendState(b, route, to) \notin Barred
    PROVE  Migration!BackendState(c, route, to) \notin Barred
  <1>1. Migration!ReferenceGranted(b, route, to) => Migration!ReferenceGranted(c, route, to)
    BY DEF Weakened, Migration!ReferenceGranted
  <1>2. to.kind = "Service" /\ (to.ns # route.ns => Migration!ReferenceGranted(b, route, to))
    BY DEF Migration!BackendState, Barred
  <1>3. /\ Migration!BackendState(b, route, to) = Migration!ServiceTarget(b, to, Migration!InScope(b, to.ns))
        /\ Migration!BackendState(c, route, to) = Migration!ServiceTarget(c, to, Migration!InScope(c, to.ns))
    BY <1>1, <1>2 DEF Migration!BackendState
  <1> QED
    BY <1>3, ServiceTargetLess

LEMMA DestinationStateLess ==
    ASSUME NEW b, NEW c, Weakened(b, c), NEW vs, NEW to, Migration!DestinationState(b, vs, to) \notin Barred
    PROVE  Migration!DestinationState(c, vs, to) \notin Barred
  <1>1. b.destinationRules = c.destinationRules
    BY StandingFacts
  <1>2. Migration!SubsetKnown(c, vs, to) <=> Migration!SubsetKnown(b, vs, to)
    BY <1>1 DEF Migration!SubsetKnown
  <1>3. /\ Migration!DestinationState(b, vs, to) = Migration!ServiceTarget(b, to, Migration!InScope(b, to.ns))
        /\ Migration!DestinationState(c, vs, to) = Migration!ServiceTarget(c, to, Migration!InScope(c, to.ns))
    BY <1>2 DEF Migration!DestinationState, Barred
  <1> QED
    BY <1>3, ServiceTargetLess

LEMMA IstioGatewayLess ==
    ASSUME NEW b, NEW c, Weakened(b, c), NEW g, Migration!IstioGatewayState(b, g) \notin Barred
    PROVE  Migration!IstioGatewayState(c, g) \notin Barred
  <1>1. b.istioGateways = c.istioGateways
    BY StandingFacts
  <1> QED
    BY <1>1 DEF Migration!IstioGatewayState, Barred

LEMMA OrUnknownMeans ==
    ASSUME NEW S
    PROVE  Migration!OrUnknown(S) \cap Barred = {} <=> S # {} /\ S \cap Barred = {}
  BY DEF Migration!OrUnknown, Barred

LEMMA IngressPathLess ==
    ASSUME NEW b, NEW c, Weakened(b, c), NEW i, NEW p, Migration!IngressPath(b, i, p) \notin Barred
    PROVE  Migration!IngressPath(c, i, p) \notin Barred
  <1> DEFINE tls == IF p.tls THEN "PASS" ELSE "WARN"
             states(x) == {Migration!ServiceTarget(x, p.to, TRUE), tls}
  <1>1. states(b) \cap Barred = {}
    BY RouteStatusMeans DEF Migration!IngressPath
  <1>2. Migration!ServiceTarget(c, p.to, TRUE) \notin Barred
    <2>1. Migration!ServiceTarget(b, p.to, TRUE) \notin Barred
      BY <1>1
    <2> QED
      BY <2>1, ServiceTargetLess
  <1>3. states(c) \cap Barred = {}
    BY <1>1, <1>2
  <1> QED
    BY <1>3, RouteStatusMeans DEF Migration!IngressPath

LEMMA RoutePathLess ==
    ASSUME NEW b, NEW c, Weakened(b, c), NEW r, NEW rule, Migration!RoutePath(b, r, rule) \notin Barred
    PROVE  Migration!RoutePath(c, r, rule) \notin Barred
  <1> DEFINE parents(x) == {Migration!ParentState(x, r, p) : p \in r.parents}
             backends(x) == {Migration!BackendState(x, r, to) : to \in rule}
             states(x) == Migration!OrUnknown(parents(x)) \cup {Migration!AcceptanceState(r)}
                             \cup Migration!OrUnknown(backends(x))
  <1>1. /\ Migration!RoutePath(b, r, rule) = Migration!RouteStatus(states(b))
        /\ Migration!RoutePath(c, r, rule) = Migration!RouteStatus(states(c))
    BY DEF Migration!RoutePath
  <1>2. states(b) \cap Barred = {}
    <2> HIDE DEF states
    <2> QED
      BY <1>1, RouteStatusMeans
  <1> HIDE DEF parents, backends
  <1>3. /\ parents(b) # {} /\ parents(b) \cap Barred = {} /\ backends(b) # {} /\ backends(b) \cap Barred = {}
        /\ Migration!AcceptanceState(r) \notin Barred
    BY <1>2, OrUnknownMeans
  <1>4. parents(c) # {} /\ parents(c) \cap Barred = {}
    <2>1. \A p \in r.parents : Migration!ParentState(b, r, p) \notin Barred
      BY <1>3 DEF parents
    <2>2. \A p \in r.parents : Migration!ParentState(c, r, p) \notin Barred
      BY <2>1, ParentStateLess
    <2> QED
      BY <1>3, <2>2 DEF parents
  <1>5. backends(c) # {} /\ backends(c) \cap Barred = {}
    <2>1. \A to \in rule : Migration!BackendState(b, r, to) \notin Barred
      BY <1>3 DEF backends
    <2>2. \A to \in rule : Migration!BackendState(c, r, to) \notin Barred
      BY <2>1, BackendStateLess
    <2> QED
      BY <1>3, <2>2 DEF backends
  <1>6. states(c) \cap Barred = {}
    BY <1>3, <1>4, <1>5, OrUnknownMeans
  <1> HIDE DEF states
  <1> QED
    BY <1>1, <1>6, RouteStatusMeans

LEMMA VirtualServicePathLess ==
    ASSUME NEW b, NEW c, Weakened(b, c), NEW vs, NEW ds, Migration!VirtualServicePath(b, vs, ds) \notin Barred
    PROVE  Migration!VirtualServicePath(c, vs, ds) \notin Barred
  <1> DEFINE entries(x) == {Migration!IstioGatewayState(x, g) : g \in vs.gateways}
             destinations(x) == {Migration!DestinationState(x, vs, t) : t \in ds}
             states(x) == entries(x) \cup Migration!OrUnknown(destinations(x)) \cup Migration!WeightStates(ds)
  <1>1. /\ Migration!VirtualServicePath(b, vs, ds) = Migration!RouteStatus(states(b))
        /\ Migration!VirtualServicePath(c, vs, ds) = Migration!RouteStatus(states(c))
    BY DEF Migration!VirtualServicePath
  <1>2. states(b) \cap Barred = {}
    <2> HIDE DEF states
    <2> QED
      BY <1>1, RouteStatusMeans
  <1> HIDE DEF entries, destinations
  <1>3. /\ entries(b) \cap Barred = {} /\ destinations(b) # {} /\ destinations(b) \cap Barred = {}
        /\ Migration!WeightStates(ds) \cap Barred = {}
    BY <1>2, OrUnknownMeans
  <1>4. entries(c) \cap Barred = {}
    <2>1. \A g \in vs.gateways : Migration!IstioGatewayState(b, g) \notin Barred
      BY <1>3 DEF entries
    <2>2. \A g \in vs.gateways : Migration!IstioGatewayState(c, g) \notin Barred
      BY <2>1, IstioGatewayLess
    <2> QED
      BY <2>2 DEF entries
  <1>5. destinations(c) # {} /\ destinations(c) \cap Barred = {}
    <2>1. \A t \in ds : Migration!DestinationState(b, vs, t) \notin Barred
      BY <1>3 DEF destinations
    <2>2. \A t \in ds : Migration!DestinationState(c, vs, t) \notin Barred
      BY <2>1, DestinationStateLess
    <2> QED
      BY <1>3, <2>2 DEF destinations
  <1>6. states(c) \cap Barred = {}
    BY <1>3, <1>4, <1>5, OrUnknownMeans
  <1> HIDE DEF states
  <1> QED
    BY <1>1, <1>6, RouteStatusMeans

\* Traffic that works with what is left works with the whole.
LEMMA TrafficLess ==
    ASSUME NEW b, NEW c, Weakened(b, c), Migration!TrafficState(b) \notin Blocks
    PROVE  /\ Migration!TrafficState(c) \notin Blocks
           /\ (Migration!Paths(c) = {}) <=> (Migration!Paths(b) = {})
  <1> DEFINE P1(x) == UNION {{Migration!IngressPath(x, i, p) : p \in i.paths} : i \in x.ingresses}
             P2(x) == UNION {{Migration!RoutePath(x, r, rule) : rule \in r.rules} : r \in x.routes}
             P3(x) == UNION {{Migration!VirtualServicePath(x, v, ds) : ds \in v.routes} : v \in x.virtualServices}
             P4(x) == {Migration!ServiceTarget(x, r.to, TRUE) : r \in x.openshiftRoutes}
  <1>0. /\ b.ingresses = c.ingresses /\ b.routes = c.routes /\ b.virtualServices = c.virtualServices
        /\ b.openshiftRoutes = c.openshiftRoutes
    BY StandingFacts
  <1>1. \A x : Migration!Paths(x) = P1(x) \cup P2(x) \cup P3(x) \cup P4(x)
    BY DEF Migration!Paths
  <1>2. Migration!Paths(b) \cap Barred = {}
    <2>1. CASE Migration!Paths(b) = {}
      BY <2>1
    <2>2. CASE Migration!Paths(b) # {}
      <3>1. Migration!RouteStatus(Migration!Paths(b)) \notin Barred
        BY <2>2 DEF Migration!TrafficState, Blocks, Barred
      <3> QED
        BY <3>1, RouteStatusMeans
    <2> QED
      BY <2>1, <2>2
  <1>3. (P1(c) = {} <=> P1(b) = {}) /\ (P1(b) \cap Barred = {} => P1(c) \cap Barred = {})
    <2>0. \A x, y : y \in P1(x) <=> \E i \in x.ingresses : \E p \in i.paths : y = Migration!IngressPath(x, i, p)
      OBVIOUS
    <2> HIDE DEF P1
    <2>1. P1(c) = {} <=> P1(b) = {}
      <3>1. P1(c) = {} <=> \A i \in c.ingresses : \A p \in i.paths : FALSE
        BY <2>0
      <3>2. P1(b) = {} <=> \A i \in b.ingresses : \A p \in i.paths : FALSE
        BY <2>0
      <3> QED
        BY <1>0, <3>1, <3>2
    <2>2. ASSUME P1(b) \cap Barred = {}, NEW i \in c.ingresses, NEW p \in i.paths
          PROVE  Migration!IngressPath(c, i, p) \notin Barred
      <3>1. Migration!IngressPath(b, i, p) \notin Barred
        BY <1>0, <2>0, <2>2
      <3> QED
        BY <3>1, IngressPathLess
    <2> QED
      BY <2>0, <2>1, <2>2
  <1>4. (P2(c) = {} <=> P2(b) = {}) /\ (P2(b) \cap Barred = {} => P2(c) \cap Barred = {})
    <2>0. \A x, y : y \in P2(x) <=> \E r \in x.routes : \E rule \in r.rules : y = Migration!RoutePath(x, r, rule)
      OBVIOUS
    <2> HIDE DEF P2
    <2>1. P2(c) = {} <=> P2(b) = {}
      <3>1. P2(c) = {} <=> \A r \in c.routes : \A rule \in r.rules : FALSE
        BY <2>0
      <3>2. P2(b) = {} <=> \A r \in b.routes : \A rule \in r.rules : FALSE
        BY <2>0
      <3> QED
        BY <1>0, <3>1, <3>2
    <2>2. ASSUME P2(b) \cap Barred = {}, NEW r \in c.routes, NEW rule \in r.rules
          PROVE  Migration!RoutePath(c, r, rule) \notin Barred
      <3>1. Migration!RoutePath(b, r, rule) \notin Barred
        BY <1>0, <2>0, <2>2
      <3> QED
        BY <3>1, RoutePathLess
    <2> QED
      BY <2>0, <2>1, <2>2
  <1>5. (P3(c) = {} <=> P3(b) = {}) /\ (P3(b) \cap Barred = {} => P3(c) \cap Barred = {})
    <2>0. \A x, y : y \in P3(x) <=> \E v \in x.virtualServices : \E ds \in v.routes : y = Migration!VirtualServicePath(x, v, ds)
      OBVIOUS
    <2> HIDE DEF P3
    <2>1. P3(c) = {} <=> P3(b) = {}
      <3>1. P3(c) = {} <=> \A v \in c.virtualServices : \A ds \in v.routes : FALSE
        BY <2>0
      <3>2. P3(b) = {} <=> \A v \in b.virtualServices : \A ds \in v.routes : FALSE
        BY <2>0
      <3> QED
        BY <1>0, <3>1, <3>2
    <2>2. ASSUME P3(b) \cap Barred = {}, NEW v \in c.virtualServices, NEW ds \in v.routes
          PROVE  Migration!VirtualServicePath(c, v, ds) \notin Barred
      <3>1. Migration!VirtualServicePath(b, v, ds) \notin Barred
        BY <1>0, <2>0, <2>2
      <3> QED
        BY <3>1, VirtualServicePathLess
    <2> QED
      BY <2>0, <2>1, <2>2
  <1>6. (P4(c) = {} <=> P4(b) = {}) /\ (P4(b) \cap Barred = {} => P4(c) \cap Barred = {})
    <2>1. P4(c) = {} <=> P4(b) = {}
      BY <1>0
    <2>2. ASSUME P4(b) \cap Barred = {}, NEW r \in c.openshiftRoutes
          PROVE  Migration!ServiceTarget(c, r.to, TRUE) \notin Barred
      <3>1. Migration!ServiceTarget(b, r.to, TRUE) \notin Barred
        BY <1>0, <2>2
      <3> QED
        BY <3>1, ServiceTargetLess
    <2> QED
      BY <2>1, <2>2
  <1> HIDE DEF P1, P2, P3, P4
  <1>7. Migration!Paths(c) = {} <=> Migration!Paths(b) = {}
    BY <1>1, <1>3, <1>4, <1>5, <1>6
  <1>8. Migration!Paths(c) \cap Barred = {}
    BY <1>1, <1>2, <1>3, <1>4, <1>5, <1>6
  <1>9. Migration!TrafficState(c) \notin Blocks
    <2>1. Migration!RouteStatus(Migration!Paths(c)) \notin Blocks
      BY <1>8, RouteStatusMeans DEF Blocks, Barred
    <2> QED
      BY <2>1 DEF Migration!TrafficState, Blocks
  <1> QED
    BY <1>7, <1>9

\* What must hold of a collection for readiness to say GO.
LEMMA ReadinessMeans ==
    ASSUME NEW c
    PROVE  Migration!Readiness(c) = "GO" <=>
              /\ Migration!ConfigurationState(Migration!ConfigurationRows(c)) \notin Blocks
              /\ Migration!TrafficState(c) \notin Blocks
              /\ Migration!StateData(c).relevant => Migration!StateData(c).state \notin Blocks
              /\ Migration!NodeGateState(c.nodeHealth) \notin Blocks
              /\ Migration!ProbesState(c.probes) \notin Blocks
              /\ Migration!CutoverState(Migration!ManualEvidence(c)) \notin Blocks
              /\ Migration!ManualState(c) # "INVALID"
  <1> DEFINE configuration == Migration!ConfigurationState(Migration!ConfigurationRows(c))
             traffic == Migration!TrafficState(c)
             data == Migration!StateData(c)
             nodes == Migration!NodeGateState(c.nodeHealth)
             probes == Migration!ProbesState(c.probes)
             cutover == Migration!CutoverState(Migration!ManualEvidence(c))
             invalid == Migration!ManualState(c) = "INVALID"
             gates == [configuration |-> Migration!Gate(configuration, TRUE),
                       traffic |-> Migration!Gate(traffic, traffic # "N/A"),
                       stateData |-> Migration!Gate(data.state, data.relevant),
                       nodes |-> Migration!Gate(nodes, TRUE),
                       probes |-> Migration!Gate(probes, probes # "DISABLED"),
                       cutover |-> Migration!Gate(cutover, TRUE),
                       contract |-> Migration!Gate(IF invalid THEN "FAIL" ELSE "PASS", invalid)]
  <1>1. Migration!Readiness(c) = Migration!Decision(gates)
    BY DEF Migration!Readiness, Migration!ReadinessGates, Migration!Generate
  <1> HIDE DEF configuration, traffic, data, nodes, probes, cutover, invalid
  <1>2. /\ DOMAIN gates = {"configuration", "traffic", "stateData", "nodes", "probes", "cutover", "contract"}
        /\ Passes(gates, "configuration") <=> configuration \notin Blocks
        /\ Passes(gates, "traffic") <=> traffic \notin Blocks
        /\ Passes(gates, "stateData") <=> (data.relevant => data.state \notin Blocks)
        /\ Passes(gates, "nodes") <=> nodes \notin Blocks
        /\ Passes(gates, "probes") <=> probes \notin Blocks
        /\ Passes(gates, "cutover") <=> cutover \notin Blocks
        /\ Passes(gates, "contract") <=> ~ invalid
    BY DEF Passes, Migration!Gate, Blocks
  <1> HIDE DEF gates
  <1>3. Migration!Decision(gates) = "GO" <=> \A g \in DOMAIN gates : Passes(gates, g)
    BY GoMeans
  <1> QED
    BY <1>1, <1>2, <1>3 DEF configuration, traffic, data, nodes, probes, cutover, invalid

\* References that are resolved with what is left are resolved with the whole.
LEMMA ReferenceStateLess ==
    ASSUME NEW b, NEW c, Weakened(b, c), NEW ref,
           Migration!ReferenceState(b, ref) \notin {"MISSING", "EVIDENCE_UNAVAILABLE"}
    PROVE  Migration!ReferenceState(c, ref) \notin {"MISSING", "EVIDENCE_UNAVAILABLE"}
  <1>1. b.configuration.available \subseteq c.configuration.available
    BY DEF Weakened
  <1>2. b.configuration.objects \subseteq c.configuration.objects
    BY DEF Weakened
  <1> QED
    BY <1>1, <1>2 DEF Migration!ReferenceState

LEMMA ReferencesLess ==
    ASSUME NEW b, NEW c, Weakened(b, c)
    PROVE  Migration!References(b) = Migration!References(c)
  <1>1. Migration!WorkloadDocuments(b) = Migration!WorkloadDocuments(c)
    BY StandingFacts DEF Migration!WorkloadDocuments
  <1> QED
    BY <1>1, StandingFacts DEF Migration!References

LEMMA ConfigurationStateMeans ==
    ASSUME NEW rows
    PROVE  Migration!ConfigurationState(rows) \notin Blocks
              <=> \A row \in rows : row.state \notin {"MISSING", "EVIDENCE_UNAVAILABLE"}
  <1> DEFINE states == {row.state : row \in rows}
             worst == Migration!FirstOf(<<"MISSING", "EVIDENCE_UNAVAILABLE", "WARN">>, states)
  <1>1. Migration!ConfigurationState(rows) = IF worst = "MISSING" THEN "FAIL" ELSE worst
    BY DEF Migration!ConfigurationState
  <1>2. worst = IF "MISSING" \in states THEN "MISSING" ELSE IF "EVIDENCE_UNAVAILABLE" \in states
                THEN "EVIDENCE_UNAVAILABLE" ELSE IF "WARN" \in states THEN "WARN" ELSE "PASS"
    <2> HIDE DEF states
    <2> QED
      BY FirstOfThree
  <1>3. \A s : s \in states <=> \E row \in rows : row.state = s
    OBVIOUS
  <1> HIDE DEF states, worst
  <1>4. Migration!ConfigurationState(rows) \notin Blocks
           <=> "MISSING" \notin states /\ "EVIDENCE_UNAVAILABLE" \notin states
    BY <1>1, <1>2 DEF Blocks
  <1> QED
    BY <1>3, <1>4

\* The rows of b and c are of the same references.
LEMMA RowsOf ==
    ASSUME NEW c
    PROVE  LET refs == UNION {Migration!LastPerPlace(r) : r \in Migration!References(c)}
           IN  Migration!ConfigurationRows(c) = {[ref |-> ref, state |-> Migration!ReferenceState(c, ref)] : ref \in refs}
  BY DEF Migration!ConfigurationRows

LEMMA ConfigurationLess ==
    ASSUME NEW b, NEW c, Weakened(b, c), Migration!ConfigurationState(Migration!ConfigurationRows(b)) \notin Blocks
    PROVE  Migration!ConfigurationState(Migration!ConfigurationRows(c)) \notin Blocks
  <1> DEFINE refs == UNION {Migration!LastPerPlace(r) : r \in Migration!References(c)}
  <1>1. /\ Migration!ConfigurationRows(b) = {[ref |-> ref, state |-> Migration!ReferenceState(b, ref)] : ref \in refs}
        /\ Migration!ConfigurationRows(c) = {[ref |-> ref, state |-> Migration!ReferenceState(c, ref)] : ref \in refs}
    BY ReferencesLess, RowsOf
  <1> HIDE DEF refs
  <1>2. \A ref \in refs : Migration!ReferenceState(b, ref) \notin {"MISSING", "EVIDENCE_UNAVAILABLE"}
    <2>1. \A row \in Migration!ConfigurationRows(b) : row.state \notin {"MISSING", "EVIDENCE_UNAVAILABLE"}
      BY ConfigurationStateMeans
    <2>2. TAKE ref \in refs
    <2>3. [ref |-> ref, state |-> Migration!ReferenceState(b, ref)] \in Migration!ConfigurationRows(b)
      BY <1>1
    <2> QED
      BY <2>1, <2>3
  <1>3. \A ref \in refs : Migration!ReferenceState(c, ref) \notin {"MISSING", "EVIDENCE_UNAVAILABLE"}
    BY <1>2, ReferenceStateLess
  <1>4. \A row \in Migration!ConfigurationRows(c) : row.state \notin {"MISSING", "EVIDENCE_UNAVAILABLE"}
    BY <1>1, <1>3
  <1> QED
    BY <1>4, ConfigurationStateMeans

\* A cut-over that is declared was declared in a form that is valid.
LEMMA ManualLess ==
    ASSUME NEW b, NEW c, Weakened(b, c), Migration!CutoverState(Migration!ManualEvidence(b)) \notin Blocks
    PROVE  b.manual.state = "VALID" /\ c.manual.state = "VALID"
           /\ Migration!ManualState(b) = Migration!ManualState(c)
           /\ Migration!ManualEvidence(b) = Migration!ManualEvidence(c)
  <1>1. b.manual.state = "VALID"
    <2> SUFFICES ASSUME b.manual.state # "VALID" PROVE FALSE
      OBVIOUS
    <2>1. Migration!ManualEvidence(b) = Migration!NothingDeclared
      BY DEF Migration!ManualEvidence, Migration!ManualState
    <2>2. Migration!NothingDeclared.dns = "absent" /\ Migration!NothingDeclared.loadBalancer = "absent"
      BY DEF Migration!NothingDeclared, Migration!ManualFields
    <2>3. Migration!CutoverState(Migration!NothingDeclared) = "UNKNOWN"
      BY <2>2 DEF Migration!CutoverState
    <2> QED
      BY <2>1, <2>3 DEF Blocks
  <1>2. b.manual.declared = c.manual.declared /\ b.manual.state = c.manual.state
    BY <1>1 DEF Weakened
  <1> QED
    BY <1>1, <1>2 DEF Migration!ManualState, Migration!ManualEvidence

\* What must hold of a collection for its state and data to be ready.
LEMMA StateDataMeans ==
    ASSUME NEW c
    PROVE  LET declared == Migration!ManualEvidence(c)
               stateful == Migration!StatefulWorkloads(c) # {}
               jobs == Migration!Jobs(c) # {}
           IN  /\ Migration!StateData(c).relevant <=> stateful \/ jobs
               /\ Migration!StateData(c).state \in {"FAIL", "UNKNOWN", "PASS"}
               /\ Migration!StateData(c).state = "PASS" <=>
                     /\ \A p \in c.pvcs : p.bound
                     /\ stateful => /\ c.backups # {} /\ \A o \in c.backups : o.healthy
                                    /\ declared.replication = "yes" /\ declared.restoreTested = "yes"
                                    /\ declared.schema = "yes" /\ declared.rollback = "yes"
                     /\ c.pvcs # {} => c.snapshots # {} /\ \A o \in c.snapshots : o.healthy
                     /\ jobs => declared.jobs = "yes"
  <1> DEFINE declared == Migration!ManualEvidence(c)
             stateful == Migration!StatefulWorkloads(c) # {}
             jobs == Migration!Jobs(c) # {}
             gates == Migration!StateDataGates(c)
             states == Migration!Mandatory(gates)
             missing(required) == IF required THEN "UNKNOWN" ELSE "N/A"
             health(objects, required) ==
                 IF \E o \in objects : ~ o.healthy THEN "FAIL"
                 ELSE IF objects # {} THEN "PASS" ELSE missing(required)
             people(field) == Migration!Gate(Migration!Declared(declared[field], missing(stateful)), stateful)
  <1>1. gates = [pvcBound |-> Migration!Gate(IF \E p \in c.pvcs : ~ p.bound THEN "FAIL" ELSE "PASS", TRUE),
                 backups |-> Migration!Gate(health(c.backups, stateful), stateful),
                 snapshots |-> Migration!Gate(health(c.snapshots, c.pvcs # {}), c.pvcs # {}),
                 replication |-> people("replication"),
                 restore |-> people("restoreTested"),
                 schema |-> people("schema"),
                 rollback |-> people("rollback"),
                 jobs |-> Migration!Gate(IF declared.jobs = "yes" THEN "PASS" ELSE missing(jobs), jobs)]
    BY DEF Migration!StateDataGates
  <1>2. Migration!StateData(c) = [state |-> Migration!FirstOf(<<"FAIL", "UNKNOWN">>, states), relevant |-> stateful \/ jobs]
    BY DEF Migration!StateData
  <1> DEFINE ok(g) == gates[g].mandatory => gates[g].status \notin {"FAIL", "UNKNOWN"}
  <1>3. /\ DOMAIN gates = {"pvcBound", "backups", "snapshots", "replication", "restore", "schema", "rollback", "jobs"}
        /\ ok("pvcBound") <=> \A p \in c.pvcs : p.bound
        /\ ok("backups") <=> (stateful => c.backups # {} /\ \A o \in c.backups : o.healthy)
        /\ ok("snapshots") <=> (c.pvcs # {} => c.snapshots # {} /\ \A o \in c.snapshots : o.healthy)
        /\ ok("replication") <=> (stateful => declared.replication = "yes")
        /\ ok("restore") <=> (stateful => declared.restoreTested = "yes")
        /\ ok("schema") <=> (stateful => declared.schema = "yes")
        /\ ok("rollback") <=> (stateful => declared.rollback = "yes")
        /\ ok("jobs") <=> (jobs => declared.jobs = "yes")
    <2> HIDE DEF declared, gates, jobs, stateful
    <2>1. \A required : missing(required) \in {"UNKNOWN", "N/A"} /\ (required => missing(required) = "UNKNOWN")
      OBVIOUS
    <2>2. \A objects, required : /\ (\E o \in objects : ~ o.healthy) => health(objects, required) = "FAIL"
                                 /\ objects # {} /\ (\A o \in objects : o.healthy) => health(objects, required) = "PASS"
                                 /\ objects = {} => health(objects, required) = missing(required)
      OBVIOUS
    <2>3. \A field : /\ people(field).mandatory = stateful
                     /\ stateful => (people(field).status \notin {"FAIL", "UNKNOWN"} <=> declared[field] = "yes")
      BY DEF Migration!Gate, Migration!Declared
    <2> HIDE DEF missing, health, people
    <2> QED
      BY <1>1, <2>1, <2>2, <2>3 DEF Migration!Gate
  <1>4. states \cap {"FAIL", "UNKNOWN"} = {} <=> \A g \in DOMAIN gates : ok(g)
    BY DEF Migration!Mandatory
  <1> HIDE DEF states, gates
  <1>5. Migration!FirstOf(<<"FAIL", "UNKNOWN">>, states) =
           IF "FAIL" \in states THEN "FAIL" ELSE IF "UNKNOWN" \in states THEN "UNKNOWN" ELSE "PASS"
    BY FirstOfTwo
  <1>6. Migration!StateData(c).state = "PASS" <=> \A g \in DOMAIN gates : ok(g)
    BY <1>2, <1>4, <1>5
  <1>7. /\ Migration!StateData(c).state \in {"FAIL", "UNKNOWN", "PASS"}
        /\ Migration!StateData(c).relevant <=> stateful \/ jobs
    <2>1. Migration!StateData(c).state = Migration!FirstOf(<<"FAIL", "UNKNOWN">>, states)
      BY <1>2
    <2>2. Migration!StateData(c).relevant = (stateful \/ jobs)
      BY ONLY <1>2
    <2> QED
      BY <1>5, <2>1, <2>2
  <1> HIDE DEF ok, declared, stateful, jobs
  <1> QED
    BY <1>3, <1>6, <1>7 DEF declared, stateful, jobs

LEMMA StateDataLess ==
    ASSUME NEW b, NEW c, Weakened(b, c), Migration!ManualEvidence(b) = Migration!ManualEvidence(c)
    PROVE  /\ Migration!StateData(b).relevant <=> Migration!StateData(c).relevant
           /\ Migration!StateData(b).state = "PASS" => Migration!StateData(c).state = "PASS"
  <1>1. Migration!WorkloadDocuments(b) = Migration!WorkloadDocuments(c)
    BY StandingFacts DEF Migration!WorkloadDocuments
  <1>2. Migration!StatefulWorkloads(b) = Migration!StatefulWorkloads(c) /\ Migration!Jobs(b) = Migration!Jobs(c)
    BY <1>1 DEF Migration!StatefulWorkloads, Migration!Jobs
  <1>3. b.pvcs = c.pvcs
    BY StandingFacts
  <1>4. (b.backups = c.backups \/ b.backups = {}) /\ (b.snapshots = c.snapshots \/ b.snapshots = {})
    BY DEF Weakened
  <1> QED
    BY <1>2, <1>3, <1>4, StateDataMeans

\* Readiness says GO of no less than it says GO of.
LEMMA ReadinessLess ==
    ASSUME NEW b, NEW c, Weakened(b, c), Migration!Readiness(b) = "GO"
    PROVE  Migration!Readiness(c) = "GO"
  <1>1. /\ Migration!ConfigurationState(Migration!ConfigurationRows(b)) \notin Blocks
        /\ Migration!TrafficState(b) \notin Blocks
        /\ Migration!StateData(b).relevant => Migration!StateData(b).state \notin Blocks
        /\ Migration!NodeGateState(b.nodeHealth) \notin Blocks
        /\ Migration!ProbesState(b.probes) \notin Blocks
        /\ Migration!CutoverState(Migration!ManualEvidence(b)) \notin Blocks
    BY ReadinessMeans
  <1>2. Migration!ConfigurationState(Migration!ConfigurationRows(c)) \notin Blocks
    BY <1>1, ConfigurationLess
  <1>3. Migration!TrafficState(c) \notin Blocks
    BY <1>1, TrafficLess
  <1>4. /\ Migration!ManualState(c) = "VALID"
        /\ Migration!ManualEvidence(b) = Migration!ManualEvidence(c)
    BY <1>1, ManualLess DEF Migration!ManualState
  <1>5. Migration!StateData(c).relevant => Migration!StateData(c).state \notin Blocks
    <2>1. Migration!StateData(b).state \in {"FAIL", "UNKNOWN", "PASS"}
      BY StateDataMeans
    <2> QED
      BY <1>1, <1>4, <2>1, StateDataLess DEF Blocks
  <1>6. b.nodeHealth = c.nodeHealth
    <2>1. b.nodeHealth # "EVIDENCE_UNAVAILABLE"
      BY <1>1 DEF Migration!NodeGateState, Blocks
    <2> QED
      BY <2>1 DEF Weakened
  <1>7. b.probes = c.probes
    BY StandingFacts
  <1> QED
    BY <1>1, <1>2, <1>3, <1>4, <1>5, <1>6, <1>7, ReadinessMeans

LEMMA GatePasses ==
    ASSUME NEW gates, NEW g, NEW s, NEW m \in BOOLEAN, gates[g] = Migration!Gate(s, m)
    PROVE  Passes(gates, g) <=> (m => s \notin Blocks)
  <1>1. gates[g].status = s /\ gates[g].mandatory = m
    BY DEF Migration!Gate
  <1> QED
    BY <1>1 DEF Passes

\* What must hold of a pair for the comparison to say GO.
LEMMA MigrationMeans ==
    ASSUME NEW source, NEW c, NEW mapping
    PROVE  LET old == Migration!Reports(source)
               new == Migration!Reports(c)
           IN  Migration!Migration(source, c, mapping) = "GO" <=>
                  /\ source.completed /\ c.completed
                  /\ Migration!WorkloadParity(source, c, mapping) \notin Blocks
                  /\ source.services # {} => Migration!ServiceParity(source, c, mapping) \notin Blocks
                  /\ source.policies # {} => Migration!PolicyParity(source, c, mapping) \notin Blocks
                  /\ Migration!WorkloadIdentity(c) \notin Blocks
                  /\ Migration!ConfigurationParity(old, new, mapping) \notin Blocks
                  /\ Migration!ApiLifecycle(c) \notin Blocks
                  /\ Migration!TrafficReadiness(old.traffic, new.traffic) \notin Blocks
                  /\ source.pvcs # {} => Migration!StorageParity(source, c, mapping) \notin Blocks
                  /\ new.stateData.relevant => new.stateData.state \notin {"FAIL", "UNKNOWN", "absent"}
                  /\ Migration!NodeGateState(c.nodeHealth) \notin Blocks
                  /\ Migration!CutoverProbes(new.probes) \notin Blocks
                  /\ Migration!CutoverState(Migration!ManualEvidence(c)) \notin Blocks
                  /\ Migration!Declared(Migration!ManualEvidence(c).rollback, "UNKNOWN") \notin Blocks
                  /\ Migration!ManualContract(c) \notin Blocks
  <1> DEFINE old == Migration!Reports(source)
             new == Migration!Reports(c)
             completed == source.completed /\ c.completed
             workloads == Migration!WorkloadParity(source, c, mapping)
             services == Migration!ServiceParity(source, c, mapping)
             policies == Migration!PolicyParity(source, c, mapping)
             identity == Migration!WorkloadIdentity(c)
             configuration == Migration!ConfigurationParity(old, new, mapping)
             lifecycle == Migration!ApiLifecycle(c)
             traffic == Migration!TrafficReadiness(old.traffic, new.traffic)
             storage == Migration!StorageParity(source, c, mapping)
             data == new.stateData
             capacity == Migration!NodeGateState(c.nodeHealth)
             probes == Migration!CutoverProbes(new.probes)
             cutover == Migration!CutoverState(Migration!ManualEvidence(c))
             rollback == Migration!Declared(Migration!ManualEvidence(c).rollback, "UNKNOWN")
             contract == Migration!ManualContract(c)
             security == Migration!SecurityPosture(c)
             seen == Migration!Observability(c)
             someServices == source.services # {}
             somePolicies == source.policies # {}
             somePvcs == source.pvcs # {}
             gates ==
                [collections |-> Migration!Gate(IF completed THEN "PASS" ELSE "FAIL", TRUE),
                 workloads |-> Migration!Gate(workloads, TRUE),
                 services |-> Migration!Gate(services, someServices),
                 policies |-> Migration!Gate(policies, somePolicies),
                 identity |-> Migration!Gate(identity, identity # "N/A"),
                 configuration |-> Migration!Gate(configuration, TRUE),
                 lifecycle |-> Migration!Gate(lifecycle, TRUE),
                 traffic |-> Migration!Gate(traffic, TRUE),
                 storage |-> Migration!Gate(storage, somePvcs),
                 stateData |-> Migration!StateDataGate(data),
                 capacity |-> Migration!Gate(capacity, TRUE),
                 security |-> Migration!Gate(security, FALSE),
                 observability |-> Migration!Gate(seen, FALSE),
                 probes |-> Migration!Gate(probes, TRUE),
                 cutover |-> Migration!Gate(cutover, TRUE),
                 rollback |-> Migration!Gate(rollback, TRUE),
                 contract |-> Migration!Gate(contract, TRUE)]
             names == {"collections", "workloads", "services", "policies", "identity", "configuration", "lifecycle", "traffic",
                       "storage", "stateData", "capacity", "security", "observability", "probes", "cutover", "rollback", "contract"}
  <1>1. Migration!Migration(source, c, mapping) = Migration!Decision(gates)
    BY DEF Migration!Migration, Migration!MigrationGates
  <1>0. /\ someServices \in BOOLEAN /\ somePolicies \in BOOLEAN /\ somePvcs \in BOOLEAN
        /\ TRUE \in BOOLEAN /\ FALSE \in BOOLEAN
    OBVIOUS
  <1> HIDE DEF old, new, completed, workloads, services, policies, identity, configuration, lifecycle, traffic, storage, data,
               capacity, probes, cutover, rollback, contract, security, seen, someServices, somePolicies, somePvcs
  <1>2. DOMAIN gates = names
    OBVIOUS
  <1>3. \A s, m : Migration!Gate(s, m).status = s /\ Migration!Gate(s, m).mandatory = m
    BY DEF Migration!Gate
  <1>4. /\ gates["collections"] = Migration!Gate(IF completed THEN "PASS" ELSE "FAIL", TRUE)
        /\ gates["workloads"] = Migration!Gate(workloads, TRUE)
        /\ gates["services"] = Migration!Gate(services, someServices)
        /\ gates["policies"] = Migration!Gate(policies, somePolicies)
        /\ gates["identity"] = Migration!Gate(identity, identity # "N/A")
        /\ gates["configuration"] = Migration!Gate(configuration, TRUE)
        /\ gates["lifecycle"] = Migration!Gate(lifecycle, TRUE)
        /\ gates["traffic"] = Migration!Gate(traffic, TRUE)
        /\ gates["storage"] = Migration!Gate(storage, somePvcs)
    OBVIOUS
  <1>5. /\ gates["stateData"] = Migration!StateDataGate(data)
        /\ gates["capacity"] = Migration!Gate(capacity, TRUE)
        /\ gates["security"] = Migration!Gate(security, FALSE)
        /\ gates["observability"] = Migration!Gate(seen, FALSE)
        /\ gates["probes"] = Migration!Gate(probes, TRUE)
        /\ gates["cutover"] = Migration!Gate(cutover, TRUE)
        /\ gates["rollback"] = Migration!Gate(rollback, TRUE)
        /\ gates["contract"] = Migration!Gate(contract, TRUE)
    OBVIOUS
  <1> HIDE DEF gates
  <1>6. /\ Passes(gates, "collections") <=> completed
        /\ Passes(gates, "workloads") <=> workloads \notin Blocks
        /\ Passes(gates, "services") <=> (someServices => services \notin Blocks)
        /\ Passes(gates, "policies") <=> (somePolicies => policies \notin Blocks)
        /\ Passes(gates, "identity") <=> identity \notin Blocks
        /\ Passes(gates, "configuration") <=> configuration \notin Blocks
        /\ Passes(gates, "lifecycle") <=> lifecycle \notin Blocks
        /\ Passes(gates, "traffic") <=> traffic \notin Blocks
        /\ Passes(gates, "storage") <=> (somePvcs => storage \notin Blocks)
    <2>1. Passes(gates, "collections") <=> completed
      <3>1. Passes(gates, "collections") <=> (IF completed THEN "PASS" ELSE "FAIL") \notin Blocks
        BY <1>0, <1>4, GatePasses
      <3> QED
        BY <3>1 DEF Blocks
    <2>2. Passes(gates, "workloads") <=> workloads \notin Blocks
      BY <1>0, <1>4, GatePasses
    <2>3. Passes(gates, "services") <=> (someServices => services \notin Blocks)
      BY <1>0, <1>4, GatePasses
    <2>4. Passes(gates, "policies") <=> (somePolicies => policies \notin Blocks)
      BY <1>0, <1>4, GatePasses
    <2>5. Passes(gates, "identity") <=> identity \notin Blocks
      <3>1. CASE identity = "N/A"
        <4>1. gates["identity"] = Migration!Gate(identity, FALSE)
          BY <1>4, <3>1
        <4> QED
          BY <1>0, <3>1, <4>1, GatePasses DEF Blocks
      <3>2. CASE identity # "N/A"
        <4>1. gates["identity"] = Migration!Gate(identity, TRUE)
          BY <1>4, <3>2
        <4> QED
          BY <1>0, <4>1, GatePasses
      <3> QED
        BY <3>1, <3>2
    <2>6. Passes(gates, "configuration") <=> configuration \notin Blocks
      BY <1>0, <1>4, GatePasses
    <2>7. Passes(gates, "lifecycle") <=> lifecycle \notin Blocks
      BY <1>0, <1>4, GatePasses
    <2>8. Passes(gates, "traffic") <=> traffic \notin Blocks
      BY <1>0, <1>4, GatePasses
    <2>9. Passes(gates, "storage") <=> (somePvcs => storage \notin Blocks)
      BY <1>0, <1>4, GatePasses
    <2> QED
      BY <2>1, <2>2, <2>3, <2>4, <2>5, <2>6, <2>7, <2>8, <2>9
  <1>7. Passes(gates, "stateData") <=> (data.relevant => data.state \notin {"FAIL", "UNKNOWN", "absent"})
    BY <1>3, <1>5 DEF Passes, Blocks, Migration!StateDataGate
  <1>8. /\ Passes(gates, "capacity") <=> capacity \notin Blocks
        /\ Passes(gates, "security") /\ Passes(gates, "observability")
        /\ Passes(gates, "probes") <=> probes \notin Blocks
        /\ Passes(gates, "cutover") <=> cutover \notin Blocks
        /\ Passes(gates, "rollback") <=> rollback \notin Blocks
        /\ Passes(gates, "contract") <=> contract \notin Blocks
    <2>1. Passes(gates, "capacity") <=> capacity \notin Blocks
      BY <1>0, <1>5, GatePasses
    <2>2. Passes(gates, "security")
      BY <1>0, <1>5, GatePasses
    <2>3. Passes(gates, "observability")
      BY <1>0, <1>5, GatePasses
    <2>4. Passes(gates, "probes") <=> probes \notin Blocks
      BY <1>0, <1>5, GatePasses
    <2>5. Passes(gates, "cutover") <=> cutover \notin Blocks
      BY <1>0, <1>5, GatePasses
    <2>6. Passes(gates, "rollback") <=> rollback \notin Blocks
      BY <1>0, <1>5, GatePasses
    <2>7. Passes(gates, "contract") <=> contract \notin Blocks
      BY <1>0, <1>5, GatePasses
    <2> QED
      BY <2>1, <2>2, <2>3, <2>4, <2>5, <2>6, <2>7
  <1>9. Migration!Decision(gates) = "GO" <=> \A g \in names : Passes(gates, g)
    BY <1>2, GoMeans
  <1>10. (\A g \in names : Passes(gates, g)) <=>
            /\ completed /\ workloads \notin Blocks /\ (someServices => services \notin Blocks)
            /\ (somePolicies => policies \notin Blocks) /\ identity \notin Blocks /\ configuration \notin Blocks
            /\ lifecycle \notin Blocks /\ traffic \notin Blocks /\ (somePvcs => storage \notin Blocks)
            /\ (data.relevant => data.state \notin {"FAIL", "UNKNOWN", "absent"})
            /\ capacity \notin Blocks /\ probes \notin Blocks /\ cutover \notin Blocks /\ rollback \notin Blocks
            /\ contract \notin Blocks
    BY <1>6, <1>7, <1>8
  <1> QED
    BY <1>1, <1>9, <1>10 DEF old, new, completed, workloads, services, policies, identity, configuration, lifecycle, traffic,
        storage, data, capacity, probes, cutover, rollback, contract, someServices, somePolicies, somePvcs

\* The reports of a collection: which are kept decides, and what they are generated from.
LEMMA ReportsMean ==
    ASSUME NEW c
    PROVE  LET reports == Migration!Reports(c)
               fresh == Migration!Generate(c)
           IN  "readiness" \in c.kept =>
                  /\ reports.configuration = IF "configuration" \in c.kept THEN fresh.configuration ELSE {}
                  /\ reports.traffic = IF "traffic" \in c.kept THEN fresh.traffic ELSE [state |-> "absent", paths |-> FALSE]
                  /\ reports.stateData = IF "stateData" \in c.kept THEN fresh.stateData
                                         ELSE [state |-> "absent", relevant |-> FALSE]
                  /\ reports.probes = IF "probes" \in c.kept THEN fresh.probes ELSE "absent"
  <1> DEFINE fresh == Migration!Generate(c)
             empty == [configuration |-> {}, traffic |-> [state |-> "absent", paths |-> FALSE],
                       stateData |-> [state |-> "absent", relevant |-> FALSE], probes |-> "absent"]
  <1>1. DOMAIN fresh = {"configuration", "traffic", "stateData", "probes"}
    BY DEF Migration!Generate
  <1>2. "readiness" \in c.kept =>
           Migration!Reports(c) = [r \in DOMAIN fresh |-> IF r \in c.kept THEN fresh[r] ELSE empty[r]]
    BY DEF Migration!Reports
  <1> HIDE DEF fresh
  <1> QED
    BY <1>1, <1>2 DEF fresh

LEMMA GenerateMeans ==
    ASSUME NEW c
    PROVE  /\ Migration!Generate(c).configuration = Migration!ConfigurationRows(c)
           /\ Migration!Generate(c).traffic = [state |-> Migration!TrafficState(c), paths |-> Migration!Paths(c) # {}]
           /\ Migration!Generate(c).stateData = Migration!StateData(c)
           /\ Migration!Generate(c).probes = Migration!ProbesState(c.probes)
  BY DEF Migration!Generate

\* Without the readiness on disk the reports know of no probes.
LEMMA ProbesNeedReadiness ==
    ASSUME NEW c, "probes" \in DOMAIN c, Migration!CutoverProbes(Migration!Reports(c).probes) \notin Blocks
    PROVE  "readiness" \in c.kept /\ "probes" \in c.kept
  <1>1. "readiness" \in c.kept
    <2> SUFFICES ASSUME "readiness" \notin c.kept PROVE FALSE
      OBVIOUS
    <2> DEFINE d == [c EXCEPT !.probes = {}]
    <2>1. d.probes = {}
      OBVIOUS
    <2>2. Migration!Reports(c) = Migration!Generate(d)
      BY DEF Migration!Reports
    <2> HIDE DEF d
    <2>3. Migration!Reports(c).probes = "DISABLED"
      BY <2>1, <2>2, GenerateMeans DEF Migration!ProbesState
    <2> QED
      BY <2>3 DEF Migration!CutoverProbes, Blocks
  <1>2. "probes" \in c.kept
    <2> SUFFICES ASSUME "probes" \notin c.kept PROVE FALSE
      OBVIOUS
    <2>1. Migration!Reports(c).probes = "absent"
      BY <1>1, ReportsMean
    <2> QED
      BY <2>1 DEF Migration!CutoverProbes, Blocks
  <1> QED
    BY <1>1, <1>2

\* What is deployed in what is left is deployed in the whole.
LEMMA ParityLess ==
    ASSUME NEW b, NEW c, Weakened(b, c), NEW source, NEW mapping
    PROVE  /\ Migration!WorkloadParity(source, b, mapping) = Migration!WorkloadParity(source, c, mapping)
           /\ Migration!PolicyParity(source, b, mapping) = Migration!PolicyParity(source, c, mapping)
           /\ Migration!ServiceParity(source, b, mapping) \notin Blocks
                 => Migration!ServiceParity(source, c, mapping) \notin Blocks
  <1>1. Migration!WorkloadParity(source, b, mapping) = Migration!WorkloadParity(source, c, mapping)
    <2>1. Migration!WorkloadInventory(b) = Migration!WorkloadInventory(c)
      BY StandingFacts DEF Migration!WorkloadInventory
    <2> QED
      BY <2>1 DEF Migration!WorkloadParity
  <1>2. Migration!PolicyParity(source, b, mapping) = Migration!PolicyParity(source, c, mapping)
    BY StandingFacts DEF Migration!PolicyParity
  <1>3. ASSUME Migration!ServiceParity(source, b, mapping) \notin Blocks
        PROVE  Migration!ServiceParity(source, c, mapping) \notin Blocks
    <2> DEFINE same(o, n) == o.type = n.type /\ o.ports = n.ports /\ o.headless = n.headless
               there(x) == \A o \in source.services :
                              \E n \in Migration!Counterparts(o, x.services, mapping) : same(o, n)
    <2>1. /\ Migration!ServiceParity(source, b, mapping) = IF there(b) THEN "PASS" ELSE "FAIL"
          /\ Migration!ServiceParity(source, c, mapping) = IF there(c) THEN "PASS" ELSE "FAIL"
      BY DEF Migration!ServiceParity
    <2>2. there(b)
      <3> HIDE DEF there
      <3> QED
        BY <1>3, <2>1 DEF Blocks
    <2>3. \A o : Migration!Counterparts(o, b.services, mapping) \subseteq Migration!Counterparts(o, c.services, mapping)
      <3>1. b.services \subseteq c.services
        BY DEF Weakened
      <3> QED
        BY <3>1 DEF Migration!Counterparts
    <2>4. there(c)
      <3> HIDE DEF same
      <3> QED
        BY <2>2, <2>3
    <2> HIDE DEF there
    <2> QED
      BY <2>1, <2>4 DEF Blocks
  <1> QED
    BY <1>1, <1>2, <1>3

LEMMA IdentityLess ==
    ASSUME NEW b, NEW c, Weakened(b, c), Migration!WorkloadIdentity(b) \notin Blocks
    PROVE  Migration!WorkloadIdentity(c) \notin Blocks
  <1> DEFINE required(x) == {<<w.ns, w.serviceAccount>> : w \in Migration!WorkloadInventory(x)}
  <1>1. Migration!WorkloadInventory(b) = Migration!WorkloadInventory(c)
    BY StandingFacts DEF Migration!WorkloadInventory
  <1>2. required(b) = required(c)
    BY <1>1
  <1>3. b.files \subseteq c.files
    BY DEF Weakened
  <1>4. b.serviceAccounts = c.serviceAccounts
    BY StandingFacts
  <1>5. /\ Migration!WorkloadIdentity(b) =
              IF required(b) = {} THEN "N/A" ELSE IF "serviceaccounts" \notin b.files THEN "UNKNOWN"
              ELSE IF required(b) \subseteq b.serviceAccounts THEN "PASS" ELSE "FAIL"
        /\ Migration!WorkloadIdentity(c) =
              IF required(c) = {} THEN "N/A" ELSE IF "serviceaccounts" \notin c.files THEN "UNKNOWN"
              ELSE IF required(c) \subseteq c.serviceAccounts THEN "PASS" ELSE "FAIL"
    BY DEF Migration!WorkloadIdentity
  <1> HIDE DEF required
  <1> QED
    BY <1>2, <1>3, <1>4, <1>5 DEF Blocks

LEMMA StorageLess ==
    ASSUME NEW b, NEW c, Weakened(b, c), NEW source, NEW mapping, source.pvcs # {},
           Migration!StorageParity(source, b, mapping) \notin Blocks
    PROVE  Migration!StorageParity(source, c, mapping) \notin Blocks
  <1> DEFINE class(name) == [kind |-> "StorageClass", ns |-> "-", name |-> name]
             wanted == {Migration!MappedResource(mapping, class(p.class)).name : p \in {q \in source.pvcs : q.class # ""}}
             offered(x) == IF "storageclasses" \in x.files THEN x.storageClasses ELSE {}
             lacking(x) == Migration!Parity(Migration!Ids(source.pvcs), Migration!Ids(x.pvcs), mapping)
             parity(x) == IF lacking(x) # {} \/ wanted \ offered(x) # {} THEN "FAIL"
                          ELSE IF source.pvcs = {} THEN "N/A"
                          ELSE IF {"pvcs", "storageclasses"} \subseteq x.files THEN "PASS" ELSE "UNKNOWN"
  <1>1. Migration!StorageParity(source, b, mapping) = parity(b) /\ Migration!StorageParity(source, c, mapping) = parity(c)
    BY DEF Migration!StorageParity
  <1> HIDE DEF wanted
  <1>2. lacking(b) = lacking(c)
    BY StandingFacts
  <1> HIDE DEF lacking
  <1>3. {"pvcs", "storageclasses"} \subseteq b.files /\ wanted \ offered(b) = {} /\ lacking(b) = {}
    BY <1>1 DEF Blocks
  <1>4. {"pvcs", "storageclasses"} \subseteq c.files
    BY <1>3 DEF Weakened
  <1>5. offered(c) = offered(b)
    BY <1>3, <1>4, StandingFacts
  <1>6. parity(c) = "PASS"
    BY <1>2, <1>3, <1>4, <1>5
  <1> QED
    BY <1>1, <1>6 DEF Blocks

\* The rows of the references refs, the states and the targets of those that are required.
RowsFor(c, refs) == {[ref |-> ref, state |-> Migration!ReferenceState(c, ref)] : ref \in refs}
StatesOf(rows) == {r.state : r \in Migration!Required(rows)}
PointsOf(rows) == {<<Migration!Pointed(r), r.ref.key>> : r \in Migration!Required(rows)}

LEMMA RequiredRows ==
    ASSUME NEW c, NEW refs
    PROVE  /\ \A s : s \in StatesOf(RowsFor(c, refs))
                        <=> \E ref \in refs : ~ ref.optional /\ s = Migration!ReferenceState(c, ref)
           /\ \A y : y \in PointsOf(RowsFor(c, refs))
                        <=> \E ref \in refs : ~ ref.optional
                              /\ y = <<[kind |-> ref.kind, ns |-> ref.ns, name |-> ref.name], ref.key>>
  <1> DEFINE rows == RowsFor(c, refs)
             row(ref) == [ref |-> ref, state |-> Migration!ReferenceState(c, ref)]
             pointed(ref) == [kind |-> ref.kind, ns |-> ref.ns, name |-> ref.name]
  <1>1. \A ref : row(ref).ref = ref /\ row(ref).state = Migration!ReferenceState(c, ref)
    OBVIOUS
  <1>2. rows = {row(ref) : ref \in refs}
    BY DEF RowsFor
  <1>3. \A ref : Migration!Pointed(row(ref)) = pointed(ref)
    BY DEF Migration!Pointed
  <1> HIDE DEF row, pointed, rows
  <1>4. \A r : r \in Migration!Required(rows) <=> \E ref \in refs : r = row(ref) /\ ~ ref.optional
    BY <1>1, <1>2 DEF Migration!Required
  <1>5. \A s : s \in StatesOf(rows)
                 <=> \E ref \in refs : ~ ref.optional /\ s = Migration!ReferenceState(c, ref)
    BY <1>1, <1>4 DEF StatesOf
  <1>6. \A y : y \in PointsOf(rows)
                 <=> \E ref \in refs : ~ ref.optional /\ y = <<pointed(ref), ref.key>>
    BY <1>1, <1>3, <1>4 DEF PointsOf
  <1> QED
    BY <1>5, <1>6 DEF pointed, rows

\* References that are at parity with what is left are at parity with the whole.
LEMMA ParityOfConfigurationLess ==
    ASSUME NEW b, NEW c, Weakened(b, c), NEW old, NEW m, NEW n, NEW mapping,
           m.configuration = Migration!ConfigurationRows(b), n.configuration = Migration!ConfigurationRows(c),
           Migration!ConfigurationParity(old, m, mapping) \notin Blocks
    PROVE  Migration!ConfigurationParity(old, n, mapping) \notin Blocks
  <1> DEFINE wanted == {<<Migration!MappedResource(mapping, Migration!Pointed(r)), r.ref.key>> :
                           r \in Migration!Required(old.configuration)}
             parity(rows) == IF \/ wanted \ PointsOf(rows) # {}
                                \/ "MISSING" \in StatesOf(rows) THEN "FAIL"
                             ELSE IF "EVIDENCE_UNAVAILABLE" \in StatesOf(rows) THEN "UNKNOWN" ELSE "PASS"
             refs == UNION {Migration!LastPerPlace(r) : r \in Migration!References(c)}
             B == RowsFor(b, refs)
             C == RowsFor(c, refs)
  <1>1. m.configuration = B /\ n.configuration = C
    BY ReferencesLess, RowsOf DEF RowsFor
  <1>2. Migration!ConfigurationParity(old, m, mapping) = parity(B) /\ Migration!ConfigurationParity(old, n, mapping) = parity(C)
    BY <1>1 DEF Migration!ConfigurationParity, PointsOf, StatesOf
  <1> HIDE DEF refs, wanted
  <1>3. PointsOf(B) = PointsOf(C)
    <2>1. \A y : y \in PointsOf(B) <=> \E ref \in refs : ~ ref.optional
                  /\ y = <<[kind |-> ref.kind, ns |-> ref.ns, name |-> ref.name], ref.key>>
      BY RequiredRows
    <2>2. \A y : y \in PointsOf(C) <=> \E ref \in refs : ~ ref.optional
                  /\ y = <<[kind |-> ref.kind, ns |-> ref.ns, name |-> ref.name], ref.key>>
      BY RequiredRows
    <2> HIDE DEF B, C
    <2>3. \A y : y \in PointsOf(B) <=> y \in PointsOf(C)
      BY <2>1, <2>2
    <2> QED
      BY <2>3 DEF PointsOf
  <1>4. \A s : s \in StatesOf(B) <=> \E ref \in refs : ~ ref.optional /\ s = Migration!ReferenceState(b, ref)
    BY RequiredRows
  <1>5. \A s : s \in StatesOf(C) <=> \E ref \in refs : ~ ref.optional /\ s = Migration!ReferenceState(c, ref)
    BY RequiredRows
  <1> HIDE DEF B, C
  <1>6. wanted \ PointsOf(B) = {} /\ "MISSING" \notin StatesOf(B) /\ "EVIDENCE_UNAVAILABLE" \notin StatesOf(B)
    BY <1>2 DEF Blocks
  <1>7. \A ref \in refs : ~ ref.optional => Migration!ReferenceState(b, ref) \notin {"MISSING", "EVIDENCE_UNAVAILABLE"}
    BY <1>4, <1>6
  <1>8. \A ref \in refs : ~ ref.optional => Migration!ReferenceState(c, ref) \notin {"MISSING", "EVIDENCE_UNAVAILABLE"}
    BY <1>7, ReferenceStateLess
  <1>9. "MISSING" \notin StatesOf(C) /\ "EVIDENCE_UNAVAILABLE" \notin StatesOf(C)
    BY <1>5, <1>8
  <1>10. parity(C) = "PASS"
    BY <1>3, <1>6, <1>9
  <1> QED
    BY <1>2, <1>10 DEF Blocks

\* The comparison says GO of no less than it says GO of.
LEMMA MigrationLess ==
    ASSUME NEW b, NEW c, Weakened(b, c), NEW source, NEW mapping, Migration!Migration(source, b, mapping) = "GO"
    PROVE  Migration!Migration(source, c, mapping) = "GO"
  <1> DEFINE old == Migration!Reports(source)
             m == Migration!Reports(b)
             n == Migration!Reports(c)
  <1> HIDE DEF old, m, n
  <1>1. /\ source.completed /\ b.completed
        /\ Migration!WorkloadParity(source, b, mapping) \notin Blocks
        /\ source.services # {} => Migration!ServiceParity(source, b, mapping) \notin Blocks
        /\ source.policies # {} => Migration!PolicyParity(source, b, mapping) \notin Blocks
        /\ Migration!WorkloadIdentity(b) \notin Blocks
        /\ Migration!ConfigurationParity(old, m, mapping) \notin Blocks
        /\ Migration!ApiLifecycle(b) \notin Blocks
        /\ Migration!TrafficReadiness(old.traffic, m.traffic) \notin Blocks
        /\ source.pvcs # {} => Migration!StorageParity(source, b, mapping) \notin Blocks
        /\ m.stateData.relevant => m.stateData.state \notin {"FAIL", "UNKNOWN", "absent"}
        /\ Migration!NodeGateState(b.nodeHealth) \notin Blocks
        /\ Migration!CutoverProbes(m.probes) \notin Blocks
        /\ Migration!CutoverState(Migration!ManualEvidence(b)) \notin Blocks
        /\ Migration!Declared(Migration!ManualEvidence(b).rollback, "UNKNOWN") \notin Blocks
        /\ Migration!ManualContract(b) \notin Blocks
    BY MigrationMeans DEF old, m
  <1>2. c.completed
    BY <1>1 DEF Weakened
  <1>3. /\ Migration!WorkloadParity(source, c, mapping) \notin Blocks
        /\ source.services # {} => Migration!ServiceParity(source, c, mapping) \notin Blocks
        /\ source.policies # {} => Migration!PolicyParity(source, c, mapping) \notin Blocks
    BY <1>1, ParityLess
  <1>4. Migration!WorkloadIdentity(c) \notin Blocks
    BY <1>1, IdentityLess
  <1>5. source.pvcs # {} => Migration!StorageParity(source, c, mapping) \notin Blocks
    BY <1>1, StorageLess
  <1>6. b.nodeHealth = c.nodeHealth /\ b.skew = c.skew /\ b.endOfSupport = c.endOfSupport
    <2>1. b.nodeHealth # "EVIDENCE_UNAVAILABLE"
      BY <1>1 DEF Migration!NodeGateState, Blocks
    <2> QED
      BY <2>1 DEF Weakened
  <1>7. Migration!ApiLifecycle(c) \notin Blocks
    <2>1. b.manifestSchema # "FAIL" /\ ~ b.endOfSupport /\ ~ b.skew /\ b.versions
      BY <1>1 DEF Migration!ApiLifecycle, Blocks
    <2>2. c.manifestSchema \in {"WARN", "PARTIAL"} /\ ~ c.endOfSupport /\ ~ c.skew /\ c.versions
      <3>1. c.manifestSchema \in {"WARN", "PARTIAL"}
        <4>1. (b.manifestSchema = "FAIL" <=> c.manifestSchema = "FAIL") /\ c.manifestSchema \in {"FAIL", "WARN", "PARTIAL"}
          BY DEF Weakened
        <4> QED
          BY <2>1, <4>1
      <3>2. ~ c.endOfSupport /\ ~ c.skew
        BY ONLY <1>6, <2>1
      <3>3. b.versions = c.versions
        BY StandingFacts
      <3>4. c.versions
        BY ONLY <2>1, <3>3
      <3> QED
        BY <3>1, <3>2, <3>4
    <2>3. Migration!ApiLifecycle(c) = "WARN"
      BY <2>2 DEF Migration!ApiLifecycle
    <2> QED
      BY <2>3 DEF Blocks
  <1>8. /\ Migration!ManualState(b) = Migration!ManualState(c)
        /\ Migration!ManualEvidence(b) = Migration!ManualEvidence(c)
    BY <1>1, ManualLess
  <1>9. Migration!ManualContract(c) \notin Blocks
    BY <1>1, <1>8 DEF Migration!ManualContract
  <1>10. "readiness" \in b.kept /\ "probes" \in b.kept
    <2>1. "probes" \in DOMAIN b
      BY DEF Weakened
    <2> QED
      BY <1>1, <2>1, ProbesNeedReadiness DEF m
  <1>11. /\ m.configuration = IF "configuration" \in b.kept THEN Migration!ConfigurationRows(b) ELSE {}
         /\ m.traffic = IF "traffic" \in b.kept THEN [state |-> Migration!TrafficState(b), paths |-> Migration!Paths(b) # {}]
                        ELSE [state |-> "absent", paths |-> FALSE]
         /\ m.stateData = IF "stateData" \in b.kept THEN Migration!StateData(b) ELSE [state |-> "absent", relevant |-> FALSE]
         /\ m.probes = Migration!ProbesState(b.probes)
    BY <1>10, ReportsMean, GenerateMeans DEF m
  <1>12. "traffic" \in b.kept
    <2> SUFFICES ASSUME "traffic" \notin b.kept PROVE FALSE
      OBVIOUS
    <2>1. m.traffic.state = "absent"
      BY <1>11
    <2> HIDE <1>11
    <2>2. Migration!TrafficReadiness(old.traffic, m.traffic) = "UNKNOWN"
      BY <2>1 DEF Migration!TrafficReadiness
    <2> QED
      BY <1>1, <2>2 DEF Blocks
  <1>13. b.kept = c.kept
    BY <1>10, <1>12 DEF Weakened
  <1>14. /\ n.configuration = IF "configuration" \in b.kept THEN Migration!ConfigurationRows(c) ELSE {}
         /\ n.traffic = [state |-> Migration!TrafficState(c), paths |-> Migration!Paths(c) # {}]
         /\ n.stateData = IF "stateData" \in b.kept THEN Migration!StateData(c) ELSE [state |-> "absent", relevant |-> FALSE]
         /\ n.probes = Migration!ProbesState(c.probes)
    BY <1>10, <1>12, <1>13, ReportsMean, GenerateMeans DEF n
  <1>15. Migration!ConfigurationParity(old, n, mapping) \notin Blocks
    <2>1. CASE "configuration" \in b.kept
      BY <1>1, <1>11, <1>14, <2>1, ParityOfConfigurationLess
    <2>2. CASE "configuration" \notin b.kept
      <3>1. m.configuration = n.configuration
        BY <1>11, <1>14, <2>2
      <3>2. Migration!ConfigurationParity(old, m, mapping) = Migration!ConfigurationParity(old, n, mapping)
        BY <3>1 DEF Migration!ConfigurationParity
      <3> QED
        BY <1>1, <3>2
    <2> QED
      BY <2>1, <2>2
  <1>16. Migration!TrafficReadiness(old.traffic, n.traffic) \notin Blocks
    <2>1. m.traffic.state = Migration!TrafficState(b) /\ m.traffic.paths = (Migration!Paths(b) # {})
      BY <1>11, <1>12
    <2>2. n.traffic.state = Migration!TrafficState(c) /\ n.traffic.paths = (Migration!Paths(c) # {})
      BY <1>14
    <2>3. /\ m.traffic.state \notin {"FAIL", "UNKNOWN", "absent"}
          /\ old.traffic.paths => m.traffic.paths
      <3> DEFINE seen == m.traffic
                 before == old.traffic
      <3>1. Migration!TrafficReadiness(before, seen) \notin Blocks
        BY <1>1
      <3> HIDE DEF seen, before
      <3>2. seen.state # "FAIL"
        BY <3>1 DEF Migration!TrafficReadiness, Blocks
      <3>3. ASSUME seen.state \in {"UNKNOWN", "absent"} \/ (before.paths /\ ~ seen.paths) PROVE FALSE
        <4>1. Migration!TrafficReadiness(before, seen) = "UNKNOWN"
          <5>1. CASE seen.state \in {"UNKNOWN", "absent"}
            BY <3>2, <5>1 DEF Migration!TrafficReadiness
          <5>2. CASE before.paths /\ ~ seen.paths
            BY <3>2, <5>2, Zenon DEF Migration!TrafficReadiness
          <5> QED
            BY <3>3, <5>1, <5>2
        <4> QED
          BY <3>1, <4>1 DEF Blocks
      <3> QED
        BY <3>2, <3>3 DEF seen, before
    <2>4. Migration!TrafficState(b) \in {"FAIL", "UNKNOWN", "WARN", "PASS", "N/A"}
      BY RouteStatusMeans DEF Migration!TrafficState
    <2>5. Migration!TrafficState(c) \notin Blocks /\ (Migration!Paths(c) = {} <=> Migration!Paths(b) = {})
      BY <2>1, <2>3, <2>4, TrafficLess DEF Blocks
    <2>6. Migration!TrafficState(c) \in {"FAIL", "UNKNOWN", "WARN", "PASS", "N/A"}
      BY RouteStatusMeans DEF Migration!TrafficState
    <2>7. n.traffic.state \in {"WARN", "PASS", "N/A"} /\ (old.traffic.paths => n.traffic.paths)
      BY <2>1, <2>2, <2>3, <2>5, <2>6 DEF Blocks
    <2>8. Migration!TrafficReadiness(old.traffic, n.traffic) \in {"WARN", "PASS"}
      BY <2>7 DEF Migration!TrafficReadiness
    <2> QED
      BY <2>8 DEF Blocks
  <1>17. n.stateData.relevant => n.stateData.state \notin {"FAIL", "UNKNOWN", "absent"}
    <2>1. CASE "stateData" \in b.kept
      <3>1. m.stateData = Migration!StateData(b) /\ n.stateData = Migration!StateData(c)
        BY <1>11, <1>14, <2>1
      <3>2. Migration!StateData(b).state \in {"FAIL", "UNKNOWN", "PASS"}
        BY StateDataMeans
      <3> QED
        BY <1>1, <1>8, <3>1, <3>2, StateDataLess
    <2>2. CASE "stateData" \notin b.kept
      BY <1>14, <2>2
    <2> QED
      BY <2>1, <2>2
  <1>18. Migration!CutoverProbes(n.probes) \notin Blocks
    <2>1. n.probes = m.probes
      BY <1>11, <1>14, StandingFacts
    <2> QED
      BY <1>1, <2>1
  <1>19. /\ Migration!NodeGateState(c.nodeHealth) \notin Blocks
         /\ Migration!CutoverState(Migration!ManualEvidence(c)) \notin Blocks
         /\ Migration!Declared(Migration!ManualEvidence(c).rollback, "UNKNOWN") \notin Blocks
    BY <1>1, <1>6, <1>8
  <1> QED
    BY <1>1, <1>2, <1>3, <1>4, <1>5, <1>7, <1>9, <1>15, <1>16, <1>17, <1>18, <1>19, MigrationMeans DEF old, n

\* What the loss of some evidence leaves of each field.
LEMMA LessFields ==
    ASSUME NEW d, NEW e, Less(d, e)
    PROVE  /\ d.services \subseteq e.services /\ d.endpoints \subseteq e.endpoints /\ d.grants \subseteq e.grants
           /\ d.files \subseteq e.files /\ d.artifacts \subseteq e.artifacts /\ d.requested \subseteq e.requested
           /\ DOMAIN d.listed \subseteq DOMAIN e.listed /\ \A k \in DOMAIN d.listed : d.listed[k] \subseteq e.listed[k]
           /\ \A ns : d.scope.full \/ ns \in d.scope.namespaces => e.scope.full \/ ns \in e.scope.namespaces
           /\ d.backups = e.backups \/ d.backups = {}
           /\ d.snapshots = e.snapshots \/ d.snapshots = {}
           /\ d.nodes = e.nodes \/ d.nodes = <<>>
           /\ d.manual.declared = e.manual.declared /\ d.manual.state \in {e.manual.state, "ABSENT"}
           /\ d.completed = e.completed \/ d.completed = FALSE
           /\ d.kept \subseteq e.kept /\ e.kept \ d.kept \subseteq {"readiness", "traffic", "probes"}
           /\ d.metrics = e.metrics \/ d.nodes = <<>>
  <1>1. \A f \in CollectedFields : LessOf(f, d[f], e[f])
    BY DEF Less
  <1>2. \A f \in {"services", "endpoints", "grants", "files", "artifacts", "requested"} : d[f] \subseteq e[f]
    <2>1. {"services", "endpoints", "grants", "files", "artifacts", "requested"} \subseteq CollectedFields
      BY DEF CollectedFields, Written
    <2> QED
      BY <1>1, <2>1 DEF LessOf
  <1>3. {"listed", "scope", "backups", "snapshots", "nodes", "manual", "completed", "kept"} \subseteq CollectedFields
    BY DEF CollectedFields, Written
  <1>4. /\ LessOf("listed", d.listed, e.listed) /\ LessOf("scope", d.scope, e.scope)
        /\ LessOf("backups", d.backups, e.backups) /\ LessOf("snapshots", d.snapshots, e.snapshots)
        /\ LessOf("nodes", d.nodes, e.nodes) /\ LessOf("manual", d.manual, e.manual)
        /\ LessOf("completed", d.completed, e.completed) /\ LessOf("kept", d.kept, e.kept)
    BY <1>1, <1>3
  <1>5. DOMAIN d.listed \subseteq DOMAIN e.listed /\ \A k \in DOMAIN d.listed : d.listed[k] \subseteq e.listed[k]
    BY <1>4 DEF LessOf
  <1>6. \A ns : d.scope.full \/ ns \in d.scope.namespaces => e.scope.full \/ ns \in e.scope.namespaces
    BY <1>4 DEF LessOf
  <1>7. (d.backups = e.backups \/ d.backups = {}) /\ (d.snapshots = e.snapshots \/ d.snapshots = {})
    BY <1>4 DEF LessOf
  <1>8. (d.nodes = e.nodes \/ d.nodes = <<>>) /\ (d.completed = e.completed \/ d.completed = FALSE)
    BY <1>4 DEF LessOf
  <1>9. d.manual.declared = e.manual.declared /\ d.manual.state \in {e.manual.state, "ABSENT"}
    BY <1>4 DEF LessOf
  <1>10. d.kept \subseteq e.kept /\ e.kept \ d.kept \subseteq {"readiness", "traffic", "probes"}
    BY <1>4 DEF LessOf
  <1> QED
    BY <1>2, <1>5, <1>6, <1>7, <1>8, <1>9, <1>10 DEF Less

\* What no loss touches.
Untouched ==
    {"documents", "quality", "external", "samples", "workloads", "ingresses", "gateways", "istioGateways", "certificates",
     "routes", "virtualServices", "destinationRules", "openshiftRoutes", "pvcs", "probes", "pods", "controlPlane", "today",
     "records", "exceptions", "prometheus", "policies", "storageClasses", "serviceAccounts", "hints", "expected", "scoped",
     "aks", "gke", "logs", "targets"}

LEMMA LessLeaves ==
    ASSUME NEW d, NEW e, Less(d, e)
    PROVE  \A f \in Untouched : d[f] = e[f]
  <1>1. Untouched \subseteq CollectedFields
    BY DEF Untouched, CollectedFields, Written
  <1>2. \A f \in Untouched : LessOf(f, d[f], e[f]) => d[f] = e[f]
    BY DEF Untouched, LessOf
  <1> QED
    BY <1>1, <1>2 DEF Less

\* The catalog and the platform decide nothing about a version whose support has ended.
LEMMA EndOfSupportOfRecord ==
    ASSUME NEW catalog, NEW record, NEW p, NEW today
    PROVE  Insight!LifecycleState(catalog, record, p, FALSE, "unknown", today) = "END_OF_SUPPORT"
              <=> Insight!RecordState(record, FALSE, today) = "END_OF_SUPPORT"
  BY DEF Insight!LifecycleState

LEMMA EndOfSupportMeans ==
    ASSUME NEW e, \A n \in ToSet(e.nodes) : n.version \in DOMAIN e.records
    PROVE  "END_OF_SUPPORT" \in SupportOf(e) <=>
              \/ e.controlPlane = "END_OF_SUPPORT"
              \/ \E n \in ToSet(e.nodes) : Insight!RecordState(e.records[n.version], FALSE, e.today) = "END_OF_SUPPORT"
  <1> DEFINE state(v) == Insight!LifecycleState(e.catalog, e.records[v], PlatformOf(e), FALSE, "unknown", e.today)
             lifecycle == [v \in DOMAIN e.records |-> state(v)]
  <1>1. SupportOf(e) = Insight!SupportStates(e.controlPlane, ToSet(e.nodes), lifecycle)
    BY DEF SupportOf
  <1>2. \A n \in ToSet(e.nodes) : lifecycle[n.version] = state(n.version)
    OBVIOUS
  <1>3. \A v : state(v) = "END_OF_SUPPORT" <=> Insight!RecordState(e.records[v], FALSE, e.today) = "END_OF_SUPPORT"
    BY EndOfSupportOfRecord
  <1> HIDE DEF lifecycle, state
  <1> QED
    BY <1>1, <1>2, <1>3 DEF Insight!SupportStates

LEMMA SupportLess ==
    ASSUME NEW d, NEW e, Less(d, e), Evidence(d), Evidence(e), d.nodes = e.nodes
    PROVE  "END_OF_SUPPORT" \in SupportOf(d) <=> "END_OF_SUPPORT" \in SupportOf(e)
  <1>1. /\ \A n \in ToSet(d.nodes) : n.version \in DOMAIN d.records
        /\ \A n \in ToSet(e.nodes) : n.version \in DOMAIN e.records
    BY DEF Evidence, ToSet
  <1>2. d.controlPlane = e.controlPlane /\ d.records = e.records /\ d.today = e.today
    BY LessLeaves DEF Untouched
  <1>3. "END_OF_SUPPORT" \in SupportOf(d) <=>
              \/ d.controlPlane = "END_OF_SUPPORT"
              \/ \E n \in ToSet(d.nodes) : Insight!RecordState(d.records[n.version], FALSE, d.today) = "END_OF_SUPPORT"
    BY <1>1, EndOfSupportMeans
  <1>4. "END_OF_SUPPORT" \in SupportOf(e) <=>
              \/ e.controlPlane = "END_OF_SUPPORT"
              \/ \E n \in ToSet(e.nodes) : Insight!RecordState(e.records[n.version], FALSE, e.today) = "END_OF_SUPPORT"
    BY <1>1, EndOfSupportMeans
  <1> QED
    BY <1>2, <1>3, <1>4

\* What the cluster serves decides nothing about a manifest that cannot be used.
LEMMA ManifestFailsWithoutApi ==
    ASSUME NEW manifests, NEW api, NEW other
    PROVE  /\ Manifest!ManifestState(manifests, api) \in {"FAIL", "WARN", "PARTIAL"}
           /\ Manifest!ManifestState(manifests, api) = "FAIL" <=> Manifest!ManifestState(manifests, other) = "FAIL"
  <1> DEFINE severities(x) == {f.severity : f \in UNION {Manifest!ManifestFindings(m, x) : m \in Manifest!Checked(manifests)}}
             own(m) == IF ~ Manifest!Identified(m) THEN {Manifest!Finding("required-fields", "CRIT")} ELSE Manifest!SpecFindings(m)
             crit(S) == \E f \in S : f.severity = "CRIT"
  <1>1. \A m, x : crit(Manifest!ManifestFindings(m, x)) <=> crit(own(m))
    <2>1. \A m, x : ~ crit(Manifest!ApiFindings(m, x))
      BY DEF Manifest!ApiFindings, Manifest!Finding
    <2>2. \A m, x : ~ Manifest!Identified(m) => Manifest!ManifestFindings(m, x) = own(m)
      BY DEF Manifest!ManifestFindings
    <2>3. \A m, x : Manifest!Identified(m) => Manifest!ManifestFindings(m, x) = Manifest!ApiFindings(m, x) \cup own(m)
      BY DEF Manifest!ManifestFindings
    <2> HIDE DEF own
    <2> QED
      BY <2>1, <2>2, <2>3
  <1>2. \A x : "CRIT" \in severities(x) <=> \E m \in Manifest!Checked(manifests) : crit(Manifest!ManifestFindings(m, x))
    OBVIOUS
  <1>3. \A x : Manifest!ManifestState(manifests, x) =
                  IF "CRIT" \in severities(x) THEN "FAIL" ELSE IF "WARN" \in severities(x) THEN "WARN" ELSE "PARTIAL"
    BY DEF Manifest!ManifestState
  <1> HIDE DEF severities, own, crit
  <1>4. "CRIT" \in severities(api) <=> "CRIT" \in severities(other)
    BY <1>1, <1>2
  <1> QED
    BY <1>3, <1>4

\* What is left of the evidence makes a collection that is weaker.
LEMMA LessIsWeakened ==
    ASSUME NEW d, NEW e, Less(d, e), Evidence(d), Evidence(e)
    PROVE  Weakened(Collection(d), Collection(e))
  <1> DEFINE b == Collection(d)
             c == Collection(e)
  <1>0. Less(d, e)
    OBVIOUS
  <1>1. /\ CollectedFields \subseteq DOMAIN b /\ \A f \in CollectedFields : b[f] = d[f]
        /\ b.nodeHealth = Insight!NodeHealth(ToSet(d.nodes), d.pods, d.metrics)
        /\ b.skew = Insight!VersionSkew(ToSet(d.nodes))
        /\ b.endOfSupport = ("END_OF_SUPPORT" \in SupportOf(d)) /\ b.versions = TRUE
        /\ b.manifests = ToSet(d.documents) /\ b.manifestSchema = Manifest!ManifestState(d.documents, d.api)
        /\ b.configuration = ConfigurationMetadata(d)
    BY CollectionHolds
  <1>2. /\ \A f \in CollectedFields : c[f] = e[f]
        /\ c.nodeHealth = Insight!NodeHealth(ToSet(e.nodes), e.pods, e.metrics)
        /\ c.skew = Insight!VersionSkew(ToSet(e.nodes))
        /\ c.endOfSupport = ("END_OF_SUPPORT" \in SupportOf(e)) /\ c.versions = TRUE
        /\ c.manifests = ToSet(e.documents) /\ c.manifestSchema = Manifest!ManifestState(e.documents, e.api)
        /\ c.configuration = ConfigurationMetadata(e)
    BY CollectionHolds
  <1> HIDE DEF b, c
  <1>3. \A f \in Untouched : d[f] = e[f]
    BY LessLeaves
  <1>4. d.documents = e.documents /\ d.pods = e.pods
    BY <1>3 DEF Untouched
  <1>5. \A f \in Standing : b[f] = c[f]
    <2>1. Standing \ {"manifests", "versions"} \subseteq Untouched \cap CollectedFields
      BY DEF Standing, Untouched, CollectedFields, Written
    <2>2. \A f \in Standing \ {"manifests", "versions"} : b[f] = c[f]
      BY <1>1, <1>2, <1>3, <2>1
    <2>3. b["manifests"] = c["manifests"] /\ b["versions"] = c["versions"]
      BY <1>1, <1>2, <1>4
    <2> QED
      BY <2>2, <2>3
  <1>6. "probes" \in DOMAIN b
    BY <1>1 DEF CollectedFields
  <1>7. /\ b.services = d.services /\ b.endpoints = d.endpoints /\ b.grants = d.grants /\ b.files = d.files
        /\ b.scope = d.scope /\ b.backups = d.backups /\ b.snapshots = d.snapshots /\ b.manual = d.manual
        /\ b.completed = d.completed /\ b.kept = d.kept
    BY <1>1 DEF CollectedFields, Written
  <1>8. /\ c.services = e.services /\ c.endpoints = e.endpoints /\ c.grants = e.grants /\ c.files = e.files
        /\ c.scope = e.scope /\ c.backups = e.backups /\ c.snapshots = e.snapshots /\ c.manual = e.manual
        /\ c.completed = e.completed /\ c.kept = e.kept
    BY <1>2 DEF CollectedFields, Written
  <1>9. \A ns : Migration!InScope(b, ns) => Migration!InScope(c, ns)
    <2>1. \A ns : d.scope.full \/ ns \in d.scope.namespaces => e.scope.full \/ ns \in e.scope.namespaces
      BY ONLY <1>0, LessFields
    <2> QED
      BY <1>7, <1>8, <2>1 DEF Migration!InScope
  <1>10. /\ b.configuration.available \subseteq c.configuration.available
         /\ b.configuration.objects \subseteq c.configuration.objects
    <2> DEFINE kinds(x) == x.requested \cap DOMAIN x.listed
               objects(x) == UNION {x.listed[k] : k \in kinds(x)}
    <2>1. /\ b.configuration.available = kinds(d) /\ b.configuration.objects = objects(d)
          /\ c.configuration.available = kinds(e) /\ c.configuration.objects = objects(e)
      BY <1>1, <1>2 DEF ConfigurationMetadata
    <2>2. /\ d.requested \subseteq e.requested /\ DOMAIN d.listed \subseteq DOMAIN e.listed
          /\ \A k \in DOMAIN d.listed : d.listed[k] \subseteq e.listed[k]
      BY ONLY <1>0, LessFields
    <2>3. kinds(d) \subseteq kinds(e)
      BY <2>2
    <2>4. objects(d) \subseteq objects(e)
      BY <2>2, <2>3
    <2> QED
      BY <2>1, <2>3, <2>4
  <1>11. \/ b.nodeHealth = "EVIDENCE_UNAVAILABLE"
         \/ b.nodeHealth = c.nodeHealth /\ b.skew = c.skew /\ b.endOfSupport = c.endOfSupport
    <2>0. d.nodes = e.nodes \/ d.nodes = <<>>
      BY ONLY <1>0, LessFields
    <2>1. d.metrics = e.metrics \/ d.nodes = <<>>
      BY ONLY <1>0 DEF Less
    <2>2. CASE d.nodes = <<>>
      <3>1. ToSet(d.nodes) = {}
        BY <2>2 DEF ToSet
      <3> QED
        BY <1>1, <3>1 DEF Insight!NodeHealth
    <2>3. CASE d.nodes = e.nodes /\ d.metrics = e.metrics
      <3>1. b.nodeHealth = c.nodeHealth /\ b.skew = c.skew
        BY <1>1, <1>2, <1>4, <2>3
      <3>2. "END_OF_SUPPORT" \in SupportOf(d) <=> "END_OF_SUPPORT" \in SupportOf(e)
        BY <2>3, SupportLess
      <3>3. b.endOfSupport = c.endOfSupport
        BY <1>1, <1>2, <3>2
      <3> QED
        BY <3>1, <3>3
    <2> QED
      BY <2>0, <2>1, <2>2, <2>3
  <1>12. /\ b.manifestSchema = "FAIL" <=> c.manifestSchema = "FAIL"
         /\ c.manifestSchema \in {"FAIL", "WARN", "PARTIAL"}
    <2>1. /\ Manifest!ManifestState(e.documents, e.api) \in {"FAIL", "WARN", "PARTIAL"}
          /\ Manifest!ManifestState(e.documents, e.api) = "FAIL" <=> Manifest!ManifestState(e.documents, d.api) = "FAIL"
      BY ManifestFailsWithoutApi
    <2> QED
      BY <1>1, <1>2, <1>4, <2>1
  <1>13. /\ b.services \subseteq c.services /\ b.endpoints \subseteq c.endpoints
         /\ b.grants \subseteq c.grants /\ b.files \subseteq c.files
         /\ b.backups = c.backups \/ b.backups = {}
         /\ b.snapshots = c.snapshots \/ b.snapshots = {}
         /\ b.manual.declared = c.manual.declared /\ b.manual.state \in {c.manual.state, "ABSENT"}
         /\ b.completed = c.completed \/ b.completed = FALSE
         /\ b.kept \subseteq c.kept /\ c.kept \ b.kept \subseteq {"readiness", "traffic", "probes"}
    <2>1. /\ d.services \subseteq e.services /\ d.endpoints \subseteq e.endpoints
          /\ d.grants \subseteq e.grants /\ d.files \subseteq e.files
          /\ d.backups = e.backups \/ d.backups = {}
          /\ d.snapshots = e.snapshots \/ d.snapshots = {}
      BY ONLY <1>0, LessFields
    <2>2. /\ d.manual.declared = e.manual.declared /\ d.manual.state \in {e.manual.state, "ABSENT"}
          /\ d.completed = e.completed \/ d.completed = FALSE
          /\ d.kept \subseteq e.kept /\ e.kept \ d.kept \subseteq {"readiness", "traffic", "probes"}
      BY ONLY <1>0, LessFields
    <2> QED
      BY <1>7, <1>8, <2>1, <2>2
  <1>14. Weakened(b, c)
    BY <1>5, <1>6, <1>9, <1>10, <1>11, <1>12, <1>13 DEF Weakened
  <1> QED
    BY <1>14 DEF b, c

-----------------------------------------------------------------------------
(* The controls of an inventory that could list less *)

\* x is the inventory y but for what could be listed.
Narrower(x, y) ==
    /\ x.available \subseteq y.available
    /\ \A g \in {"workloads", "pods", "roles", "bindings", "services", "hooks", "policies", "namespaces", "protected",
                 "identity", "controlPlaneNodes"} : x[g] = y[g]

\* A control that could not be read any more.
Unread(old, new) == old = new \/ (old = Posture!Unavailable /\ new.responsibility = "CUSTOMER")

LEMMA CustomersControl ==
    ASSUME NEW state, NEW flagged
    PROVE  /\ Posture!Evaluated(state, flagged).responsibility = "CUSTOMER"
           /\ Posture!WarnIf(flagged).responsibility = "CUSTOMER"
           /\ Posture!Unavailable.responsibility = "CUSTOMER"
           /\ Posture!Unavailable.applicability = "EVIDENCE_UNAVAILABLE"
  BY DEF Posture!Evaluated, Posture!WarnIf, Posture!Unavailable, Posture!Control

LEMMA CoverageLess ==
    ASSUME NEW x, NEW y, Narrower(x, y), NEW keys, NEW control, control.responsibility = "CUSTOMER"
    PROVE  Unread(Posture!FromCoverage(x, keys, control), Posture!FromCoverage(y, keys, control))
  <1>1. Posture!Unavailable.responsibility = "CUSTOMER"
    BY CustomersControl
  <1>2. keys \subseteq x.available => keys \subseteq y.available
    BY DEF Narrower
  <1> QED
    BY <1>1, <1>2 DEF Posture!FromCoverage, Unread

\* What a control reads of the inventory is there still, or the control is not judged any more.
LEMMA InventoryLess ==
    ASSUME NEW x, NEW y, Narrower(x, y), NEW id \in Posture!ControlIds
    PROVE  /\ Unread(Posture!InventoryControl(x, id), Posture!InventoryControl(y, id))
           /\ id \in {"control-plane.api-server", "control-plane.etcd"} =>
                 Posture!InventoryControl(x, id) = Posture!InventoryControl(y, id)
  <1>1. /\ x.workloads = y.workloads /\ x.pods = y.pods /\ x.roles = y.roles /\ x.bindings = y.bindings
        /\ x.services = y.services /\ x.hooks = y.hooks /\ x.policies = y.policies /\ x.namespaces = y.namespaces
        /\ x.protected = y.protected /\ x.identity = y.identity /\ x.controlPlaneNodes = y.controlPlaneNodes
    BY DEF Narrower
  <1>2. Posture!Workloads(x) = Posture!Workloads(y) /\ Posture!Provider(x) = Posture!Provider(y)
    BY <1>1 DEF Posture!Workloads, Posture!Provider
  <1>3. Posture!WorkloadControl(x, id) = Posture!WorkloadControl(y, id)
    BY <1>2 DEF Posture!WorkloadControl
  <1>4. /\ Posture!ControlPlaneControl(x) = Posture!ControlPlaneControl(y)
        /\ Posture!KubeletControl(x) = Posture!KubeletControl(y)
        /\ Posture!PodSecurityControl(x) = Posture!PodSecurityControl(y)
        /\ Posture!NetworkPolicyControl(x) = Posture!NetworkPolicyControl(y)
        /\ Posture!PolicyControl(x) = Posture!PolicyControl(y)
    BY <1>1, <1>2 DEF Posture!ControlPlaneControl, Posture!KubeletControl, Posture!PodSecurityControl,
                      Posture!NetworkPolicyControl, Posture!PolicyControl
  <1>5. \A flagged : Posture!WarnIf(flagged).responsibility = "CUSTOMER"
    BY CustomersControl
  <1>6. \A state, flagged : Posture!Evaluated(state, flagged).responsibility = "CUSTOMER"
    BY CustomersControl
  <1>7. Posture!NetworkPolicyControl(y).responsibility = "CUSTOMER" /\ Posture!PolicyControl(y).responsibility = "CUSTOMER"
    BY <1>5, <1>6 DEF Posture!NetworkPolicyControl, Posture!PolicyControl
  <1>8. \A control : Unread(control, control)
    BY DEF Unread
  <1>9. \A keys, control : control.responsibility = "CUSTOMER" =>
           Unread(Posture!FromCoverage(x, keys, control), Posture!FromCoverage(y, keys, control))
    BY CoverageLess
  <1>10. CASE id \in Posture!WorkloadChecks
    BY <1>3, <1>8, <1>10 DEF Posture!InventoryControl, Posture!WorkloadChecks
  <1>11. CASE id \in {"rbac.wildcards", "rbac.secrets", "rbac.impersonation"}
    <2> DEFINE control == Posture!WarnIf(Posture!Failing(y.roles, id))
    <2>1. /\ Posture!InventoryControl(x, id) = Posture!FromCoverage(x, Posture!Roles, control)
          /\ Posture!InventoryControl(y, id) = Posture!FromCoverage(y, Posture!Roles, control)
      BY <1>1, <1>11 DEF Posture!InventoryControl, Posture!WorkloadChecks
    <2>2. control.responsibility = "CUSTOMER"
      BY <1>5
    <2> HIDE DEF control
    <2> QED
      BY <1>9, <1>11, <2>1, <2>2
  <1>12. CASE id = "rbac.cluster-admin"
    <2> DEFINE control == Posture!WarnIf(Posture!Failing(y.bindings, id))
    <2>1. /\ Posture!InventoryControl(x, id) = Posture!FromCoverage(x, {"clusterrolebindings"}, control)
          /\ Posture!InventoryControl(y, id) = Posture!FromCoverage(y, {"clusterrolebindings"}, control)
      BY <1>1, <1>12 DEF Posture!InventoryControl, Posture!WorkloadChecks
    <2>2. control.responsibility = "CUSTOMER"
      BY <1>5
    <2> HIDE DEF control
    <2> QED
      BY <1>9, <1>12, <2>1, <2>2
  <1>13. CASE id = "network.external-services"
    <2> DEFINE control == Posture!WarnIf(Posture!Failing(y.services, id))
    <2>1. /\ Posture!InventoryControl(x, id) = Posture!FromCoverage(x, {"services"}, control)
          /\ Posture!InventoryControl(y, id) = Posture!FromCoverage(y, {"services"}, control)
      BY <1>1, <1>13 DEF Posture!InventoryControl, Posture!WorkloadChecks
    <2>2. control.responsibility = "CUSTOMER"
      BY <1>5
    <2> HIDE DEF control
    <2> QED
      BY <1>9, <1>13, <2>1, <2>2
  <1>14. CASE id = "network.network-policy"
    <2>1. /\ Posture!InventoryControl(x, id)
                = Posture!FromCoverage(x, {"networkpolicies"}, Posture!NetworkPolicyControl(y))
          /\ Posture!InventoryControl(y, id)
                = Posture!FromCoverage(y, {"networkpolicies"}, Posture!NetworkPolicyControl(y))
      BY <1>4, <1>14 DEF Posture!InventoryControl, Posture!WorkloadChecks
    <2> QED
      BY <1>7, <1>9, <1>14, <2>1
  <1>15. CASE id = "admission.policy-enforcement"
    <2>1. /\ Posture!InventoryControl(x, id)
                = Posture!FromCoverage(x, Posture!Hooks \cup {"kyverno_clusterpolicies"}, Posture!PolicyControl(y))
          /\ Posture!InventoryControl(y, id)
                = Posture!FromCoverage(y, Posture!Hooks \cup {"kyverno_clusterpolicies"}, Posture!PolicyControl(y))
      BY <1>4, <1>15 DEF Posture!InventoryControl, Posture!WorkloadChecks
    <2> QED
      BY <1>7, <1>9, <1>15, <2>1
  <1>16. CASE id = "admission.failure-policy"
    <2> DEFINE control == Posture!WarnIf(Posture!Failing(y.hooks, id))
    <2>1. /\ Posture!InventoryControl(x, id) = Posture!FromCoverage(x, Posture!Hooks, control)
          /\ Posture!InventoryControl(y, id) = Posture!FromCoverage(y, Posture!Hooks, control)
      BY <1>1, <1>16 DEF Posture!InventoryControl, Posture!WorkloadChecks
    <2>2. control.responsibility = "CUSTOMER"
      BY <1>5
    <2> HIDE DEF control
    <2> QED
      BY <1>9, <1>16, <2>1, <2>2
  <1>17. CASE id \in {"admission.pod-security", "control-plane.api-server", "control-plane.etcd", "node.kubelet-configuration"}
    <2>1. Posture!InventoryControl(x, id) = Posture!InventoryControl(y, id)
      BY <1>4, <1>17 DEF Posture!InventoryControl, Posture!WorkloadChecks
    <2> QED
      BY <1>8, <2>1
  <1>18. \/ id \in Posture!WorkloadChecks
         \/ id \in {"rbac.wildcards", "rbac.secrets", "rbac.impersonation"}
         \/ id \in {"rbac.cluster-admin", "network.external-services", "network.network-policy",
                    "admission.policy-enforcement", "admission.failure-policy"}
         \/ id \in {"admission.pod-security", "control-plane.api-server", "control-plane.etcd", "node.kubelet-configuration"}
    BY DEF Posture!ControlIds
  <1>19. id \in {"control-plane.api-server", "control-plane.etcd"} =>
            Posture!InventoryControl(x, id) = Posture!InventoryControl(y, id)
    BY <1>4 DEF Posture!InventoryControl, Posture!WorkloadChecks
  <1> QED
    BY <1>10, <1>11, <1>12, <1>13, <1>14, <1>15, <1>16, <1>17, <1>18, <1>19

\* A control that is judged no more, beside the evidence, the findings and the exceptions.
Unjudged(old, new) == old = new \/ (old = Posture!Unavailable /\ WellMade(new))
ControlPlaneIds == {"control-plane.api-server", "control-plane.etcd"}

LEMMA EvidenceOfLess ==
    ASSUME NEW x, NEW y, Narrower(x, y), NEW entries
    PROVE  LET b == Posture!WithEvidence(Posture!Inventory(x), entries)
               c == Posture!WithEvidence(Posture!Inventory(y), entries)
           IN  /\ DOMAIN b = DOMAIN c
               /\ \A id \in DOMAIN c : Unjudged(b[id], c[id]) /\ (id \in ControlPlaneIds => b[id] = c[id])
  <1> DEFINE p == Posture!Inventory(x)
             q == Posture!Inventory(y)
             decided == {entries[i].id : i \in Posture!AcceptedEvidence(entries)}
  <1>1. DOMAIN p = Posture!ControlIds /\ DOMAIN q = Posture!ControlIds
    BY DEF Posture!Inventory
  <1>2. \A id \in Posture!ControlIds : Unread(p[id], q[id]) /\ WellMade(q[id]) /\ (id \in ControlPlaneIds => p[id] = q[id])
    <2>1. \A id \in Posture!ControlIds : p[id] = Posture!InventoryControl(x, id) /\ q[id] = Posture!InventoryControl(y, id)
      BY DEF Posture!Inventory
    <2>2. \A id \in Posture!ControlIds : WellMade(Posture!InventoryControl(y, id))
      BY InventoryIsWellMade
    <2> HIDE DEF p, q
    <2> QED
      BY <2>1, <2>2, InventoryLess DEF ControlPlaneIds
  <1>3. /\ Posture!WithEvidence(p, entries)
             = [id \in DOMAIN p \cup decided |-> IF id \in decided THEN Posture!DecidedBy(p, entries, id) ELSE p[id]]
        /\ Posture!WithEvidence(q, entries)
             = [id \in DOMAIN q \cup decided |-> IF id \in decided THEN Posture!DecidedBy(q, entries, id) ELSE q[id]]
    BY DEF Posture!WithEvidence
  <1> HIDE DEF p, q, decided
  <1>4. ASSUME NEW id PROVE Posture!DecidedBy(p, entries, id) = Posture!DecidedBy(q, entries, id)
    <2>1. id \in Posture!ControlIds => p[id].responsibility = q[id].responsibility
      <3>1. Posture!Unavailable.responsibility = "CUSTOMER"
        BY CustomersControl
      <3> QED
        BY <1>2, <3>1 DEF Unread
    <2> QED
      BY <1>1, <2>1 DEF Posture!DecidedBy
  <1>5. \A id \in Posture!ControlIds : Unjudged(p[id], q[id])
    BY <1>2 DEF Unread, Unjudged
  <1>6. \A control : Unjudged(control, control)
    BY DEF Unjudged
  <1> QED
    BY <1>1, <1>2, <1>3, <1>4, <1>5, <1>6 DEF p, q

LEMMA AwsOfLess ==
    ASSUME NEW b, NEW c, DOMAIN b = DOMAIN c,
           \A id \in DOMAIN c : Unjudged(b[id], c[id]) /\ (id \in ControlPlaneIds => b[id] = c[id]),
           NEW provider, NEW findings
    PROVE  LET d == Posture!WithAws(b, provider, findings)
               e == Posture!WithAws(c, provider, findings)
           IN  /\ DOMAIN d = DOMAIN e
               /\ \A id \in DOMAIN e : Unjudged(d[id], e[id]) /\ (id \in ControlPlaneIds => d[id] = e[id])
  <1>1. \A control : Unjudged(control, control)
    BY DEF Unjudged
  <1> QED
    BY <1>1 DEF Posture!WithAws

\* The controls of one collection and of what is left of it.
FewerJudged(b, c) ==
    /\ DOMAIN b = DOMAIN c
    /\ \A id \in DOMAIN c :
          /\ b[id] = c[id] \/ (b[id].applicability = "EVIDENCE_UNAVAILABLE" /\ Validation!CisControlSound(c[id]))
          /\ id \in ControlPlaneIds => b[id] = c[id]

LEMMA ExceptionsOfLess ==
    ASSUME NEW b, NEW c, DOMAIN b = DOMAIN c,
           \A id \in DOMAIN c : Unjudged(b[id], c[id]) /\ (id \in ControlPlaneIds => b[id] = c[id]),
           NEW exceptions
    PROVE  FewerJudged(Posture!WithExceptions(b, exceptions), Posture!WithExceptions(c, exceptions))
  <1> DEFINE exempt(controls, id) == \E x \in exceptions : Posture!Covers(x, id, controls[id])
             of(controls, id) == IF exempt(controls, id) THEN [controls[id] EXCEPT !.status = "EXEMPTED"] ELSE controls[id]
             d == Posture!WithExceptions(b, exceptions)
             e == Posture!WithExceptions(c, exceptions)
  <1>1. /\ DOMAIN d = DOMAIN c /\ DOMAIN e = DOMAIN c
        /\ \A id \in DOMAIN c : d[id] = of(b, id) /\ e[id] = of(c, id)
    BY DEF Posture!WithExceptions
  <1>2. ASSUME NEW id \in DOMAIN c, b[id] = c[id] PROVE of(b, id) = of(c, id)
    BY <1>2
  <1>3. ASSUME NEW id \in DOMAIN c, b[id] = Posture!Unavailable, WellMade(c[id])
        PROVE  of(b, id).applicability = "EVIDENCE_UNAVAILABLE" /\ Validation!CisControlSound(of(c, id))
    <2>1. /\ Posture!Unavailable.applicability = "EVIDENCE_UNAVAILABLE"
          /\ [Posture!Unavailable EXCEPT !.status = "EXEMPTED"].applicability = "EVIDENCE_UNAVAILABLE"
      BY DEF Posture!Unavailable, Posture!Control
    <2>2. Validation!CisControlSound(c[id]) /\ Validation!CisControlSound([c[id] EXCEPT !.status = "EXEMPTED"])
      BY <1>3 DEF WellMade, Fields, Validation!CisControlSound
    <2> HIDE DEF exempt
    <2> QED
      BY <1>3, <2>1, <2>2
  <1> HIDE DEF d, e, of
  <1>4. \A id \in DOMAIN c : b[id] = c[id] \/ (b[id] = Posture!Unavailable /\ WellMade(c[id]))
    BY DEF Unjudged
  <1>5. FewerJudged(d, e)
    BY <1>1, <1>2, <1>3, <1>4 DEF FewerJudged
  <1> QED
    BY <1>5 DEF d, e

LEMMA ControlsLess ==
    ASSUME NEW x, NEW y, Narrower(x, y), NEW beside
    PROVE  FewerJudged(Posture!Assess(x, beside), Posture!Assess(y, beside))
  <1> DEFINE p == Posture!WithEvidence(Posture!Inventory(x), beside.evidence)
             q == Posture!WithEvidence(Posture!Inventory(y), beside.evidence)
             b == Posture!WithAws(p, Posture!Provider(x), beside.aws)
             c == Posture!WithAws(q, Posture!Provider(x), beside.aws)
  <1>1. Posture!Provider(x) = Posture!Provider(y)
    BY DEF Narrower, Posture!Provider
  <1>2. /\ Posture!Assess(x, beside) = Posture!WithExceptions(b, beside.exceptions)
        /\ Posture!Assess(y, beside) = Posture!WithExceptions(c, beside.exceptions)
    BY <1>1 DEF Posture!Assess, Posture!ApplyExternal
  <1>3. /\ DOMAIN p = DOMAIN q
        /\ \A id \in DOMAIN q : Unjudged(p[id], q[id]) /\ (id \in ControlPlaneIds => p[id] = q[id])
    BY EvidenceOfLess
  <1> HIDE DEF p, q
  <1>4. /\ DOMAIN b = DOMAIN c
        /\ \A id \in DOMAIN c : Unjudged(b[id], c[id]) /\ (id \in ControlPlaneIds => b[id] = c[id])
    BY <1>3, AwsOfLess
  <1> HIDE DEF b, c
  <1> QED
    BY <1>2, <1>4, ExceptionsOfLess

\* A score stays one, and every control sound.
LEMMA ScoresOfLess ==
    ASSUME NEW b, NEW c, FewerJudged(b, c), IsFiniteSet(DOMAIN c), Posture!Summary(b).posture # -1,
           \A id \in DOMAIN b : Validation!CisControlSound(b[id])
    PROVE  /\ Posture!Summary(c).posture # -1
           /\ \A id \in DOMAIN c : Validation!CisControlSound(c[id])
  <1>1. Posture!Scored(b) # {}
    <2>1. ASSUME Posture!Scored(b) = {} PROVE FALSE
      <3>1. Posture!Weight({}) = 0
        <4> DEFINE w == [a \in {} |-> 0]
                   Step(g) == [T \in SUBSET {} |-> IF T = {} THEN 0 ELSE Posture!RiskWeight(Pick(T)) + g[Rest(T)]]
                   h == CHOOSE g : g = Step(g)
        <4>1. Posture!Weight({}) = h[{}]
          BY DEF Posture!Weight, Posture!MapThenSumSet, Posture!MapThenFoldSet, Pick, Rest
        <4>2. \A g : Step(g) = [T \in {{}} |-> 0]
          OBVIOUS
        <4>3. \E g : g = Step(g)
          BY <4>2
        <4>4. h = Step(h)
          <5> HIDE DEF Step
          <5> QED
            BY <4>3
        <4>5. h = [T \in {{}} |-> 0]
          <5> HIDE DEF h, Step
          <5> QED
            BY <4>2, <4>4
        <4> HIDE DEF h
        <4> QED
          BY <4>1, <4>5
      <3>2. Posture!Summary(b).posture = -1
        BY <2>1, <3>1 DEF Posture!Summary, Posture!Percent, Posture!None
      <3> QED
        BY <3>2
    <2> QED
      BY <2>1
  <1>2. Posture!Scored(b) \subseteq Posture!Scored(c)
    BY DEF Posture!Scored, FewerJudged
  <1>3. Posture!Summary(c).posture # -1
    BY <1>1, <1>2, ScoredHasAScore
  <1>4. \A id \in DOMAIN c : Validation!CisControlSound(c[id])
    BY DEF FewerJudged
  <1> QED
    BY <1>3, <1>4

-----------------------------------------------------------------------------
(* The gates of the provider validation *)

Free(gate) == gate.mandatory => gate.status = "PASS"

LEMMA PassIfFree ==
    ASSUME NEW condition \in BOOLEAN
    PROVE  Free(Provider!PassIf(condition)) <=> condition
  BY DEF Free, Provider!PassIf, Provider!Gate

LEMMA ReadyIsFree ==
    ASSUME NEW p, NEW limits
    PROVE  Provider!Validate(p, limits).releaseReady <=> \A g \in Provider!ProviderGates(p, limits) : Free(g)
  <1> DEFINE gates == Provider!ProviderGates(p, limits)
             states == {g.status : g \in Provider!Blocking(gates)}
  <1>1. Provider!Validate(p, limits).releaseReady <=> states = {}
    BY DEF Provider!Validate
  <1> HIDE DEF gates
  <1>2. states = {} <=> Provider!Blocking(gates) = {}
    OBVIOUS
  <1>3. Provider!Blocking(gates) = {} <=> \A g \in gates : Free(g)
    BY DEF Provider!Blocking, Free
  <1> QED
    BY <1>1, <1>2, <1>3 DEF gates

\* What the gates ask for, all of them together.
ProviderNeeds(p, limits) ==
    /\ p.status = "COMPLETED" /\ p.completed
    /\ \A source \in DOMAIN p.sources : p.sources[source] = p.expected
    /\ p.validator = "ok"
    /\ Free(Provider!ReadOnly(p)) /\ Free(Provider!Protection(p))
    /\ Provider!CloudRulesApply(p) /\ Provider!OperationalRulesApply(p) /\ Provider!ControlPlaneApplies(p)
    /\ \A k \in DOMAIN p.quality : p.quality[k] = 0
    /\ Provider!Measurable(p.resources) /\ Provider!Covers(p.resources, limits.kubernetesCoverage)
    /\ IF p.expected = "generic-kubernetes" THEN p.cloud.state \in {"N/A", "NOT_APPLICABLE"} ELSE p.cloud.state = "AVAILABLE"
    /\ p.expected # "generic-kubernetes" =>
          Provider!Measurable(p.cloud.coverage) /\ Provider!Covers(p.cloud.coverage, limits.cloudCoverage)
    /\ \A m \in Provider!Metrics : ~ (Provider!Spent(p)[m] > limits[m]) /\ Provider!Spent(p)[m] # Provider!None

LEMMA ReadyNeeds ==
    ASSUME NEW p, NEW limits
    PROVE  Provider!Validate(p, limits).releaseReady <=> ProviderNeeds(p, limits)
  <1>1. Free(Provider!Terminal(p)) <=> p.status = "COMPLETED" /\ p.completed
    BY DEF Provider!Terminal, Free, Provider!PassIf, Provider!Gate
  <1>2. Free(Provider!Detection(p)) <=> \A source \in DOMAIN p.sources : p.sources[source] = p.expected
    BY DEF Provider!Detection, Free, Provider!PassIf, Provider!Gate
  <1>3. Free(Provider!Artifacts(p)) <=> p.validator = "ok"
    BY DEF Provider!Artifacts, Free, Provider!PassIf, Provider!Gate
  <1>4. Free(Provider!Applicability(p)) <=>
           Provider!CloudRulesApply(p) /\ Provider!OperationalRulesApply(p) /\ Provider!ControlPlaneApplies(p)
    BY DEF Provider!Applicability, Free, Provider!PassIf, Provider!Gate
  <1>5. Free(Provider!Quality(p)) <=> \A k \in DOMAIN p.quality : p.quality[k] = 0
    BY DEF Provider!Quality, Free, Provider!PassIf, Provider!Gate
  <1>6. Free(Provider!KubernetesCoverage(p, limits)) <=>
           Provider!Measurable(p.resources) /\ Provider!Covers(p.resources, limits.kubernetesCoverage)
    BY DEF Provider!KubernetesCoverage, Free, Provider!PassIf, Provider!Gate
  <1>7. Free(Provider!CloudApi(p)) <=>
           IF p.expected = "generic-kubernetes" THEN p.cloud.state \in {"N/A", "NOT_APPLICABLE"} ELSE p.cloud.state = "AVAILABLE"
    BY DEF Provider!CloudApi, Free, Provider!Gate
  <1>8. Free(Provider!CloudCoverage(p, limits)) <=>
           (p.expected # "generic-kubernetes" =>
              Provider!Measurable(p.cloud.coverage) /\ Provider!Covers(p.cloud.coverage, limits.cloudCoverage))
    BY DEF Provider!CloudCoverage, Free, Provider!PassIf, Provider!Gate
  <1>9. Free(Provider!Performance(p, limits)) <=>
           \A m \in Provider!Metrics : ~ (Provider!Spent(p)[m] > limits[m]) /\ Provider!Spent(p)[m] # Provider!None
    BY DEF Provider!Performance, Free, Provider!Gate
  <1>10. (\A g \in Provider!ProviderGates(p, limits) : Free(g)) <=>
            /\ Free(Provider!Terminal(p)) /\ Free(Provider!Detection(p)) /\ Free(Provider!Artifacts(p))
            /\ Free(Provider!ReadOnly(p)) /\ Free(Provider!Protection(p)) /\ Free(Provider!Applicability(p))
            /\ Free(Provider!Quality(p)) /\ Free(Provider!KubernetesCoverage(p, limits)) /\ Free(Provider!CloudApi(p))
            /\ Free(Provider!CloudCoverage(p, limits)) /\ Free(Provider!Performance(p, limits))
    BY DEF Provider!ProviderGates
  <1> QED
    BY <1>1, <1>2, <1>3, <1>4, <1>5, <1>6, <1>7, <1>8, <1>9, <1>10, ReadyIsFree DEF ProviderNeeds

-----------------------------------------------------------------------------
(* A cloud that answers less *)

LEMMA CommandsLess ==
    ASSUME NEW x, NEW y, LessOf("cli", x, y), Insight!ReadOnlyCommands \subseteq DOMAIN y.answers, NEW command,
           Insight!CommandState(x, command) = "AVAILABLE"
    PROVE  Insight!CommandState(y, command) = "AVAILABLE"
  <1>1. /\ x.installed = y.installed \/ x.installed = FALSE
        /\ \A k \in DOMAIN y.answers : x.answers[k] \in {y.answers[k], "error"}
    BY DEF LessOf
  <1>2. command \in Insight!ReadOnlyCommands /\ x.installed /\ x.answers[command] = "json"
    BY DEF Insight!CommandState
  <1> QED
    BY <1>1, <1>2 DEF Insight!CommandState

\* The report of a cloud that is all there is the one with every answer.
LEMMA AksLess ==
    ASSUME NEW d, NEW e, LessOf("cli", d.cli, e.cli), Insight!ReadOnlyCommands \subseteq DOMAIN e.cli.answers,
           d.enabled => e.enabled, NEW scoped, NEW shown,
           Insight!AksReport(d.cli, d.enabled, scoped, shown).state = "AVAILABLE"
    PROVE  Insight!AksReport(d.cli, d.enabled, scoped, shown) = Insight!AksReport(e.cli, e.enabled, scoped, shown)
  <1> DEFINE b == Insight!AksCoverage(d.cli, shown)
             c == Insight!AksCoverage(e.cli, shown)
             rules(cli, coverage) ==
                [identity |-> Insight!Switch(IF shown.identity THEN "on" ELSE "off", TRUE),
                 pools |-> IF Insight!SystemPools(cli, shown) THEN "PASS"
                           ELSE IF coverage.nodePools = "AVAILABLE" THEN "WARN" ELSE "UNKNOWN",
                 channel |-> IF shown.channel THEN "PASS" ELSE "WARN",
                 egress |-> "MANUAL"]
             whole(coverage) == IF \A r \in DOMAIN coverage : coverage[r] = "AVAILABLE" THEN "AVAILABLE" ELSE "PARTIAL"
             calls == IF shown.located THEN 4 ELSE 3
  <1>1. \A z : Insight!AksReport(z.cli, z.enabled, scoped, shown) =
           IF ~ z.enabled THEN Insight!Unassessed("aks", "DISABLED")
           ELSE IF ~ scoped THEN Insight!Unassessed("aks", "UNAVAILABLE")
           ELSE IF Insight!CommandState(z.cli, "show") # "AVAILABLE"
           THEN Insight!Report("aks", "UNAVAILABLE", [cluster |-> "UNAVAILABLE"], <<>>, 1)
           ELSE Insight!Report("aks", whole(Insight!AksCoverage(z.cli, shown)), Insight!AksCoverage(z.cli, shown),
                               rules(z.cli, Insight!AksCoverage(z.cli, shown)), calls)
    BY DEF Insight!AksReport
  <1>2. \A state, coverage, r, n : Insight!Report("aks", state, coverage, r, n).state = state
    BY DEF Insight!Report
  <1>3. \A state : Insight!Unassessed("aks", state).state = state
    BY DEF Insight!Unassessed, Insight!Report
  <1>4. \A coverage : whole(coverage) = "AVAILABLE" => \A r \in DOMAIN coverage : coverage[r] = "AVAILABLE"
    OBVIOUS
  <1> HIDE DEF rules, whole, calls
  <1>5. d.enabled /\ scoped /\ Insight!CommandState(d.cli, "show") = "AVAILABLE" /\ whole(b) = "AVAILABLE"
    BY <1>1, <1>2, <1>3
  <1>6. e.enabled
    BY <1>5
  <1>7. /\ Insight!CommandState(d.cli, "get-upgrades") = "AVAILABLE"
        /\ Insight!CommandState(d.cli, "nodepool list") = "AVAILABLE"
        /\ shown.located /\ Insight!CommandState(d.cli, "get-versions") = "AVAILABLE"
    <2>1. \A r \in DOMAIN b : b[r] = "AVAILABLE"
      BY <1>4, <1>5
    <2>2. b.upgrades = "AVAILABLE" /\ b.nodePools = "AVAILABLE" /\ b.regionalVersions = "AVAILABLE"
      BY <2>1 DEF Insight!AksCoverage
    <2> QED
      BY <2>2 DEF Insight!AksCoverage
  <1>8. \A command : Insight!CommandState(d.cli, command) = "AVAILABLE" => Insight!CommandState(e.cli, command) = "AVAILABLE"
    BY CommandsLess
  <1>9. c = b
    BY <1>7, <1>8 DEF Insight!AksCoverage
  <1>10. Insight!SystemPools(d.cli, shown) = Insight!SystemPools(e.cli, shown)
    BY <1>7, <1>8 DEF Insight!SystemPools
  <1>11. rules(d.cli, b) = rules(e.cli, c)
    BY <1>9, <1>10 DEF rules
  <1>12. Insight!CommandState(e.cli, "show") = "AVAILABLE"
    BY <1>5, <1>8
  <1>13. Insight!AksReport(d.cli, d.enabled, scoped, shown) = Insight!Report("aks", whole(b), b, rules(d.cli, b), calls)
    BY <1>1, <1>5
  <1>14. Insight!AksReport(e.cli, e.enabled, scoped, shown) = Insight!Report("aks", whole(c), c, rules(e.cli, c), calls)
    BY <1>1, <1>5, <1>6, <1>12
  <1> QED
    BY <1>9, <1>11, <1>13, <1>14

LEMMA GkeLess ==
    ASSUME NEW d, NEW e, LessOf("cli", d.cli, e.cli), Insight!ReadOnlyCommands \subseteq DOMAIN e.cli.answers,
           d.enabled => e.enabled, NEW scoped, NEW shown,
           Insight!GkeReport(d.cli, d.enabled, scoped, shown).state = "AVAILABLE"
    PROVE  Insight!GkeReport(d.cli, d.enabled, scoped, shown) = Insight!GkeReport(e.cli, e.enabled, scoped, shown)
  <1> DEFINE coverage(cli) == [cluster |-> Insight!CommandState(cli, "describe"),
                               regionalVersions |-> Insight!CommandState(cli, "get-server-config")]
             rules == [identity |-> Insight!Switch(IF shown.workloadPool THEN "on" ELSE "off", TRUE),
                       channel |-> IF shown.channel THEN "PASS" ELSE "WARN",
                       shielded |-> Insight!Switch(shown.shielded, TRUE), private |-> Insight!Switch(shown.private, TRUE)]
  <1>1. \A z : Insight!GkeReport(z.cli, z.enabled, scoped, shown) =
           IF ~ z.enabled THEN Insight!Unassessed("gke", "DISABLED")
           ELSE IF ~ scoped THEN Insight!Unassessed("gke", "UNAVAILABLE")
           ELSE IF coverage(z.cli).cluster # "AVAILABLE" THEN Insight!Report("gke", "UNAVAILABLE", coverage(z.cli), <<>>, 2)
           ELSE Insight!Report("gke", IF coverage(z.cli).regionalVersions = "AVAILABLE" THEN "AVAILABLE" ELSE "PARTIAL",
                               coverage(z.cli), rules, 2)
    BY DEF Insight!GkeReport
  <1>2. \A state, cover, r, n : Insight!Report("gke", state, cover, r, n).state = state
    BY DEF Insight!Report
  <1>3. \A state : Insight!Unassessed("gke", state).state = state
    BY DEF Insight!Unassessed, Insight!Report
  <1> HIDE DEF rules, coverage
  <1>4. d.enabled /\ scoped /\ coverage(d.cli).cluster = "AVAILABLE" /\ coverage(d.cli).regionalVersions = "AVAILABLE"
    BY <1>1, <1>2, <1>3
  <1>5. \A command : Insight!CommandState(d.cli, command) = "AVAILABLE" => Insight!CommandState(e.cli, command) = "AVAILABLE"
    BY CommandsLess
  <1>6. coverage(d.cli) = coverage(e.cli)
    BY <1>4, <1>5 DEF coverage
  <1>7. e.enabled
    BY <1>4
  <1> QED
    BY <1>1, <1>4, <1>6, <1>7

LEMMA AwsEvidenceLess ==
    ASSUME NEW v, NEW w, v = w \/ \E k : Withheld(v, w, k), NEW report
    PROVE  AwsEvidence(v, report) = AwsEvidence(w, report)
  <1>1. /\ v.cluster = w.cluster /\ v.associations = w.associations /\ v.addons = w.addons /\ v.zones = w.zones
        /\ v.lowCapacity = w.lowCapacity
    BY DEF Withheld, AccountFields
  <1> QED
    BY <1>1 DEF AwsEvidence

\* An account that names the cluster is asked, whatever it answers.
LEMMA NamedAccount ==
    ASSUME NEW v, NEW w, v = w \/ \E k : Withheld(v, w, k)
    PROVE  Account!AwsReport(v).state = "N/A" <=> Account!AwsReport(w).state = "N/A"
  <1>1. v.named = w.named
    BY DEF Withheld, AccountFields
  <1>2. \A x : Account!AwsReport(x).state = "N/A" <=> ~ x.named
    <2>1. \A s : Account!CollectionState(s) \in {"AVAILABLE", "PARTIAL"}
      BY DEF Account!CollectionState
    <2>2. \A s, state, findings : Account!ReportOf(s, state, findings).state = state
      BY DEF Account!ReportOf
    <2> QED
      BY <2>1, <2>2 DEF Account!AwsReport
  <1> QED
    BY <1>1, <1>2

-----------------------------------------------------------------------------
(* What is left of the evidence, before the gates of the provider validation *)

InsightsPlatformOf(e) == IF CloudOf(e).provider # "" THEN CloudOf(e).provider ELSE Insight!DetectedPlatform(e.hints)

LEMMA ProviderReads ==
    ASSUME NEW e, Evidence(e)
    PROVE  LET c == Collection(e)
               p == ProviderEvidence(c)
           IN  /\ p.expected = e.expected /\ p.completed = e.completed
               /\ p.status = IF e.completed THEN "COMPLETED" ELSE "PARTIAL"
               /\ p.sources = [kubernetes |-> PlatformOf(e), cloud |-> CloudOf(e).provider, insights |-> InsightsPlatformOf(e)]
               /\ p.validator = IF Validation!Valid(Published(c)) THEN "ok" ELSE "failed"
               /\ p.cloud = CloudOf(e)
               /\ p.operationalRules = Insight!ProviderRules(InsightsPlatformOf(e), CloudOf(e).rules)
               /\ p.controls = Posture!Assess(InvOf(e), BesideOf(e))
               /\ p.quality = e.quality /\ p.resources = e.resources /\ p.budget = e.budget
  <1> DEFINE c == Collection(e)
  <1>1. /\ \A f \in CollectedFields : c[f] = e[f]
        /\ c.platform = PlatformOf(e) /\ c.cloud = CloudOf(e)
        /\ c.controls = Posture!Assess(InvOf(e), BesideOf(e))
        /\ c.insights.platform = IF c.cloud.provider # "" THEN c.cloud.provider ELSE Insight!DetectedPlatform(e.hints)
        /\ c.insights.rules = Insight!ProviderRules(c.insights.platform, c.cloud.rules)
    BY CollectionHolds
  <1> HIDE DEF c
  <1>2. /\ c.expected = e.expected /\ c.completed = e.completed /\ c.quality = e.quality /\ c.resources = e.resources
        /\ c.budget = e.budget
    BY <1>1 DEF CollectedFields, Written
  <1>3. c.insights.platform = InsightsPlatformOf(e)
    BY <1>1 DEF InsightsPlatformOf
  <1>4. LET p == ProviderEvidence(c)
        IN  /\ p.expected = c.expected /\ p.completed = c.completed
            /\ p.status = IF c.completed THEN "COMPLETED" ELSE "PARTIAL"
            /\ p.sources = [kubernetes |-> c.platform, cloud |-> c.cloud.provider, insights |-> c.insights.platform]
            /\ p.validator = IF Validation!Valid(Published(c)) THEN "ok" ELSE "failed"
            /\ p.cloud = c.cloud /\ p.operationalRules = c.insights.rules /\ p.controls = c.controls
            /\ p.quality = c.quality /\ p.resources = c.resources /\ p.budget = c.budget
    BY DEF ProviderEvidence
  <1> DEFINE p == ProviderEvidence(c)
  <1>5. /\ p.expected = c.expected /\ p.completed = c.completed
        /\ p.status = IF c.completed THEN "COMPLETED" ELSE "PARTIAL"
        /\ p.sources = [kubernetes |-> c.platform, cloud |-> c.cloud.provider, insights |-> c.insights.platform]
        /\ p.validator = IF Validation!Valid(Published(c)) THEN "ok" ELSE "failed"
        /\ p.cloud = c.cloud /\ p.operationalRules = c.insights.rules /\ p.controls = c.controls
        /\ p.quality = c.quality /\ p.resources = c.resources /\ p.budget = c.budget
    BY <1>4
  <1> HIDE DEF p
  <1>6. /\ p.expected = e.expected /\ p.completed = e.completed
        /\ p.status = IF e.completed THEN "COMPLETED" ELSE "PARTIAL"
        /\ p.quality = e.quality /\ p.resources = e.resources /\ p.budget = e.budget
    BY <1>2, <1>5
  <1>7. p.sources = [kubernetes |-> PlatformOf(e), cloud |-> CloudOf(e).provider, insights |-> InsightsPlatformOf(e)]
    BY <1>1, <1>3, <1>5
  <1>8. /\ p.cloud = CloudOf(e) /\ p.controls = Posture!Assess(InvOf(e), BesideOf(e))
        /\ p.operationalRules = Insight!ProviderRules(InsightsPlatformOf(e), CloudOf(e).rules)
    BY <1>1, <1>3, <1>5
  <1> QED
    BY <1>5, <1>6, <1>7, <1>8 DEF p, c

\* What every collection says of itself in the same words.
LEMMA AlwaysSafe ==
    ASSUME NEW b, NEW c
    PROVE  /\ Provider!ReadOnly(ProviderEvidence(b)) = Provider!ReadOnly(ProviderEvidence(c))
           /\ Provider!Protection(ProviderEvidence(b)) = Provider!Protection(ProviderEvidence(c))
  <1> DEFINE p == ProviderEvidence(b)
             q == ProviderEvidence(c)
  <1>1. /\ p.safety = q.safety /\ p.verbs = q.verbs /\ p.operations = q.operations /\ p.protection = q.protection
    BY DEF ProviderEvidence
  <1> HIDE DEF p, q
  <1>2. Provider!ReadOnly(p) = Provider!ReadOnly(q) /\ Provider!Protection(p) = Provider!Protection(q)
    BY <1>1 DEF Provider!ReadOnly, Provider!Protection
  <1> QED
    BY <1>2 DEF p, q

LEMMA LessBesides ==
    ASSUME NEW d, NEW e, Less(d, e)
    PROVE  /\ d.account = e.account \/ \E k : Withheld(d.account, e.account, k)
           /\ d.enabled = e.enabled \/ d.enabled = FALSE
           /\ LessOf("cli", d.cli, e.cli) /\ LessOf("inv", d.inv, e.inv)
           /\ LessOf("resources", d.resources, e.resources) /\ LessOf("budget", d.budget, e.budget)
           /\ d.artifacts \subseteq e.artifacts
           /\ d.completed = e.completed \/ d.completed = FALSE
  <1>1. \A f \in CollectedFields : LessOf(f, d[f], e[f])
    BY DEF Less
  <1>2. {"account", "enabled", "cli", "inv", "resources", "budget", "artifacts", "completed"} \subseteq CollectedFields
    BY DEF CollectedFields, Written
  <1>3. /\ LessOf("account", d.account, e.account) /\ LessOf("enabled", d.enabled, e.enabled)
        /\ LessOf("cli", d.cli, e.cli) /\ LessOf("inv", d.inv, e.inv)
        /\ LessOf("resources", d.resources, e.resources) /\ LessOf("budget", d.budget, e.budget)
        /\ LessOf("artifacts", d.artifacts, e.artifacts) /\ LessOf("completed", d.completed, e.completed)
    BY <1>1, <1>2
  <1>4. d.account = e.account \/ \E k : Withheld(d.account, e.account, k)
    BY <1>3 DEF LessOf
  <1>5. d.enabled = e.enabled \/ d.enabled = FALSE
    BY <1>3 DEF LessOf
  <1>6. d.artifacts \subseteq e.artifacts
    BY <1>3 DEF LessOf
  <1>7. d.completed = e.completed \/ d.completed = FALSE
    BY <1>3 DEF LessOf
  <1> QED
    BY <1>3, <1>4, <1>5, <1>6, <1>7

LEMMA PlatformLess ==
    ASSUME NEW d, NEW e, Less(d, e)
    PROVE  PlatformOf(d) = PlatformOf(e)
  <1>1. d.hints = e.hints
    BY LessLeaves DEF Untouched
  <1>2. Account!AwsReport(d.account).state = "N/A" <=> Account!AwsReport(e.account).state = "N/A"
    BY LessBesides, NamedAccount
  <1> QED
    BY <1>1, <1>2 DEF PlatformOf

LEMMA PlatformIsKnown ==
    ASSUME NEW e
    PROVE  /\ PlatformOf(e) \in {"eks", "aks", "gke", "generic-kubernetes"}
           /\ Account!AwsReport(e.account).state # "N/A" => PlatformOf(e) = "eks"
  BY DEF PlatformOf, Insight!DetectedPlatform

\* The cloud report by its platform.
LEMMA CloudMeans ==
    ASSUME NEW e
    PROVE  /\ PlatformOf(e) = "eks" => CloudOf(e) = Insight!EksReport(AwsEvidence(e.account, Account!AwsReport(e.account)))
           /\ PlatformOf(e) = "aks" => CloudOf(e) = Insight!AksReport(e.cli, e.enabled, e.scoped, e.aks)
           /\ PlatformOf(e) = "gke" => CloudOf(e) = Insight!GkeReport(e.cli, e.enabled, e.scoped, e.gke)
           /\ PlatformOf(e) = "generic-kubernetes" => CloudOf(e) = Insight!Unassessed("generic-kubernetes", "N/A")
  <1> DEFINE x == [aws |-> AwsEvidence(e.account, Account!AwsReport(e.account)), cli |-> e.cli, enabled |-> e.enabled,
                   scoped |-> e.scoped, aks |-> e.aks, gke |-> e.gke]
  <1>1. CloudOf(e) = Insight!CloudReport(PlatformOf(e), x)
    BY DEF CloudOf
  <1>2. /\ x.aws = AwsEvidence(e.account, Account!AwsReport(e.account)) /\ x.cli = e.cli /\ x.enabled = e.enabled
        /\ x.scoped = e.scoped /\ x.aks = e.aks /\ x.gke = e.gke
    OBVIOUS
  <1> HIDE DEF x
  <1> QED
    BY <1>1, <1>2 DEF Insight!CloudReport

\* Only a report that misses nothing is ready, and it is the report of before.
LEMMA ReadyAccount ==
    ASSUME NEW d, NEW e, Less(d, e), Evidence(e),
           CloudOf(d).state = "AVAILABLE" \/ PlatformOf(d) # "eks"
    PROVE  Account!AwsReport(d.account) = Account!AwsReport(e.account)
  <1>1. Account!AwsReport(d.account).state \in {"AVAILABLE", "N/A"}
    <2>1. CASE PlatformOf(d) # "eks"
      BY <2>1, PlatformIsKnown
    <2>2. CASE PlatformOf(d) = "eks" /\ CloudOf(d).state = "AVAILABLE"
      <3> DEFINE aws == AwsEvidence(d.account, Account!AwsReport(d.account))
      <3>1. CloudOf(d) = Insight!EksReport(aws)
        BY <2>2, CloudMeans
      <3>2. aws.state = Account!AwsReport(d.account).state
        BY DEF AwsEvidence
      <3> HIDE DEF aws
      <3>3. aws.state = "absent" \/ Insight!EksReport(aws).state = aws.state
        BY DEF Insight!EksReport, Insight!Report
      <3>4. aws.state = "absent" => Insight!EksReport(aws).state = "UNAVAILABLE"
        BY DEF Insight!EksReport, Insight!Unassessed, Insight!Report
      <3> QED
        BY <2>2, <3>1, <3>2, <3>3, <3>4
    <2> QED
      BY <2>1, <2>2
  <1>2. d.account = e.account \/ \E k : Withheld(d.account, e.account, k)
    BY LessBesides
  <1>3. IsAccount(e.account)
    BY DEF Evidence
  <1> QED
    BY <1>1, <1>2, <1>3, CompleteReportsMissNothing

LEMMA ReadyCloud ==
    ASSUME NEW d, NEW e, Less(d, e), Evidence(e),
           CloudOf(d).state = "AVAILABLE" \/ PlatformOf(d) = "generic-kubernetes"
    PROVE  CloudOf(d) = CloudOf(e)
  <1>1. PlatformOf(d) = PlatformOf(e) /\ PlatformOf(d) \in {"eks", "aks", "gke", "generic-kubernetes"}
    BY PlatformLess, PlatformIsKnown
  <1>2. d.scoped = e.scoped /\ d.aks = e.aks /\ d.gke = e.gke
    BY LessLeaves DEF Untouched
  <1>3. /\ d.enabled => e.enabled
        /\ LessOf("cli", d.cli, e.cli) /\ Insight!ReadOnlyCommands \subseteq DOMAIN e.cli.answers
    BY LessBesides DEF Evidence
  <1>4. CASE PlatformOf(d) = "generic-kubernetes"
    BY <1>1, <1>4, CloudMeans
  <1>5. CASE PlatformOf(d) = "eks"
    <2>1. Account!AwsReport(d.account) = Account!AwsReport(e.account)
      BY <1>5, ReadyAccount
    <2>2. d.account = e.account \/ \E k : Withheld(d.account, e.account, k)
      BY LessBesides
    <2>3. AwsEvidence(d.account, Account!AwsReport(d.account)) = AwsEvidence(e.account, Account!AwsReport(e.account))
      BY <2>1, <2>2, AwsEvidenceLess
    <2> QED
      BY <1>1, <1>5, <2>3, CloudMeans
  <1>6. CASE PlatformOf(d) = "aks"
    <2>1. Insight!AksReport(d.cli, d.enabled, d.scoped, d.aks).state = "AVAILABLE"
      BY <1>6, CloudMeans
    <2>2. Insight!AksReport(d.cli, d.enabled, d.scoped, d.aks) = Insight!AksReport(e.cli, e.enabled, d.scoped, d.aks)
      BY <1>3, <2>1, AksLess
    <2> QED
      BY <1>1, <1>2, <1>6, <2>2, CloudMeans
  <1>7. CASE PlatformOf(d) = "gke"
    <2>1. Insight!GkeReport(d.cli, d.enabled, d.scoped, d.gke).state = "AVAILABLE"
      BY <1>7, CloudMeans
    <2>2. Insight!GkeReport(d.cli, d.enabled, d.scoped, d.gke) = Insight!GkeReport(e.cli, e.enabled, d.scoped, d.gke)
      BY <1>3, <2>1, GkeLess
    <2> QED
      BY <1>1, <1>2, <1>7, <2>2, CloudMeans
  <1> QED
    BY <1>1, <1>4, <1>5, <1>6, <1>7

\* The controls of what is left, where the AWS report is the same.
LEMMA ReadyControls ==
    ASSUME NEW d, NEW e, Less(d, e), Evidence(e), Account!AwsReport(d.account) = Account!AwsReport(e.account)
    PROVE  FewerJudged(Posture!Assess(InvOf(d), BesideOf(d)), Posture!Assess(InvOf(e), BesideOf(e)))
  <1>1. d.external = e.external /\ d.exceptions = e.exceptions
    BY LessLeaves DEF Untouched
  <1>2. BesideOf(d) = BesideOf(e)
    BY <1>1 DEF BesideOf
  <1>3. Narrower(InvOf(d), InvOf(e))
    <2>1. /\ DOMAIN d.inv = DOMAIN e.inv /\ d.inv.available \subseteq e.inv.available
          /\ \A g \in DOMAIN e.inv \ {"available"} : d.inv[g] = e.inv[g]
      <3>1. LessOf("inv", d.inv, e.inv)
        BY LessBesides
      <3> QED
        BY <3>1 DEF LessOf
    <2>2. IsInventory(e.inv)
      BY DEF Evidence
    <2> DEFINE who(inv) == IF Account!AwsReport(e.account).state = "AVAILABLE" THEN "AWS" ELSE inv.identity
               x == InvOf(d)
               y == InvOf(e)
    <2>3. x = [d.inv EXCEPT !.identity = who(d.inv)] /\ y = [e.inv EXCEPT !.identity = who(e.inv)]
      BY DEF InvOf
    <2>4. who(d.inv) = who(e.inv)
      BY <2>1, <2>2 DEF IsInventory
    <2> HIDE DEF who, x, y
    <2>5. /\ DOMAIN x = DOMAIN d.inv /\ x.identity = who(d.inv) /\ \A g \in DOMAIN d.inv \ {"identity"} : x[g] = d.inv[g]
          /\ DOMAIN y = DOMAIN e.inv /\ y.identity = who(e.inv) /\ \A g \in DOMAIN e.inv \ {"identity"} : y[g] = e.inv[g]
      BY <2>1, <2>2, <2>3 DEF IsInventory
    <2>6. /\ x.available = d.inv.available /\ y.available = e.inv.available
          /\ \A g \in {"workloads", "pods", "roles", "bindings", "services", "hooks", "policies", "namespaces", "protected",
                       "controlPlaneNodes"} : x[g] = d.inv[g] /\ y[g] = e.inv[g] /\ d.inv[g] = e.inv[g]
      BY <2>1, <2>2, <2>5 DEF IsInventory
    <2> QED
      BY <2>1, <2>4, <2>5, <2>6 DEF Narrower, x, y
  <1> QED
    BY <1>2, <1>3, ControlsLess

LEMMA ProviderCardinality == ASSUME NEW S PROVE Provider!Cardinality(S) = Cardinality(S)
  BY DEF Provider!Cardinality, Cardinality

\* Fewer lists cover less.
LEMMA CoverageOfLess ==
    ASSUME NEW x, NEW y, LessOf("resources", x, y), IsFiniteSet(DOMAIN y), NEW percent \in Int,
           Provider!Measurable(x), Provider!Covers(x, percent)
    PROVE  Provider!Measurable(y) /\ Provider!Covers(y, percent)
  <1>1. DOMAIN x = DOMAIN y /\ \A r \in DOMAIN y : x[r] = y[r] \/ (y[r] = "AVAILABLE" /\ x[r] = "UNAVAILABLE")
    BY DEF LessOf
  <1>2. Provider!Considered(x) = Provider!Considered(y)
    BY <1>1 DEF Provider!Considered
  <1>3. Provider!Listed(x) \subseteq Provider!Listed(y) /\ Provider!Listed(y) \subseteq DOMAIN y /\ Provider!Considered(y) \subseteq DOMAIN y
    BY <1>1 DEF Provider!Listed, Provider!Considered
  <1> DEFINE a == Cardinality(Provider!Listed(x))
             b == Cardinality(Provider!Listed(y))
             n == Cardinality(Provider!Considered(y))
  <1>4. a \in Nat /\ b \in Nat /\ n \in Nat /\ a <= b
    <2>1. IsFiniteSet(Provider!Listed(y)) /\ IsFiniteSet(Provider!Considered(y))
      BY <1>3, FS_Subset
    <2> QED
      BY <1>3, <2>1, FS_Subset, FS_CardinalityType
  <1>5. a * 100 >= percent * n
    BY <1>2, ProviderCardinality DEF Provider!Covers
  <1> HIDE DEF a, b, n
  <1>6. b * 100 >= percent * n
    <2>1. percent * n \in Int
      BY <1>4
    <2> QED
      BY <1>4, <1>5, <2>1
  <1> QED
    BY <1>2, <1>6, ProviderCardinality DEF Provider!Covers, Provider!Measurable, b, n

\* Where nothing is left to be told, nothing was lost.
LEMMA SpentLess ==
    ASSUME NEW p, NEW q, LessOf("budget", p.budget, q.budget), p.cloud = q.cloud,
           (Provider!Metrics \ {"cloudApiRequests"}) \cup {"elapsed"} \subseteq DOMAIN q.budget,
           \A m \in Provider!Metrics : Provider!Spent(p)[m] # Provider!None
    PROVE  Provider!Spent(p) = Provider!Spent(q)
  <1> DEFINE x == p.budget
             y == q.budget
             of(z, m) == IF m = "cloudApiRequests" THEN q.cloud.requests
                         ELSE IF m = "duration" /\ z.duration = Provider!None THEN z.elapsed ELSE z[m]
  <1>1. \A m \in DOMAIN y : x[m] = y[m] \/ (m # "duration" /\ x[m] = Provider!None)
    BY DEF LessOf, Insight!None, Provider!None
  <1>2. Provider!Spent(p) = [m \in Provider!Metrics |-> of(x, m)] /\ Provider!Spent(q) = [m \in Provider!Metrics |-> of(y, m)]
    BY DEF Provider!Spent
  <1>3. \A m \in Provider!Metrics : of(x, m) # Provider!None
    <2>1. \A m \in Provider!Metrics : Provider!Spent(p)[m] = of(x, m)
      BY <1>2
    <2> HIDE DEF of
    <2> QED
      BY <2>1
  <1>4. "duration" \in Provider!Metrics /\ "elapsed" \in DOMAIN y /\ "duration" \in DOMAIN y
        /\ \A m \in Provider!Metrics : m # "cloudApiRequests" => m \in DOMAIN y
    BY DEF Provider!Metrics
  <1>5. x.duration = y.duration
    BY <1>1, <1>4
  <1>6. x.duration = Provider!None => x.elapsed = y.elapsed
    BY <1>1, <1>3, <1>4
  <1>7. ASSUME NEW m \in Provider!Metrics PROVE of(x, m) = of(y, m)
    BY <1>1, <1>3, <1>4, <1>5, <1>6
  <1> HIDE DEF of, x, y
  <1> QED
    BY <1>2, <1>7

\* What the validator takes, it takes with the evidence that was lost.
LEMMA ValidLess ==
    ASSUME NEW d, NEW e, Less(d, e), Evidence(d), Evidence(e), Validation!Valid(Published(Collection(d))),
           FewerJudged(Collection(d).controls, Collection(e).controls)
    PROVE  Validation!Valid(Published(Collection(e)))
  <1> DEFINE b == Collection(d)
             p == Published(b)
  <1>1. \A f \in CollectedFields : b[f] = d[f]
    BY CollectionHolds
  <1>2. b.artifacts = d.artifacts /\ b.documents = d.documents /\ b.quality = d.quality
    BY <1>1 DEF CollectedFields, Written
  <1> HIDE DEF b
  <1>3. /\ p.files = [f \in b.artifacts |-> "json"] /\ p.comprehensiveVersion = <<4, 1>> /\ p.operationalVersion = <<1, 3>>
        /\ p.quality = b.quality /\ p.controls = b.controls /\ p.score = Posture!Summary(b.controls).posture
        /\ p.counts.workloads = Len(b.documents)
    BY DEF Published, PublishedWith
  <1>4. Validation!Valid(p)
    BY DEF b
  <1> HIDE DEF p
  <1>5. /\ Validation!Files(p) /\ Validation!InventorySound(p.counts) /\ Validation!FindingsSound(p.findings, p.quality)
        /\ \A id \in DOMAIN p.controls : Validation!CisControlSound(p.controls[id])
        /\ p.score # -1
    BY <1>4 DEF Validation!Valid
  <1>6. /\ Validation!Required \subseteq b.artifacts /\ Validation!BlueGreenArtifacts \subseteq b.artifacts
        /\ "manifest-schema-validation" \in b.artifacts
    BY <1>3, <1>5 DEF Validation!Files, Validation!VersionAtLeast
  <1>7. d.artifacts \subseteq e.artifacts /\ d.documents = e.documents /\ d.quality = e.quality
    <2>1. d.artifacts \subseteq e.artifacts
      BY LessBesides
    <2> QED
      BY <2>1, LessLeaves DEF Untouched
  <1>8. /\ Validation!Required \subseteq e.artifacts /\ Validation!BlueGreenArtifacts \subseteq e.artifacts
        /\ "manifest-schema-validation" \in e.artifacts
    BY <1>2, <1>6, <1>7
  <1>9. e.documents # <<>>
    <2>1. Len(d.documents) > 0
      BY <1>2, <1>3, <1>5 DEF Validation!InventorySound
    <2> QED
      BY <1>7, <2>1
  <1>10. \A k \in DOMAIN e.quality : e.quality[k] = 0
    BY <1>2, <1>3, <1>5, <1>7 DEF Validation!FindingsSound
  <1>11. IsFiniteSet(DOMAIN Collection(e).controls)
    BY CollectedControlsAreFinite
  <1> DEFINE c == Collection(e)
  <1>12. /\ Posture!Summary(c.controls).posture # -1
         /\ \A id \in DOMAIN c.controls : Validation!CisControlSound(c.controls[id])
    <2>1. FewerJudged(b.controls, c.controls) /\ IsFiniteSet(DOMAIN c.controls)
      BY <1>11 DEF b
    <2>2. /\ Posture!Summary(b.controls).posture # -1
          /\ \A id \in DOMAIN b.controls : Validation!CisControlSound(b.controls[id])
      BY <1>3, <1>5
    <2> HIDE DEF c
    <2> QED
      BY <2>1, <2>2, ScoresOfLess
  <1> QED
    BY <1>8, <1>9, <1>10, <1>12, PublishedIsValid

\* The verdict on a provider is no better without the evidence that was lost.
LEMMA ProviderLess ==
    ASSUME NEW d, NEW e, Less(d, e), Evidence(d), Evidence(e), ProviderVerdict(Collection(d)).releaseReady
    PROVE  ProviderVerdict(Collection(e)).releaseReady
  <1> DEFINE p == ProviderEvidence(Collection(d))
             q == ProviderEvidence(Collection(e))
  <1>1. /\ p.expected = d.expected /\ p.completed = d.completed
        /\ p.sources = [kubernetes |-> PlatformOf(d), cloud |-> CloudOf(d).provider, insights |-> InsightsPlatformOf(d)]
        /\ p.validator = IF Validation!Valid(Published(Collection(d))) THEN "ok" ELSE "failed"
        /\ p.cloud = CloudOf(d)
        /\ p.operationalRules = Insight!ProviderRules(InsightsPlatformOf(d), CloudOf(d).rules)
        /\ p.controls = Posture!Assess(InvOf(d), BesideOf(d))
        /\ p.quality = d.quality /\ p.resources = d.resources /\ p.budget = d.budget
    BY ProviderReads
  <1>2. /\ q.expected = e.expected /\ q.completed = e.completed
        /\ q.status = IF e.completed THEN "COMPLETED" ELSE "PARTIAL"
        /\ q.sources = [kubernetes |-> PlatformOf(e), cloud |-> CloudOf(e).provider, insights |-> InsightsPlatformOf(e)]
        /\ q.validator = IF Validation!Valid(Published(Collection(e))) THEN "ok" ELSE "failed"
        /\ q.cloud = CloudOf(e)
        /\ q.operationalRules = Insight!ProviderRules(InsightsPlatformOf(e), CloudOf(e).rules)
        /\ q.controls = Posture!Assess(InvOf(e), BesideOf(e))
        /\ q.quality = e.quality /\ q.resources = e.resources /\ q.budget = e.budget
    BY ProviderReads
  <1>3. ProviderNeeds(p, ProviderLimits)
    BY ReadyNeeds DEF ProviderVerdict
  <1>4. /\ Provider!ReadOnly(p) = Provider!ReadOnly(q) /\ Provider!Protection(p) = Provider!Protection(q)
    BY AlwaysSafe
  <1>5. /\ Collection(d).controls = Posture!Assess(InvOf(d), BesideOf(d))
        /\ Collection(e).controls = Posture!Assess(InvOf(e), BesideOf(e))
    BY CollectionHolds
  <1> HIDE DEF p, q
  <1>6. d.expected = e.expected /\ d.quality = e.quality /\ d.hints = e.hints
    BY LessLeaves DEF Untouched
  <1>7. PlatformOf(d) = d.expected /\ PlatformOf(d) = PlatformOf(e)
    <2>1. "kubernetes" \in DOMAIN p.sources /\ p.sources["kubernetes"] = PlatformOf(d)
      BY <1>1
    <2>2. \A source \in DOMAIN p.sources : p.sources[source] = p.expected
      BY <1>3 DEF ProviderNeeds
    <2> QED
      BY <1>1, <2>1, <2>2, PlatformLess
  <1>8. CloudOf(d).state = "AVAILABLE" \/ PlatformOf(d) = "generic-kubernetes"
    BY <1>1, <1>3, <1>7 DEF ProviderNeeds
  <1>9. CloudOf(d) = CloudOf(e)
    BY <1>8, ReadyCloud
  <1>10. Account!AwsReport(d.account) = Account!AwsReport(e.account)
    BY <1>8, ReadyAccount
  <1>11. InsightsPlatformOf(d) = InsightsPlatformOf(e)
    BY <1>6, <1>9 DEF InsightsPlatformOf
  <1>12. FewerJudged(p.controls, q.controls)
    BY <1>1, <1>2, <1>10, ReadyControls
  <1>13. q.status = "COMPLETED" /\ q.completed
    <2>1. d.completed = e.completed \/ d.completed = FALSE
      BY LessBesides
    <2>2. p.completed
      BY <1>3 DEF ProviderNeeds
    <2> QED
      BY <1>1, <1>2, <2>1, <2>2
  <1>14. \A source \in DOMAIN q.sources : q.sources[source] = q.expected
    <2>1. p.sources = q.sources /\ p.expected = q.expected
      BY <1>1, <1>2, <1>6, <1>7, <1>9, <1>11
    <2> QED
      BY <1>3, <2>1 DEF ProviderNeeds
  <1>15. q.validator = "ok"
    <2>1. Validation!Valid(Published(Collection(d)))
      BY <1>1, <1>3 DEF ProviderNeeds
    <2>2. FewerJudged(Collection(d).controls, Collection(e).controls)
      BY <1>1, <1>2, <1>5, <1>12
    <2> QED
      BY <1>2, <2>1, <2>2, ValidLess
  <1>16. p.expected = q.expected /\ p.cloud = q.cloud /\ p.operationalRules = q.operationalRules /\ p.quality = q.quality
    BY <1>1, <1>2, <1>6, <1>9, <1>11
  <1>17. Provider!CloudRulesApply(q) /\ Provider!OperationalRulesApply(q)
    <2>1. Provider!CloudRulesApply(p) /\ Provider!OperationalRulesApply(p)
      BY <1>3 DEF ProviderNeeds
    <2> QED
      BY <1>16, <2>1 DEF Provider!CloudRulesApply, Provider!OperationalRulesApply
  <1>18. Provider!ControlPlaneApplies(q)
    <2>1. Provider!ControlPlaneApplies(p)
      BY <1>3 DEF ProviderNeeds
    <2>2. DOMAIN p.controls = DOMAIN q.controls /\ \A id \in DOMAIN q.controls \cap ControlPlaneIds : p.controls[id] = q.controls[id]
      BY <1>12 DEF FewerJudged
    <2> QED
      BY <1>16, <2>1, <2>2 DEF Provider!ControlPlaneApplies, ControlPlaneIds
  <1>19. \A k \in DOMAIN q.quality : q.quality[k] = 0
    BY <1>3, <1>16 DEF ProviderNeeds
  <1>20. Provider!Measurable(q.resources) /\ Provider!Covers(q.resources, ProviderLimits.kubernetesCoverage)
    <2>1. ProviderLimits.kubernetesCoverage \in Int
      BY ProviderLimitsAssumption DEF Provider!ValidThresholds
    <2>2. Provider!Measurable(p.resources) /\ Provider!Covers(p.resources, ProviderLimits.kubernetesCoverage)
      BY <1>3 DEF ProviderNeeds
    <2>3. LessOf("resources", p.resources, q.resources) /\ IsFiniteSet(DOMAIN q.resources)
      <3>1. LessOf("resources", d.resources, e.resources)
        BY LessBesides
      <3>2. IsFiniteSet(DOMAIN e.resources)
        BY DEF Evidence
      <3> QED
        BY <1>1, <1>2, <3>1, <3>2
    <2> QED
      BY <2>1, <2>2, <2>3, CoverageOfLess
  <1>21. Provider!Spent(p) = Provider!Spent(q)
    <2>1. \A m \in Provider!Metrics : Provider!Spent(p)[m] # Provider!None
      BY <1>3 DEF ProviderNeeds
    <2>2. LessOf("budget", p.budget, q.budget)
      <3>1. LessOf("budget", d.budget, e.budget)
        BY LessBesides
      <3> QED
        BY <1>1, <1>2, <3>1
    <2>3. (Provider!Metrics \ {"cloudApiRequests"}) \cup {"elapsed"} \subseteq DOMAIN q.budget
      BY <1>2 DEF Evidence
    <2> QED
      BY <1>16, <2>1, <2>2, <2>3, SpentLess
  <1>22. ProviderNeeds(q, ProviderLimits)
    BY <1>3, <1>4, <1>13, <1>14, <1>15, <1>16, <1>17, <1>18, <1>19, <1>20, <1>21 DEF ProviderNeeds
  <1> QED
    BY <1>22, ReadyNeeds DEF ProviderVerdict, q

\* A verdict that lets work go on with less evidence lets it go on with all of it.
LEMMA ApprovalsLess ==
    ASSUME NEW d, NEW e, Less(d, e), Evidence(d), Evidence(e), NEW source, NEW mapping
    PROVE  ApprovalsOf(source, Collection(d), mapping) \subseteq ApprovalsOf(source, Collection(e), mapping)
  <1>1. Weakened(Collection(d), Collection(e))
    BY LessIsWeakened
  <1>2. Migration!Readiness(Collection(d)) = "GO" => Migration!Readiness(Collection(e)) = "GO"
    BY <1>1, ReadinessLess
  <1>3. Migration!Migration(source, Collection(d), mapping) = "GO" => Migration!Migration(source, Collection(e), mapping) = "GO"
    BY <1>1, MigrationLess
  <1>4. ProviderVerdict(Collection(d)).releaseReady => ProviderVerdict(Collection(e)).releaseReady
    BY ProviderLess
  <1>5. \A target :
           ApprovalsOf(source, target, mapping) =
              {v \in {"cutover", "migration", "provider"} :
                  \/ v = "cutover" /\ Migration!Readiness(target) = "GO"
                  \/ v = "migration" /\ Migration!Migration(source, target, mapping) = "GO"
                  \/ v = "provider" /\ ProviderVerdict(target).releaseReady}
    BY DEF ApprovalsOf
  <1> QED
    BY <1>2, <1>3, <1>4, <1>5

\* generate, evaluate and the gates of blue_green_readiness.py, migration_gate.py and
\* provider_validation.py: whatever evidence a source and a target have, a collection of
\* the same cluster that lost some of what Weaker names is approved by no gate that did
\* not approve of it before.  What Weaker leaves out is not among it.
THEOREM LostEvidenceApprovesNothing == GatesSpec => WithdrawnEvidenceNeverApproves
  <1> DEFINE Judged == subject = "collection" => answer = Approvals(given)
             Safer == subject = "collection" => answer' \subseteq answer
  <1>1. GatesInit => Judged
    BY DEF GatesInit
  <1>2. Judged /\ [GatesNext]_gatesVars => Judged'
    <2> SUFFICES ASSUME Judged, [GatesNext]_gatesVars, subject' = "collection"
                 PROVE  answer' = Approvals(given')
      OBVIOUS
    <2>1. CASE Withdraw
      BY <2>1 DEF Withdraw
    <2>2. CASE Ask \/ Accept \/ Verify
      BY <2>2 DEF Ask, Accept, Verify
    <2>3. CASE UNCHANGED gatesVars
      <3>1. subject = "collection" /\ answer' = answer /\ given' = given
        BY <2>3 DEF gatesVars
      <3>2. answer = Approvals(given)
        BY <3>1
      <3> QED
        BY <3>1, <3>2
    <2> QED
      BY <2>1, <2>2, <2>3 DEF GatesNext
  <1>3. (subject = "collection" => Losing(given)) /\ Judged /\ [GatesNext]_gatesVars => [Safer]_gatesVars
    <2> SUFFICES ASSUME Losing(given), answer = Approvals(given), GatesNext, subject = "collection"
                 PROVE  answer' \subseteq answer
      BY DEF gatesVars
    <2>1. CASE Withdraw
      <3>1. /\ Losing(given') /\ Less(given'.target, given.target)
            /\ given'.source = given.source /\ given'.mapping = given.mapping
        BY <2>1, WithdrawLoses
      <3>2. Evidence(given'.target) /\ Evidence(given.target)
        BY <3>1 DEF Losing
      <3>3. ApprovalsOf(given.source, Collection(given'.target), given.mapping)
               \subseteq ApprovalsOf(given.source, Collection(given.target), given.mapping)
        BY <3>1, <3>2, ApprovalsLess
      <3>4. answer' = ApprovalsOf(given'.source, Collection(given'.target), given'.mapping)
        BY <2>1 DEF Withdraw, Approvals
      <3>5. answer = ApprovalsOf(given.source, Collection(given.target), given.mapping)
        BY DEF Approvals
      <3> QED
        BY <3>1, <3>3, <3>4, <3>5
    <2>2. CASE Ask \/ Accept \/ Verify
      BY <2>2 DEF Ask, Accept, Verify
    <2> QED
      BY <2>1, <2>2 DEF GatesNext
  <1> QED
    BY <1>1, <1>2, <1>3, PairsKeepLosing, PTL DEF GatesSpec, WithdrawnEvidenceNeverApproves
=============================================================================
