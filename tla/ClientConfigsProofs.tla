------------------------ MODULE ClientConfigsProofs ------------------------
(***************************************************************************)
(* That an access link works after a deploy, for any subscriptions, nodes, *)
(* regions, limits and any width of a float: which subscriptions become    *)
(* clients does not depend on what happens to their limits.                *)
(*                                                                         *)
(* The claim is about active configs; the inductive one is about the       *)
(* newest deploy since which no subscription changed, active or not: its   *)
(* clients are those the query selects now.                                *)
(*                                                                         *)
(* Then what happens to the limits.  That a number up to 2^Mantissa keeps  *)
(* its digits through a float64 needs how powers grow, an induction; it is *)
(* done over sets of numbers (Induction), since a set can be cited.        *)
(***************************************************************************)
EXTENDS ClientConfigs, SequenceTheorems, WellFoundedInduction, TLAPS

\* Revisions over some set of texts.
RevisionOver(T) ==
  [text : T, hashed : T, status : {"pending", "applied", "failed", "refused"}]

\* What the proof needs of types.  Nothing is said of a revision's limits.
Shape ==
  /\ DOMAIN subs = Subscription
  /\ fresh \in [Node -> Nat]
  /\ DOMAIN revisions = Node
  /\ \A n \in Node : \E T : revisions[n] \in Seq(RevisionOver(T))

\* A node's latest deploy, while no subscription changed since, carries the clients
\* it would be given now.
FreshIsCurrent ==
  \A n \in Node : fresh[n] # 0 =>
    /\ fresh[n] \in 1..Len(revisions[n])
    /\ Clients(revisions[n][fresh[n]]) = ConfigSubscriptionInputs(n)

IInv == Shape /\ FreshIsCurrent

\* Appending a signed revision keeps those that were there.
LEMMA AppendKeeps ==
  ASSUME NEW U, NEW s \in Seq(RevisionOver(U)), NEW text, NEW hashed,
         NEW x, x = [text |-> text, hashed |-> hashed, status |-> "pending"]
  PROVE  /\ \E T : Append(s, x) \in Seq(RevisionOver(T))
         /\ Len(s) \in Nat
         /\ Len(Append(s, x)) = Len(s) + 1
         /\ \A i \in 1..Len(s) : Append(s, x)[i] = s[i]
         /\ Append(s, x)[Len(s) + 1] = x
<1> DEFINE T == U \cup {text, hashed}
<1>1. RevisionOver(U) \subseteq RevisionOver(T) /\ x \in RevisionOver(T)
  BY DEF RevisionOver
<1> HIDE DEF T
<1>2. s \in Seq(RevisionOver(T))
  <2> DEFINE A == RevisionOver(U)
             B == RevisionOver(T)
  <2>1. s \in Seq(A) /\ A \subseteq B
    BY <1>1
  <2> HIDE DEF A, B
  <2>2. s \in Seq(B)
    BY <2>1
  <2> QED BY <2>2 DEF B
<1>3. Append(s, x) \in Seq(RevisionOver(T))
  BY <1>1, <1>2
<1> QED BY <1>1, <1>2, <1>3

\* Nothing is fresh in the beginning.
LEMMA InitIInv == Init => IInv
<1> SUFFICES ASSUME Init PROVE IInv
  OBVIOUS
<1>1. << >> \in Seq(RevisionOver({}))
  BY EmptySeq
<1>2. \A n \in Node : revisions[n] \in Seq(RevisionOver({}))
  BY <1>1 DEF Init
<1> QED BY <1>2 DEF Init, IInv, Shape, FreshIsCurrent

\* Sign appends one revision to those of one node.
LEMMA SignKeeps ==
  ASSUME Shape, NEW n \in Node, NEW text, NEW hashed, Sign(n, text, hashed)
  PROVE  /\ DOMAIN revisions' = Node
         /\ \A m \in Node : \E T : revisions'[m] \in Seq(RevisionOver(T))
         /\ \A m \in Node : \A i \in 1..Len(revisions[m]) :
              i \in 1..Len(revisions'[m]) /\ revisions'[m][i] = revisions[m][i]
         /\ Len(revisions[n]) + 1 \in 1..Len(revisions'[n])
         /\ revisions'[n][Len(revisions[n]) + 1].text = text
         /\ Len(revisions[n]) \in Nat
<1> DEFINE x == [text |-> text, hashed |-> hashed, status |-> "pending"]
<1>1. revisions' = [revisions EXCEPT ![n] = Append(@, x)] /\ x.text = text
      /\ x = [text |-> text, hashed |-> hashed, status |-> "pending"]
  BY DEF Sign
<1> HIDE DEF x
<1>2. DOMAIN revisions' = Node /\ revisions'[n] = Append(revisions[n], x)
      /\ \A m \in Node : m # n => revisions'[m] = revisions[m]
  BY <1>1 DEF Shape
<1>3. PICK U : revisions[n] \in Seq(RevisionOver(U))
  BY DEF Shape
<1>4. /\ \E T : revisions'[n] \in Seq(RevisionOver(T))
      /\ Len(revisions[n]) \in Nat
      /\ Len(revisions'[n]) = Len(revisions[n]) + 1
      /\ \A i \in 1..Len(revisions[n]) : revisions'[n][i] = revisions[n][i]
      /\ revisions'[n][Len(revisions[n]) + 1] = x
  BY <1>1, <1>2, <1>3, AppendKeeps
<1>5. \A m \in Node : \E T : revisions'[m] \in Seq(RevisionOver(T))
  BY <1>2, <1>4 DEF Shape
<1>6. \A m \in Node : \A i \in 1..Len(revisions[m]) :
        i \in 1..Len(revisions'[m]) /\ revisions'[m][i] = revisions[m][i]
  BY <1>2, <1>4
<1> QED BY <1>1, <1>2, <1>4, <1>5, <1>6

\* Every step keeps both: a deploy makes its number fresh, a change of a
\* subscription leaves nothing fresh, a rollback appends behind the fresh one,
\* and a verdict changes neither clients nor the order.
LEMMA StepIInv == IInv /\ [Next]_vars => IInv'
<1> SUFFICES ASSUME IInv, [Next]_vars PROVE IInv'
  OBVIOUS
<1> USE DEF IInv
<1>1. ASSUME NEW s \in Subscription, SubscriptionChanges(s)
      PROVE  IInv'
  BY <1>1 DEF SubscriptionChanges, Shape, FreshIsCurrent
<1>2. ASSUME NEW n \in Node, NodeChanges(n)
      PROVE  IInv'
  <2>1. UNCHANGED <<subs, revisions, fresh>>
    BY <1>2 DEF NodeChanges
  <2> QED BY <2>1 DEF Shape, FreshIsCurrent, ConfigSubscriptionInputs, Clients
<1>3. ASSUME NEW n \in Node, CreateDummyConfigRevision(n)
      PROVE  IInv'
  <2> DEFINE number == Len(revisions[n]) + 1
             text == Text(number, "deploy",
                          [s \in ConfigSubscriptionInputs(n) |-> subs[s].limit])
  <2>1. /\ Sign(n, text, text)
        /\ fresh' = [fresh EXCEPT ![n] = number]
        /\ subs' = subs
    BY <1>3 DEF CreateDummyConfigRevision
  <2>2. DOMAIN text.limits = ConfigSubscriptionInputs(n)
    BY DEF Text
  <2> HIDE DEF text
  <2>3. \A m \in Node : ConfigSubscriptionInputs(m)' = ConfigSubscriptionInputs(m)
    BY <2>1 DEF ConfigSubscriptionInputs
  <2>4. Shape'
    BY <2>1, SignKeeps DEF Shape
  <2>5. fresh'[n] \in 1..Len(revisions'[n])
        /\ Clients(revisions'[n][fresh'[n]]) = ConfigSubscriptionInputs(n)
    BY <2>1, <2>2, SignKeeps DEF Shape, Clients
  <2>6. ASSUME NEW m \in Node, m # n, fresh'[m] # 0
        PROVE  fresh'[m] \in 1..Len(revisions'[m])
               /\ Clients(revisions'[m][fresh'[m]]) = ConfigSubscriptionInputs(m)
    BY <2>1, <2>6, SignKeeps DEF Shape, FreshIsCurrent, Clients
  <2>7. FreshIsCurrent'
    BY <2>3, <2>5, <2>6 DEF FreshIsCurrent, Clients
  <2> QED BY <2>4, <2>7
<1>4. ASSUME NEW n \in Node, NEW k \in 1..Len(revisions[n]),
             CreateRollbackConfigRevision(n, k)
      PROVE  IInv'
  <2>1. PICK text : Sign(n, text, text)
    BY <1>4 DEF CreateRollbackConfigRevision
  <2>2. UNCHANGED <<subs, fresh>>
    BY <1>4 DEF CreateRollbackConfigRevision
  <2>3. Shape'
    BY <2>1, <2>2, SignKeeps DEF Shape
  <2>4. \A m \in Node : ConfigSubscriptionInputs(m)' = ConfigSubscriptionInputs(m)
    BY <2>2 DEF ConfigSubscriptionInputs
  <2>5. ASSUME NEW m \in Node, fresh'[m] # 0
        PROVE  fresh'[m] \in 1..Len(revisions'[m])
               /\ Clients(revisions'[m][fresh'[m]]) = ConfigSubscriptionInputs(m)
    BY <2>1, <2>2, <2>5, SignKeeps DEF Shape, FreshIsCurrent, Clients
  <2>6. FreshIsCurrent'
    BY <2>4, <2>5 DEF FreshIsCurrent, Clients
  <2> QED BY <2>3, <2>6
<1>5. ASSUME NEW n \in Node, NEW k \in 1..Len(revisions[n]), Decide(n, k)
      PROVE  IInv'
  <2>1. PICK verdict \in {"applied", "failed", "refused"} :
          revisions' = [revisions EXCEPT ![n][k].status = verdict]
    BY <1>5 DEF Decide
  <2>2. UNCHANGED <<subs, fresh>>
    BY <1>5 DEF Decide
  <2>3. PICK T : revisions[n] \in Seq(RevisionOver(T))
    BY DEF Shape
  <2> DEFINE row == [revisions[n][k] EXCEPT !.status = verdict]
  <2>4. revisions[n][k] \in RevisionOver(T)
    BY <2>3
  <2>5. row \in RevisionOver(T) /\ row.text = revisions[n][k].text
    BY <2>4 DEF RevisionOver
  <2>6. /\ DOMAIN revisions' = Node
        /\ revisions'[n] = [revisions[n] EXCEPT ![k] = row]
        /\ \A m \in Node : m # n => revisions'[m] = revisions[m]
    BY <2>1 DEF Shape
  <2> HIDE DEF row
  <2>7. /\ revisions'[n] \in Seq(RevisionOver(T))
        /\ Len(revisions'[n]) = Len(revisions[n])
        /\ \A i \in 1..Len(revisions[n]) :
             revisions'[n][i].text = revisions[n][i].text
    BY <2>3, <2>5, <2>6
  <2>8. Shape'
    BY <2>2, <2>6, <2>7 DEF Shape
  <2>9. \A m \in Node :
          /\ Len(revisions'[m]) = Len(revisions[m])
          /\ \A i \in 1..Len(revisions[m]) :
               revisions'[m][i].text = revisions[m][i].text
    BY <2>6, <2>7
  <2>10. FreshIsCurrent'
    BY <2>2, <2>9 DEF FreshIsCurrent, Clients, ConfigSubscriptionInputs
  <2> QED BY <2>8, <2>10
<1>6. CASE UNCHANGED vars
  BY <1>6 DEF vars, Shape, FreshIsCurrent, ConfigSubscriptionInputs, Clients
<1> QED BY <1>1, <1>2, <1>3, <1>4, <1>5, <1>6 DEF Next

\* In every state, whatever changes of subscriptions, deploys, rollbacks and
\* verdicts led there: a node that Access may export for a subscription serves
\* it, if its active config is a deploy since which no subscription changed.
THEOREM LinksWork == Spec => []LinkWorksAfterDeploy
<1>1. IInv => LinkWorksAfterDeploy
  <2> SUFFICES ASSUME IInv, NEW s \in Subscription, NEW n \in AccessNodes(s),
                      fresh[n] # 0
               PROVE  s \in Clients(revisions[n][fresh[n]])
    BY DEF LinkWorksAfterDeploy
  <2>1. n \in Node /\ s \in ConfigSubscriptionInputs(n)
    BY DEF AccessNodes, ConfigSubscriptionInputs
  <2> QED BY <2>1 DEF IInv, FreshIsCurrent
<1> QED BY <1>1, InitIInv, StepIInv, PTL DEF Spec

-----------------------------------------------------------------------------
(* Induction *)

\* Every set of numbers that is not empty has a smallest one.
LEMMA Smallest ==
  ASSUME NEW T \in SUBSET Nat, T # {}
  PROVE  \E m \in T : \A k \in T : m <= k
<1>1. \E m \in T : \A k \in T : <<k, m>> \notin OpToRel(<, Nat)
  BY NatLessThanWellFounded, WFMin
<1>2. OpToRel(<, Nat) = {ss \in Nat \X Nat : ss[1] < ss[2]}
  BY Zenon DEF OpToRel
<1>3. \E m \in T : \A k \in T : <<k, m>> \notin {ss \in Nat \X Nat : ss[1] < ss[2]}
  BY <1>1, <1>2, Zenon
<1>4. PICK m \in T : \A k \in T : <<k, m>> \notin {ss \in Nat \X Nat : ss[1] < ss[2]}
  BY <1>3
<1>5. ASSUME NEW k \in T PROVE m <= k
  <2>1. k \in Nat /\ m \in Nat
    OBVIOUS
  <2>2. <<k, m>> \in Nat \X Nat => ~(k < m)
    BY <1>4
  <2> QED BY <2>1, <2>2
<1> QED BY <1>5

\* Induction, over a set instead of a predicate.
LEMMA Induction ==
  ASSUME NEW T \in SUBSET Nat, 0 \in T, \A k \in T : k + 1 \in T
  PROVE  T = Nat
<1> SUFFICES ASSUME Nat \ T # {} PROVE FALSE
  OBVIOUS
<1>1. PICK m \in Nat \ T : \A k \in Nat \ T : m <= k
  BY Smallest
<1>2. m - 1 \in Nat /\ m - 1 \in T
  BY <1>1
<1> QED BY <1>1, <1>2

-----------------------------------------------------------------------------
(* Powers *)

\* The first powers, up to that of k.
Powers(base, k) ==
  {g \in [0..k -> Nat] : g[0] = 1 /\ \A i \in 1..k : g[i] = base * g[i - 1]}

\* There is a list of powers of any length.
LEMMA PowersExist ==
  ASSUME NEW base \in Nat
  PROVE  \A k \in Nat : Powers(base, k) # {}
<1> DEFINE T == {k \in Nat : Powers(base, k) # {}}
<1>1. 0 \in T
  <2>1. [i \in 0..0 |-> 1] \in Powers(base, 0)
    BY DEF Powers
  <2> QED BY <2>1
<1>2. ASSUME NEW k \in T PROVE k + 1 \in T
  <2>1. k \in Nat
    OBVIOUS
  <2>2. PICK g \in Powers(base, k) : TRUE
    OBVIOUS
  <2>3. g \in [0..k -> Nat] /\ g[0] = 1 /\ \A i \in 1..k : g[i] = base * g[i - 1]
    BY <2>2 DEF Powers
  <2> DEFINE h == [i \in 0..(k + 1) |-> IF i = k + 1 THEN base * g[k] ELSE g[i]]
  <2>4. base * g[k] \in Nat
    <3>1. g[k] \in Nat
      BY <2>1, <2>3
    <3> QED BY <3>1
  <2>5. \A i \in 0..(k + 1) : h[i] \in Nat
    BY <2>1, <2>3, <2>4
  <2>6. h \in [0..(k + 1) -> Nat] /\ h[0] = 1
    BY <2>1, <2>3, <2>5
  <2>7. ASSUME NEW i \in 1..(k + 1) PROVE h[i] = base * h[i - 1]
    <3>1. i \in 0..(k + 1) /\ i - 1 \in 0..(k + 1) /\ i - 1 # k + 1
      BY <2>1
    <3>2. h[i - 1] = g[i - 1]
      BY <3>1
    <3>3. CASE i = k + 1
      BY <2>1, <3>1, <3>2, <3>3
    <3>4. CASE i # k + 1
      BY <2>1, <2>3, <3>1, <3>2, <3>4
    <3> QED BY <3>3, <3>4
  <2> HIDE DEF h
  <2>8. h \in Powers(base, k + 1)
    BY <2>6, <2>7 DEF Powers
  <2> QED BY <2>1, <2>8
<1> HIDE DEF T
<1>3. T \in SUBSET Nat
  BY DEF T
<1>4. T = Nat
  BY <1>1, <1>2, <1>3, Induction
<1> QED BY <1>4 DEF T

\* Two lists of powers agree as far as both go.
LEMMA PowersUnique ==
  ASSUME NEW base \in Nat, NEW k \in Nat, NEW l \in Nat,
         NEW g \in Powers(base, k), NEW h \in Powers(base, l)
  PROVE  \A i \in 0..k \cap 0..l : g[i] = h[i]
<1> DEFINE T == {i \in Nat : i <= k /\ i <= l => g[i] = h[i]}
<1>1. /\ g[0] = 1 /\ \A i \in 1..k : g[i] = base * g[i - 1]
      /\ h[0] = 1 /\ \A i \in 1..l : h[i] = base * h[i - 1]
  BY DEF Powers
<1>2. 0 \in T
  BY <1>1
<1>3. ASSUME NEW i \in T PROVE i + 1 \in T
  <2> SUFFICES ASSUME i + 1 <= k, i + 1 <= l PROVE g[i + 1] = h[i + 1]
    OBVIOUS
  <2>1. i + 1 \in 1..k /\ i + 1 \in 1..l /\ (i + 1) - 1 = i /\ g[i] = h[i]
    OBVIOUS
  <2> QED BY <1>1, <2>1
<1> HIDE DEF T
<1>4. T = Nat
  <2>1. T \in SUBSET Nat
    BY DEF T
  <2> QED BY <1>2, <1>3, <2>1, Induction
<1> QED BY <1>4 DEF T

\* Power is defined by its recursion: the function that takes its value at k
\* from the powers up to k satisfies it.
LEMMA PowerDef ==
  ASSUME NEW base \in Nat
  PROVE  Power(base) = [k \in Nat |-> IF k = 0 THEN 1 ELSE base * Power(base)[k - 1]]
<1> DEFINE G(k) == CHOOSE g \in Powers(base, k) : TRUE
           f == [k \in Nat |-> G(k)[k]]
<1>1. \A k \in Nat : G(k) \in Powers(base, k)
  BY PowersExist
<1> HIDE DEF G
<1>2. ASSUME NEW k \in Nat
      PROVE  f[k] = IF k = 0 THEN 1 ELSE base * f[k - 1]
  <2>1. CASE k = 0
    BY <1>1, <2>1 DEF Powers
  <2>2. CASE k # 0
    <3>1. k - 1 \in Nat /\ k \in 1..k
      BY <2>2
    <3>2. G(k)[k] = base * G(k)[k - 1]
      BY <1>1, <3>1 DEF Powers
    <3>3. G(k)[k - 1] = G(k - 1)[k - 1]
      <4>1. k - 1 \in 0..k \cap 0..(k - 1)
        BY <3>1
      <4> QED BY <1>1, <3>1, <4>1, PowersUnique
    <3> QED BY <2>2, <3>1, <3>2, <3>3
  <2> QED BY <2>1, <2>2
<1>3. f = [k \in Nat |-> IF k = 0 THEN 1 ELSE base * f[k - 1]]
  BY <1>2
<1> HIDE DEF f
<1>4. \E p : p = [k \in Nat |-> IF k = 0 THEN 1 ELSE base * p[k - 1]]
  BY <1>3
<1> QED BY <1>4, Zenon DEF Power

\* Powers of a positive number grow.
LEMMA PowerFacts ==
  ASSUME NEW base \in Nat \ {0}
  PROVE  /\ Power(base)[0] = 1
         /\ \A k \in Nat : Power(base)[k] \in Nat \ {0}
         /\ \A k \in Nat : Power(base)[k + 1] = base * Power(base)[k]
<1>1. \A k \in Nat : Power(base)[k] = IF k = 0 THEN 1 ELSE base * Power(base)[k - 1]
  <2> DEFINE P == Power(base)
  <2>1. P = [k \in Nat |-> IF k = 0 THEN 1 ELSE base * P[k - 1]]
    BY PowerDef
  <2> HIDE DEF P
  <2>2. \A k \in Nat : P[k] = [i \in Nat |-> IF i = 0 THEN 1 ELSE base * P[i - 1]][k]
    BY <2>1, Zenon
  <2>3. \A k \in Nat : P[k] = IF k = 0 THEN 1 ELSE base * P[k - 1]
    BY <2>2
  <2> QED BY <2>3 DEF P
<1>2. \A k \in Nat : Power(base)[k + 1] = base * Power(base)[k]
  <2> SUFFICES ASSUME NEW k \in Nat PROVE Power(base)[k + 1] = base * Power(base)[k]
    OBVIOUS
  <2>1. k + 1 \in Nat /\ k + 1 # 0 /\ (k + 1) - 1 = k
    OBVIOUS
  <2> QED BY <1>1, <2>1
<1> DEFINE T == {k \in Nat : Power(base)[k] \in Nat \ {0}}
<1>3. 0 \in T
  BY <1>1
<1>4. ASSUME NEW k \in T PROVE k + 1 \in T
  <2>1. Power(base)[k] \in Nat \ {0} /\ Power(base)[k + 1] = base * Power(base)[k]
    BY <1>2
  <2>2. \A x, y \in Nat \ {0} : x * y \in Nat \ {0}
    OBVIOUS
  <2> QED BY <2>1, <2>2
<1>5. T \in SUBSET Nat
  OBVIOUS
<1> HIDE DEF T
<1>6. T = Nat
  BY <1>3, <1>4, <1>5, Induction
<1> QED BY <1>1, <1>2, <1>6 DEF T

\* They never fall.
LEMMA PowerGrows ==
  ASSUME NEW base \in Nat \ {0}, NEW j \in Nat, NEW k \in Nat, j <= k
  PROVE  Power(base)[j] <= Power(base)[k]
<1> DEFINE T == {d \in Nat : Power(base)[j] <= Power(base)[j + d]}
<1>1. 0 \in T
  BY PowerFacts
<1>2. ASSUME NEW d \in T PROVE d + 1 \in T
  <2>1. j + d \in Nat /\ j + (d + 1) = (j + d) + 1
    OBVIOUS
  <2>2. Power(base)[(j + d) + 1] = base * Power(base)[j + d]
    BY <2>1, PowerFacts
  <2>3. Power(base)[j + d] \in Nat /\ Power(base)[j] \in Nat
    BY <2>1, PowerFacts
  <2>4. \A x \in Nat : x <= base * x
    OBVIOUS
  <2> HIDE DEF T
  <2>5. Power(base)[j] <= Power(base)[j + d]
    BY DEF T
  <2>6. Power(base)[j] <= base * Power(base)[j + d]
    <3>1. Power(base)[j + d] <= base * Power(base)[j + d]
      BY <2>3, <2>4
    <3>2. base * Power(base)[j + d] \in Nat
      BY <2>1, <2>2, PowerFacts
    <3> QED BY <2>3, <2>5, <3>1, <3>2
  <2> QED BY <2>1, <2>2, <2>6 DEF T
<1>3. T \in SUBSET Nat
  OBVIOUS
<1> HIDE DEF T
<1>4. T = Nat
  BY <1>1, <1>2, <1>3, Induction
<1>5. k - j \in T /\ j + (k - j) = k
  BY <1>4
<1> QED BY <1>5 DEF T

\* The power of a sum is the product of the powers.
LEMMA PowerSum ==
  ASSUME NEW base \in Nat \ {0}, NEW j \in Nat, NEW k \in Nat
  PROVE  Power(base)[j + k] = Power(base)[j] * Power(base)[k]
<1> DEFINE T == {d \in Nat : Power(base)[j + d] = Power(base)[j] * Power(base)[d]}
<1>1. 0 \in T
  BY PowerFacts
<1>2. ASSUME NEW d \in T PROVE d + 1 \in T
  <2>1. j + d \in Nat /\ j + (d + 1) = (j + d) + 1
    OBVIOUS
  <2>2. /\ Power(base)[(j + d) + 1] = base * Power(base)[j + d]
        /\ Power(base)[d + 1] = base * Power(base)[d]
        /\ Power(base)[j] \in Nat /\ Power(base)[d] \in Nat
    BY <2>1, PowerFacts
  <2>3. \A x, y \in Nat : base * (x * y) = x * (base * y)
    OBVIOUS
  <2>4. Power(base)[j + d] = Power(base)[j] * Power(base)[d]
    OBVIOUS
  <2>5. base * (Power(base)[j] * Power(base)[d]) = Power(base)[j] * (base * Power(base)[d])
    BY <2>2, <2>3
  <2> QED BY <2>1, <2>2, <2>4, <2>5
<1>3. T \in SUBSET Nat
  OBVIOUS
<1> HIDE DEF T
<1>4. T = Nat
  BY <1>1, <1>2, <1>3, Induction
<1> QED BY <1>4 DEF T

\* A number has fewer bits than its value.
LEMMA PowerExceeds == \A k \in Nat : k < Power(2)[k]
<1> DEFINE T == {k \in Nat : k < Power(2)[k]}
<1>0. 2 \in Nat \ {0}
  OBVIOUS
<1>1. 0 \in T
  BY <1>0, PowerFacts
<1>2. ASSUME NEW k \in T PROVE k + 1 \in T
  <2>1. Power(2)[k + 1] = 2 * Power(2)[k] /\ Power(2)[k] \in Nat \ {0}
    BY <1>0, PowerFacts
  <2> QED BY <2>1
<1>3. T \in SUBSET Nat
  OBVIOUS
<1> HIDE DEF T
<1>4. T = Nat
  BY <1>1, <1>2, <1>3, Induction
<1> QED BY <1>4 DEF T

-----------------------------------------------------------------------------
(* Floats *)

\* The exponent of a number's float.
IsExponent(n, k) ==
  /\ n < Power(2)[Mantissa + k]
  /\ k = 0 \/ n >= Power(2)[Mantissa + k - 1]

\* Rounded to a multiple of u.
RoundedTo(n, u) ==
  LET q == n \div u
      r == 2 * (n % u)
  IN  IF r < u \/ (r = u /\ q % 2 = 0) THEN q * u ELSE (q + 1) * u

\* The quotient of n by a unit, and what a multiple of the unit below n is.
LEMMA Quotient ==
  ASSUME NEW n \in Nat, NEW u \in Nat \ {0}
  PROVE  /\ n \div u \in Nat /\ n % u \in 0..(u - 1)
         /\ n = (n \div u) * u + (n % u)
         /\ \A h \in Nat : h * u <= n => h <= n \div u
         /\ \A h \in Nat : h * u <= n => h * u <= (n \div u) * u
<1>1. n \div u \in Nat /\ n % u \in 0..(u - 1) /\ n = u * (n \div u) + (n % u)
  OBVIOUS
<1> DEFINE q == n \div u
           r == n % u
<1>2. q \in Nat /\ r \in 0..(u - 1) /\ n = q * u + r
  <2>1. \A x, y \in Nat : x * y = y * x
    OBVIOUS
  <2> QED BY <1>1, <2>1
<1> HIDE DEF q, r
<1>3. ASSUME NEW h \in Nat, h * u <= n PROVE h <= q /\ h * u <= q * u
  <2>1. \A x, y \in Nat : x <= y => x * u <= y * u
    OBVIOUS
  <2>2. h * u \in Nat /\ q * u \in Nat /\ (q + 1) * u = q * u + u
    BY <1>2
  <2>3. ASSUME h > q PROVE FALSE
    <3>1. (q + 1) * u <= h * u
      BY <1>2, <2>1, <2>3
    <3> QED BY <1>2, <1>3, <2>2, <3>1
  <2>4. h <= q
    BY <1>2, <2>3
  <2> QED BY <1>2, <2>1, <2>4
<1> QED BY <1>2, <1>3 DEF q, r

\* Float(n) is n rounded to a multiple of a power of two, at least as large
\* as the largest multiple below n.
LEMMA FloatRounds ==
  ASSUME ConfigsAssumption, NEW n \in Nat
  PROVE  \E e \in Nat : /\ IsExponent(n, e)
                        /\ Float(n) = RoundedTo(n, Power(2)[e])
                        /\ Float(n) \in Nat
                        /\ Float(n) >= (n \div Power(2)[e]) * Power(2)[e]
<1> DEFINE T == {k \in Nat : n < Power(2)[Mantissa + k]}
<1>0. 2 \in Nat \ {0} /\ Mantissa \in Nat \ {0}
  BY DEF ConfigsAssumption
<1>1. n \in T
  <2>1. n < Power(2)[n]
    BY PowerExceeds
  <2>2. Power(2)[n] <= Power(2)[Mantissa + n]
    BY <1>0, PowerGrows
  <2>3. Power(2)[n] \in Nat /\ Power(2)[Mantissa + n] \in Nat
    BY <1>0, PowerFacts
  <2> QED BY <2>1, <2>2, <2>3
<1>2. T \in SUBSET Nat
  OBVIOUS
<1> HIDE DEF T
<1>3. PICK m \in T : \A k \in T : m <= k
  BY <1>1, <1>2, Smallest
<1>4. m \in 0..n /\ IsExponent(n, m)
  <2>1. m \in 0..n
    BY <1>1, <1>2, <1>3
  <2>2. CASE m # 0
    <3>1. m - 1 \in Nat /\ m - 1 \notin T
      BY <1>3, <2>1, <2>2
    <3>2. ~(n < Power(2)[Mantissa + (m - 1)]) /\ Mantissa + (m - 1) = Mantissa + m - 1
      BY <1>0, <3>1 DEF T
    <3>3. Power(2)[Mantissa + m - 1] \in Nat
      BY <1>0, <3>1, <3>2, PowerFacts
    <3> QED BY <1>3, <2>1, <3>2, <3>3 DEF T, IsExponent
  <2> QED BY <1>3, <2>1, <2>2 DEF T, IsExponent
<1> DEFINE e == CHOOSE k \in 0..n : IsExponent(n, k)
<1>5. e \in 0..n /\ IsExponent(n, e)
  BY <1>4
<1>6. Float(n) = RoundedTo(n, Power(2)[e])
  BY DEF Float, RoundedTo, IsExponent
<1> HIDE DEF e
<1> DEFINE u == Power(2)[e]
<1>7. u \in Nat \ {0}
  BY <1>0, <1>5, PowerFacts
<1>8. RoundedTo(n, u) \in Nat /\ RoundedTo(n, u) >= (n \div u) * u
  <2> HIDE DEF u
  <2> DEFINE q == n \div u
  <2>1. q \in Nat
    BY <1>7, Quotient
  <2>2. RoundedTo(n, u) \in {q * u, (q + 1) * u}
    BY DEF RoundedTo
  <2> HIDE DEF q
  <2>3. q * u \in Nat /\ (q + 1) * u \in Nat /\ q * u <= (q + 1) * u
    BY <1>7, <2>1
  <2>4. RoundedTo(n, u) \in Nat /\ RoundedTo(n, u) >= q * u
    BY <2>2, <2>3
  <2> QED BY <2>4 DEF q
<1> QED BY <1>5, <1>6, <1>8

\* A number of at most Mantissa bits is a float.
LEMMA FloatSmall ==
  ASSUME ConfigsAssumption, NEW n \in Nat, n < Power(2)[Mantissa]
  PROVE  Float(n) = n
<1>0. 2 \in Nat \ {0} /\ Mantissa \in Nat \ {0}
  BY DEF ConfigsAssumption
<1>1. PICK e \in Nat : IsExponent(n, e) /\ Float(n) = RoundedTo(n, Power(2)[e])
  BY FloatRounds
<1>2. e = 0
  <2> SUFFICES ASSUME e # 0 PROVE FALSE
    OBVIOUS
  <2>1. Mantissa + e - 1 \in Nat /\ Mantissa <= Mantissa + e - 1
    BY <1>0
  <2>2. Power(2)[Mantissa] <= Power(2)[Mantissa + e - 1]
    BY <1>0, <2>1, PowerGrows
  <2>3. Power(2)[Mantissa] \in Nat /\ Power(2)[Mantissa + e - 1] \in Nat
    BY <1>0, <2>1, PowerFacts
  <2> QED BY <1>1, <2>2, <2>3 DEF IsExponent
<1>3. Power(2)[e] = 1
  BY <1>0, <1>2, PowerFacts
<1>4. RoundedTo(n, 1) = n
  <2>1. n \div 1 = n /\ n % 1 = 0 /\ n * 1 = n
    OBVIOUS
  <2> QED BY <2>1 DEF RoundedTo
<1> QED BY <1>1, <1>3, <1>4

\* From 2^Mantissa on floats are even, and none is rounded below 2^Mantissa or
\* below its successor.
LEMMA FloatLarge ==
  ASSUME ConfigsAssumption, NEW n \in Nat, n >= Power(2)[Mantissa]
  PROVE  /\ Float(n) >= Power(2)[Mantissa]
         /\ n >= Power(2)[Mantissa] + 2 => Float(n) >= Power(2)[Mantissa] + 2
<1>0. 2 \in Nat \ {0} /\ Mantissa \in Nat \ {0} /\ Mantissa - 1 \in Nat
  BY DEF ConfigsAssumption
<1>1. PICK e \in Nat : /\ IsExponent(n, e) /\ Float(n) \in Nat
                       /\ Float(n) >= (n \div Power(2)[e]) * Power(2)[e]
  BY FloatRounds
<1> DEFINE h == Power(2)[Mantissa - 1]
           u == Power(2)[e]
           m == Power(2)[Mantissa]
<1>2. h \in Nat \ {0} /\ u \in Nat \ {0} /\ m = 2 * h /\ m \in Nat
  <2>1. (Mantissa - 1) + 1 = Mantissa
    BY <1>0
  <2> QED BY <1>0, <2>1, PowerFacts
<1>3. e # 0 /\ e - 1 \in Nat
  <2>1. e = 0 => n < m
    BY <1>0, <1>1 DEF IsExponent
  <2> QED BY <1>2, <2>1
<1>4. n >= h * u
  <2>1. Mantissa + e - 1 = (Mantissa - 1) + e
    BY <1>0
  <2>2. Power(2)[(Mantissa - 1) + e] = h * u
    BY <1>0, PowerSum
  <2> QED BY <1>1, <1>3, <2>1, <2>2 DEF IsExponent
<1>5. u = 2 * Power(2)[e - 1] /\ Power(2)[e - 1] \in Nat \ {0}
  <2>1. (e - 1) + 1 = e
    BY <1>3
  <2> QED BY <1>0, <1>3, <2>1, PowerFacts
<1>6. u = 2 \/ u >= 4
  BY <1>5
<1> HIDE DEF h, u, m
<1> DEFINE q == n \div u
<1>7. q \in Nat /\ h * u <= q * u /\ n % u \in 0..(u - 1) /\ n = q * u + (n % u)
  <2>1. h \in Nat
    BY <1>2
  <2> QED BY <1>2, <1>4, <2>1, Quotient
<1>8. Float(n) >= q * u
  BY <1>1 DEF u
<1> HIDE DEF q
<1>9. h * u \in Nat /\ q * u \in Nat
  BY <1>2, <1>7
<1>10. CASE u = 2
  <2>1. n % u \in 0..1 /\ n = q * 2 + (n % u) /\ Float(n) >= q * 2
    BY <1>7, <1>8, <1>10
  <2>2. h * 2 <= q * 2
    BY <1>7, <1>10
  <2>3. m \in Nat /\ m = 2 * h /\ h \in Nat
    BY <1>2
  <2>4. Float(n) >= m /\ (n >= m + 2 => Float(n) >= m + 2)
    BY <1>1, <1>7, <2>1, <2>2, <2>3
  <2> QED BY <2>4 DEF m
<1>11. CASE u >= 4
  <2>1. \A x \in Nat : x * u >= x * 4
    BY <1>2, <1>11
  <2>2. h * u >= h * 4
    BY <1>2, <2>1
  <2>3. h \in Nat \ {0} /\ m = 2 * h
    BY <1>2
  <2>4. Float(n) >= h * 4
    BY <1>1, <1>7, <1>8, <1>9, <2>2, <2>3
  <2>5. h * 4 >= m + 2
    BY <2>3
  <2>6. Float(n) >= m + 2
    BY <1>1, <2>3, <2>4, <2>5
  <2> QED BY <1>1, <1>2, <2>6 DEF m
<1> QED BY <1>2, <1>6, <1>10, <1>11

\* 2^Mantissa itself is a float.
LEMMA FloatBound ==
  ASSUME ConfigsAssumption
  PROVE  Float(Power(2)[Mantissa]) = Power(2)[Mantissa]
<1>0. 2 \in Nat \ {0} /\ Mantissa \in Nat \ {0} /\ Mantissa - 1 \in Nat
  BY DEF ConfigsAssumption
<1> DEFINE m == Power(2)[Mantissa]
           h == Power(2)[Mantissa - 1]
<1>1. h \in Nat \ {0} /\ m = 2 * h /\ m \in Nat
  <2>1. (Mantissa - 1) + 1 = Mantissa
    BY <1>0
  <2> QED BY <1>0, <2>1, PowerFacts
<1>2. PICK e \in Nat : IsExponent(m, e) /\ Float(m) = RoundedTo(m, Power(2)[e])
  BY <1>1, FloatRounds
<1>3. e # 0
  BY <1>0, <1>1, <1>2 DEF IsExponent
<1>4. e = 1
  <2> SUFFICES ASSUME e - 2 \in Nat PROVE FALSE
    BY <1>3
  <2>1. Mantissa + e - 1 \in Nat /\ Mantissa + 1 <= Mantissa + e - 1
    BY <1>0
  <2>2. Power(2)[Mantissa + 1] <= Power(2)[Mantissa + e - 1]
    BY <1>0, <2>1, PowerGrows
  <2>3. Power(2)[Mantissa + 1] = 2 * m /\ Power(2)[Mantissa + e - 1] \in Nat
    BY <1>0, <2>1, PowerFacts
  <2>4. m >= Power(2)[Mantissa + e - 1]
    BY <1>2, <1>3 DEF IsExponent
  <2> HIDE DEF m
  <2> QED BY <1>1, <2>2, <2>3, <2>4
<1>5. Power(2)[1] = 2
  <2>1. Power(2)[0 + 1] = 2 * Power(2)[0] /\ Power(2)[0] = 1
    BY <1>0, PowerFacts
  <2> QED BY <2>1
<1>6. RoundedTo(m, 2) = m
  <2> HIDE DEF m, h
  <2>1. m \div 2 = h /\ m % 2 = 0 /\ h * 2 = m
    BY <1>1
  <2> QED BY <2>1 DEF RoundedTo
<1> QED BY <1>2, <1>4, <1>5, <1>6
-----------------------------------------------------------------------------
(* Decimals *)

\* The larger of two numbers, and of a bounded set of them.
LEMMA LargerOfTwo ==
  ASSUME NEW x \in Int, NEW y \in Int
  PROVE  Max({x, y}) = IF x >= y THEN x ELSE y
<1> DEFINE m == IF x >= y THEN x ELSE y
<1>1. m \in {x, y} /\ \A z \in {x, y} : m >= z
  OBVIOUS
<1>2. \A w \in {x, y} : (\A z \in {x, y} : w >= z) => w = m
  OBVIOUS
<1> HIDE DEF m
<1>3. Max({x, y}) = m
  BY <1>1, <1>2 DEF Max
<1> QED BY <1>3 DEF m

\* A bounded set of numbers that is not empty has a largest one.
LEMMA LargestExists ==
  ASSUME NEW b \in Nat, NEW S \in SUBSET (0..b), S # {}
  PROVE  Max(S) \in S
<1> DEFINE T == {d \in Nat : b - d \in S}
<1>1. T # {}
  <2>1. PICK x \in S : TRUE
    OBVIOUS
  <2>2. b - x \in Nat /\ b - (b - x) = x
    OBVIOUS
  <2>3. b - x \in T
    BY <2>1, <2>2
  <2> QED BY <2>3
<1>2. PICK d \in T : \A k \in T : d <= k
  <2>1. T \in SUBSET Nat
    OBVIOUS
  <2> HIDE DEF T
  <2> QED BY <1>1, <2>1, Smallest
<1>3. ASSUME NEW y \in S PROVE b - d >= y
  <2>1. b - y \in Nat /\ b - (b - y) = y
    OBVIOUS
  <2>2. b - y \in T
    BY <2>1
  <2>3. d <= b - y /\ d \in Nat /\ y \in Nat
    BY <1>2, <2>2
  <2> QED BY <2>3
<1>4. b - d \in S
  BY <1>2
<1> QED BY <1>3, <1>4 DEF Max

\* A number that is itself a candidate is the nearest.
LEMMA NearestSelf ==
  ASSUME NEW S \in SUBSET Int, NEW n \in S
  PROVE  Nearest(n, S) = n
<1> DEFINE dist(c) == Max({n - c, c - n})
<1>1. n \in Int
  OBVIOUS
<1>2. \A c \in Int : dist(c) = IF n - c >= c - n THEN n - c ELSE c - n
  BY <1>1, LargerOfTwo
<1> HIDE DEF dist
<1>3. \A d \in S : dist(n) <= dist(d)
  BY <1>1, <1>2
<1>4. \A c \in S : dist(c) <= dist(n) => c = n
  BY <1>1, <1>2
<1> DEFINE best == CHOOSE c \in S : \A d \in S : dist(c) <= dist(d)
<1>5. best \in S /\ \A d \in S : dist(best) <= dist(d)
  BY <1>3
<1>6. best = n
  <2> HIDE DEF best
  <2> QED BY <1>4, <1>5
<1>7. Nearest(n, S) = best
  BY DEF Nearest, dist
<1> QED BY <1>6, <1>7

\* The candidates of k zeros for a float.
RoundedTens(float, k) ==
  LET u == Power(10)[k]
  IN  {c \in {(float \div u) * u, (float \div u + 1) * u} : Float(c) = float}

\* A number below 2^Mantissa, or equal to it, is the only candidate there is
\* that is as near: what ends in zeros and reads back as it, is it.
LEMMA OnlyCandidate ==
  ASSUME ConfigsAssumption, NEW n \in Nat, n <= Power(2)[Mantissa],
         NEW k \in Nat, RoundedTens(n, k) # {}
  PROVE  n \in RoundedTens(n, k)
<1>0. /\ 2 \in Nat \ {0} /\ 10 \in Nat \ {0}
      /\ Mantissa \in Nat \ {0} /\ Mantissa - 1 \in Nat
  BY DEF ConfigsAssumption
<1> DEFINE m == Power(2)[Mantissa]
           u == Power(10)[k]
           a == (n \div u) * u
           b == (n \div u + 1) * u
<1>1. m \in Nat /\ m % 2 = 0
  <2>1. (Mantissa - 1) + 1 = Mantissa
    BY <1>0
  <2>2. m = 2 * Power(2)[Mantissa - 1] /\ Power(2)[Mantissa - 1] \in Nat
    BY <1>0, <2>1, PowerFacts
  <2> QED BY <2>2
<1>2. u \in Nat \ {0}
  BY <1>0, PowerFacts
<1>3. Float(n) = n
  <2>1. CASE n < m
    BY <2>1, FloatSmall
  <2>2. CASE n = m
    BY <2>2, FloatBound
  <2> QED BY <1>1, <2>1, <2>2
<1>4. a \in Nat /\ a <= n /\ b \in Nat /\ b > n
  <2> HIDE DEF u
  <2> DEFINE q == n \div u
  <2>1. q \in Nat /\ n % u \in 0..(u - 1) /\ n = q * u + (n % u)
    BY <1>2, Quotient
  <2> HIDE DEF q
  <2>2. q * u \in Nat /\ (q + 1) * u = q * u + u
    BY <1>2, <2>1
  <2>3. q * u <= n /\ q * u + u > n
    BY <1>2, <2>1, <2>2
  <2> QED BY <1>2, <2>2, <2>3 DEF q
<1>5. k # 0 => b % 2 = 0
  <2> SUFFICES ASSUME k # 0 PROVE b % 2 = 0
    OBVIOUS
  <2>1. k - 1 \in Nat /\ (k - 1) + 1 = k
    OBVIOUS
  <2> DEFINE v == Power(10)[k - 1]
             q == n \div u
  <2>2. u = 10 * v /\ v \in Nat
    BY <1>0, <2>1, PowerFacts
  <2>3. b = (q + 1) * u
    BY Zenon
  <2>4. q + 1 \in Nat
    <3>1. n \div u \in Nat
      <4> HIDE DEF u
      <4> QED BY <1>2, Quotient
    <3> HIDE DEF u
    <3> QED BY <3>1
  <2> HIDE DEF b, v, q, u
  <2>5. \A x, y \in Nat : x * (10 * y) = 2 * (x * (5 * y)) /\ x * (5 * y) \in Nat
    OBVIOUS
  <2>6. b = 2 * ((q + 1) * (5 * v)) /\ (q + 1) * (5 * v) \in Nat
    BY <2>2, <2>3, <2>4, <2>5
  <2> QED BY <2>6
<1>6. k = 0 => a = n
  <2> SUFFICES ASSUME k = 0 PROVE a = n
    OBVIOUS
  <2>1. u = 1
    BY <1>0, PowerFacts
  <2>2. n \div 1 = n /\ n * 1 = n
    OBVIOUS
  <2> QED BY <2>1, <2>2
<1>7. RoundedTens(n, k) = {c \in {a, b} : Float(c) = n}
  BY DEF RoundedTens
<1> HIDE DEF a, b, u
<1>8. Float(a) = n => a = n
  <2> SUFFICES ASSUME a < n PROVE Float(a) = a
    BY <1>4
  <2>1. a < m
    BY <1>1, <1>4
  <2> QED BY <1>4, <2>1, FloatSmall
<1>9. k # 0 => Float(b) # n
  <2> SUFFICES ASSUME k # 0 PROVE Float(b) # n
    OBVIOUS
  <2>1. CASE b < m
    BY <1>4, <2>1, FloatSmall
  <2>2. CASE b >= m /\ n < m
    <3>1. Float(b) >= m
      BY <1>4, <2>2, FloatLarge
    <3> QED BY <1>1, <2>2, <3>1
  <2>3. CASE n = m
    <3>1. b >= m + 2
      BY <1>1, <1>4, <1>5, <2>3
    <3>2. b >= m
      BY <1>1, <1>4, <3>1
    <3>3. Float(b) >= m + 2
      BY <1>4, <3>1, <3>2, FloatLarge
    <3> QED BY <1>1, <2>3, <3>3
  <2> QED BY <1>1, <1>4, <2>1, <2>2, <2>3
<1> QED BY <1>3, <1>6, <1>7, <1>8, <1>9

\* A whole number up to 2^Mantissa is written as it was.
LEMMA SmallIsExact ==
  ASSUME ConfigsAssumption, NEW n \in Nat, n <= Power(2)[Mantissa]
  PROVE  Written(Float(n)) = n
<1>0. 2 \in Nat \ {0} /\ 10 \in Nat \ {0} /\ Mantissa \in Nat \ {0} /\ Decimals \in Nat
  BY DEF ConfigsAssumption
<1>1. Float(n) = n
  <2>1. Power(2)[Mantissa] \in Nat
    BY <1>0, PowerFacts
  <2>2. CASE n < Power(2)[Mantissa]
    BY <2>2, FloatSmall
  <2>3. CASE n = Power(2)[Mantissa]
    BY <2>3, FloatBound
  <2> QED BY <2>1, <2>2, <2>3
<1> DEFINE Z == {k \in 0..Decimals : RoundedTens(n, k) # {}}
<1>2. 0 \in Z
  <2>1. Power(10)[0] = 1
    BY <1>0, PowerFacts
  <2>2. n \div 1 = n /\ n * 1 = n
    OBVIOUS
  <2>3. n \in RoundedTens(n, 0)
    BY <1>1, <2>1, <2>2 DEF RoundedTens
  <2> QED BY <1>0, <2>3
<1>3. Z \in SUBSET (0..Decimals)
  OBVIOUS
<1> HIDE DEF Z
<1>4. Max(Z) \in Z
  BY <1>0, <1>2, <1>3, LargestExists
<1> DEFINE S == RoundedTens(n, Max(Z))
<1>5. S # {} /\ Max(Z) \in Nat
  BY <1>0, <1>4 DEF Z
<1>6. n \in S
  BY <1>5, OnlyCandidate
<1>7. S \in SUBSET Int
  <2>1. Power(10)[Max(Z)] \in Nat \ {0}
    BY <1>0, <1>5, PowerFacts
  <2>2. n \div Power(10)[Max(Z)] \in Nat
    BY <2>1, Quotient
  <2> QED BY <2>1, <2>2 DEF RoundedTens
<1> HIDE DEF S
<1>8. Nearest(n, S) = n
  BY <1>6, <1>7, NearestSelf
<1>9. Written(n) = Nearest(n, S)
  BY DEF Written, RoundedTens, S, Z
<1> QED BY <1>1, <1>8, <1>9

-----------------------------------------------------------------------------
(* Limits *)

\* A limit as the agent reads and writes it.
Decoded(limit) == Written(Float(limit))

\* No limit of the text loses a digit.
Exact(text) == \A s \in DOMAIN text.limits : Decoded(text.limits[s]) = text.limits[s]

ClientLimits == UNION {[S -> Limit] : S \in SUBSET Subscription}
Payload  == [number : Nat, kind : {"deploy", "rollback"}, limits : ClientLimits]
Revision == [text : Payload, hashed : Payload,
             status : {"pending", "applied", "failed", "refused"}]

\* What is signed is hashed as it is; what was applied, and so what a rollback
\* clones, has survived; what was refused has not.
Signed(r) ==
  /\ r.hashed = r.text
  /\ r.status = "applied" \/ r.text.kind = "rollback" => Exact(r.text)
  /\ r.status = "refused" => ~Exact(r.text)

LimitsInv ==
  /\ \A s \in Subscription : subs[s].limit \in Limit
  /\ revisions \in [Node -> Seq(Revision)]
  /\ \A n \in Node : \A k \in 1..Len(revisions[n]) : Signed(revisions[n][k])
  /\ DOMAIN nodes = Node
  /\ \A n \in Node : nodes[n].activeRevision # 0 =>
       /\ nodes[n].activeRevision \in 1..Len(revisions[n])
       /\ revisions[n][nodes[n].activeRevision].status = "applied"

\* A text is the same after the agent decoded it when its limits are exact.
LEMMA RereadExact ==
  ASSUME NEW text \in Payload
  PROVE  /\ Reread(text) = text <=> Exact(text)
         /\ Reread(text).limits = [s \in DOMAIN text.limits |-> Decoded(text.limits[s])]
<1>1. Reread(text) = [text EXCEPT !.limits =
                        [s \in DOMAIN text.limits |-> Decoded(text.limits[s])]]
  BY DEF Reread, Decoded
<1> DEFINE new == [s \in DOMAIN text.limits |-> Decoded(text.limits[s])]
<1>2. text.limits = [s \in DOMAIN text.limits |-> text.limits[s]]
  BY DEF Payload, ClientLimits
<1>3. new = text.limits <=> Exact(text)
  BY <1>2 DEF Exact
<1>4. [text EXCEPT !.limits = new] = text <=> new = text.limits
  BY DEF Payload
<1>5. [text EXCEPT !.limits = new].limits = new
  BY DEF Payload
<1> QED BY <1>1, <1>3, <1>4, <1>5

\* A rollback of an applied revision has its clients and their limits.
LEMMA RollbackText ==
  ASSUME NEW r \in Revision, Signed(r), r.status = "applied", NEW number \in Nat
  PROVE  LET text == Text(number, "rollback", Reread(r.text).limits)
         IN  text \in Payload /\ text.kind = "rollback" /\ Exact(text)
<1>1. r.text \in Payload /\ Exact(r.text)
  BY DEF Signed, Revision
<1>2. Reread(r.text).limits = r.text.limits
  BY <1>1, RereadExact
<1>3. Text(number, "rollback", r.text.limits) \in Payload
  BY <1>1 DEF Text, Payload
<1> QED BY <1>1, <1>2, <1>3 DEF Text, Exact

\* One more revision is signed.
LEMMA SignKeepsLimits ==
  ASSUME LimitsInv, NEW n \in Node, NEW text \in Payload, Sign(n, text, text),
         text.kind = "rollback" => Exact(text), UNCHANGED <<subs, nodes>>
  PROVE  LimitsInv'
<1> DEFINE r == [text |-> text, hashed |-> text, status |-> "pending"]
<1>1. r \in Revision /\ Signed(r)
  BY DEF Revision, Signed
<1>2. revisions' = [revisions EXCEPT ![n] = Append(@, r)]
  BY DEF Sign
<1> HIDE DEF r
<1>3. revisions' \in [Node -> Seq(Revision)]
      /\ \A m \in Node : revisions'[m] = IF m = n THEN Append(revisions[n], r)
                                                  ELSE revisions[m]
  BY <1>1, <1>2 DEF LimitsInv
<1>4. /\ Len(Append(revisions[n], r)) = Len(revisions[n]) + 1 /\ Len(revisions[n]) \in Nat
      /\ \A k \in 1..Len(revisions[n]) : Append(revisions[n], r)[k] = revisions[n][k]
      /\ Append(revisions[n], r)[Len(revisions[n]) + 1] = r
  BY <1>1 DEF LimitsInv
<1>5. \A m \in Node : \A k \in 1..Len(revisions[m]) :
        k \in 1..Len(revisions'[m]) /\ revisions'[m][k] = revisions[m][k]
  BY <1>3, <1>4
<1>6. \A m \in Node : \A k \in 1..Len(revisions'[m]) : Signed(revisions'[m][k])
  <2> SUFFICES ASSUME NEW m \in Node, NEW k \in 1..Len(revisions'[m])
               PROVE  Signed(revisions'[m][k])
    OBVIOUS
  <2>1. \A i \in 1..Len(revisions[m]) : Signed(revisions[m][i])
    BY DEF LimitsInv
  <2>2. CASE m = n /\ k = Len(revisions[n]) + 1
    BY <1>1, <1>3, <1>4, <2>2
  <2>3. CASE ~(m = n /\ k = Len(revisions[n]) + 1)
    <3>1. k \in 1..Len(revisions[m])
      BY <1>3, <1>4, <2>3
    <3> QED BY <1>5, <2>1, <3>1
  <2> QED BY <2>2, <2>3
<1>7. \A m \in Node : nodes[m].activeRevision # 0 =>
        /\ nodes[m].activeRevision \in 1..Len(revisions'[m])
        /\ revisions'[m][nodes[m].activeRevision].status = "applied"
  BY <1>5 DEF LimitsInv
<1> QED BY <1>3, <1>6, <1>7 DEF LimitsInv, Signed, Exact, Decoded

\* No revision, no active one.
LEMMA InitLimits == Init => LimitsInv
<1> SUFFICES ASSUME Init PROVE LimitsInv
  OBVIOUS
<1>1. << >> \in Seq(Revision) /\ Len(<< >>) = 0
  BY EmptySeq
<1>2. \A s \in Subscription : subs[s].limit \in Limit
  BY DEF Init
<1>3. revisions \in [Node -> Seq(Revision)] /\ \A n \in Node : revisions[n] = << >>
  BY <1>1 DEF Init
<1>4. DOMAIN nodes = Node /\ \A n \in Node : nodes[n].activeRevision = 0
  BY DEF Init
<1> QED BY <1>1, <1>2, <1>3, <1>4 DEF LimitsInv

\* Every step keeps it: a verdict is what the hash says.
LEMMA StepLimits == LimitsInv /\ [Next]_vars => LimitsInv'
<1> SUFFICES ASSUME LimitsInv, [Next]_vars PROVE LimitsInv'
  OBVIOUS
<1>1. ASSUME NEW s \in Subscription, SubscriptionChanges(s)
      PROVE  LimitsInv'
  BY <1>1 DEF SubscriptionChanges, SubscriptionRow, LimitsInv, Signed, Exact, Decoded
<1>2. ASSUME NEW n \in Node, NodeChanges(n)
      PROVE  LimitsInv'
  <2>1. UNCHANGED <<subs, revisions>>
    BY <1>2 DEF NodeChanges
  <2>2. DOMAIN nodes' = Node
        /\ \A m \in Node : nodes'[m].activeRevision = nodes[m].activeRevision
    BY <1>2 DEF NodeChanges, LimitsInv
  <2> QED BY <2>1, <2>2 DEF LimitsInv, Signed, Exact, Decoded
<1>3. ASSUME NEW n \in Node, CreateDummyConfigRevision(n)
      PROVE  LimitsInv'
  <2> DEFINE limits == [s \in ConfigSubscriptionInputs(n) |-> subs[s].limit]
             text == Text(Len(revisions[n]) + 1, "deploy", limits)
  <2>1. Sign(n, text, text) /\ UNCHANGED <<subs, nodes>>
    BY <1>3 DEF CreateDummyConfigRevision
  <2>2. limits \in ClientLimits
    <3>1. ConfigSubscriptionInputs(n) \in SUBSET Subscription
      BY DEF ConfigSubscriptionInputs
    <3>2. limits \in [ConfigSubscriptionInputs(n) -> Limit]
      BY <3>1 DEF LimitsInv
    <3> HIDE DEF limits
    <3> QED BY <3>1, <3>2 DEF ClientLimits
  <2>3. Len(revisions[n]) + 1 \in Nat
    BY DEF LimitsInv
  <2> HIDE DEF limits
  <2>4. text \in Payload /\ text.kind = "deploy"
    BY <2>2, <2>3 DEF Text, Payload
  <2> HIDE DEF text
  <2> QED BY <2>1, <2>4, SignKeepsLimits
<1>4. ASSUME NEW n \in Node, NEW k \in 1..Len(revisions[n]),
             CreateRollbackConfigRevision(n, k)
      PROVE  LimitsInv'
  <2> DEFINE target == revisions[n][k]
             text == Text(Len(revisions[n]) + 1, "rollback", Reread(target.text).limits)
  <2>1. target.status = "applied" /\ Sign(n, text, text) /\ UNCHANGED <<subs, nodes>>
    BY <1>4 DEF CreateRollbackConfigRevision
  <2>2. target \in Revision /\ Signed(target) /\ Len(revisions[n]) + 1 \in Nat
    BY DEF LimitsInv
  <2>3. text \in Payload /\ Exact(text)
    BY <2>1, <2>2, RollbackText
  <2> HIDE DEF text
  <2> QED BY <2>1, <2>3, SignKeepsLimits
<1>5. ASSUME NEW n \in Node, NEW k \in 1..Len(revisions[n]), Decide(n, k)
      PROVE  LimitsInv'
  <2> DEFINE old == revisions[n][k]
  <2>1. old \in Revision /\ Signed(old) /\ old.text \in Payload
    <3>1. revisions[n] \in Seq(Revision) /\ Signed(old)
      BY DEF LimitsInv
    <3>2. old \in Revision
      BY <3>1
    <3> HIDE DEF old
    <3> QED BY <3>1, <3>2 DEF Revision
  <2>2. PICK verdict \in {"applied", "failed", "refused"} :
          /\ verdict \in IF Verifies(old) THEN {"applied", "failed"} ELSE {"refused"}
          /\ revisions' = [revisions EXCEPT ![n][k].status = verdict]
          /\ nodes' = [nodes EXCEPT ![n].activeRevision =
                         IF verdict = "applied" THEN k ELSE @]
    BY <1>5 DEF Decide
  <2>3. Verifies(old) <=> Exact(old.text)
    BY <2>1, RereadExact DEF Verifies, Signed
  <2> DEFINE new == [old EXCEPT !.status = verdict]
  <2>4. new \in Revision /\ new.text = old.text /\ new.hashed = old.hashed
        /\ new.status = verdict
    BY <2>1 DEF Revision
  <2>5. Signed(new)
    BY <2>1, <2>2, <2>3, <2>4 DEF Signed
  <2>6. revisions' = [revisions EXCEPT ![n] = [revisions[n] EXCEPT ![k] = new]]
    BY <2>2
  <2>7. old.status = "pending"
    BY <1>5 DEF Decide
  <2> HIDE DEF old, new
  <2>8. revisions' \in [Node -> Seq(Revision)]
        /\ \A m \in Node : revisions'[m] = IF m = n THEN [revisions[n] EXCEPT ![k] = new]
                                                    ELSE revisions[m]
    BY <2>4, <2>6 DEF LimitsInv
  <2>9. \A m \in Node : Len(revisions'[m]) = Len(revisions[m])
          /\ \A i \in 1..Len(revisions[m]) :
               revisions'[m][i] = IF m = n /\ i = k THEN new ELSE revisions[m][i]
    BY <2>8 DEF LimitsInv
  <2>10. \A m \in Node : \A i \in 1..Len(revisions'[m]) : Signed(revisions'[m][i])
    BY <2>5, <2>9 DEF LimitsInv
  <2>11. DOMAIN nodes' = Node /\ \A m \in Node :
           \/ nodes'[m].activeRevision = nodes[m].activeRevision
           \/ m = n /\ verdict = "applied" /\ nodes'[m].activeRevision = k
    BY <2>2 DEF LimitsInv
  <2>12. \A m \in Node : nodes'[m].activeRevision # 0 =>
           /\ nodes'[m].activeRevision \in 1..Len(revisions'[m])
           /\ revisions'[m][nodes'[m].activeRevision].status = "applied"
    <3> SUFFICES ASSUME NEW m \in Node, nodes'[m].activeRevision # 0
                 PROVE  /\ nodes'[m].activeRevision \in 1..Len(revisions'[m])
                        /\ revisions'[m][nodes'[m].activeRevision].status = "applied"
      OBVIOUS
    <3>1. CASE nodes'[m].activeRevision = nodes[m].activeRevision
      BY <2>7, <2>9, <3>1 DEF LimitsInv, old
    <3>2. CASE m = n /\ verdict = "applied" /\ nodes'[m].activeRevision = k
      BY <2>4, <2>9, <3>2
    <3> QED BY <2>11, <3>1, <3>2
  <2>13. UNCHANGED subs
    BY <1>5 DEF Decide
  <2> QED BY <2>8, <2>10, <2>11, <2>12, <2>13 DEF LimitsInv, Signed, Exact, Decoded
<1>6. CASE UNCHANGED vars
  BY <1>6 DEF vars, LimitsInv, Signed, Exact, Decoded
<1> QED BY <1>1, <1>2, <1>3, <1>4, <1>5, <1>6 DEF Next

\* Every limit in the active config of a node is one of Limit that is written back as
\* it was: what the agent's check lets through, and what a rollback clones, lost no
\* digit.
THEOREM ActiveExact == Spec => []ActiveLimitsAreExact
<1>1. LimitsInv => ActiveLimitsAreExact
  <2> SUFFICES ASSUME LimitsInv, NEW n \in Node, nodes[n].activeRevision # 0
               PROVE  LET r == revisions[n][nodes[n].activeRevision]
                      IN  \A s \in DOMAIN r.text.limits :
                            /\ r.text.limits[s] \in Limit
                            /\ Decoded(r.text.limits[s]) = r.text.limits[s]
    BY DEF ActiveLimitsAreExact, Clients, Decoded
  <2>1. PICK k \in 1..Len(revisions[n]) :
          k = nodes[n].activeRevision /\ revisions[n][k].status = "applied"
    BY DEF LimitsInv
  <2>2. revisions[n][k] \in Revision /\ Signed(revisions[n][k])
    BY DEF LimitsInv
  <2>3. Exact(revisions[n][k].text) /\ revisions[n][k].text.limits \in ClientLimits
    BY <2>1, <2>2 DEF Signed, Revision, Payload
  <2> QED BY <2>1, <2>3 DEF Exact, ClientLimits
<1> QED BY <1>1, InitLimits, StepLimits, PTL DEF Spec

\* No rollback is ever refused, and a deploy only if a limit of one of its
\* clients is above 2^Mantissa: in the code, above 2^53.  A refused revision is one
\* whose text the agent did not read as it was hashed, so one of its limits lost
\* digits, and SmallIsExact says which do not.
THEOREM RefusedRounded == Spec => []RefusedOnlyByRounding
<1>1. LimitsInv => RefusedOnlyByRounding
  <2> SUFFICES ASSUME LimitsInv, NEW n \in Node, NEW k \in 1..MaxRevision,
                      k <= Len(revisions[n]), revisions[n][k].status = "refused"
               PROVE  /\ revisions[n][k].text.kind = "deploy"
                      /\ \E s \in Clients(revisions[n][k]) :
                           revisions[n][k].text.limits[s] > Power(2)[Mantissa]
    BY DEF RefusedOnlyByRounding
  <2> DEFINE text == revisions[n][k].text
  <2>1. revisions[n][k] \in Revision /\ Signed(revisions[n][k])
    <3>1. k \in 1..Len(revisions[n])
      BY ConfigsAssumption DEF LimitsInv, ConfigsAssumption
    <3> QED BY <3>1 DEF LimitsInv
  <2>2. text.kind \in {"deploy", "rollback"} /\ text.limits \in ClientLimits
    BY <2>1 DEF Revision, Payload
  <2>3. ~Exact(text) /\ text.kind = "deploy"
    BY <2>1, <2>2 DEF Signed
  <2>4. PICK s \in DOMAIN text.limits : Decoded(text.limits[s]) # text.limits[s]
    BY <2>3 DEF Exact
  <2>5. text.limits[s] \in Nat
    <3>1. text.limits[s] \in Limit
      BY <2>2 DEF ClientLimits
    <3> QED BY <3>1, ConfigsAssumption DEF ConfigsAssumption
  <2> HIDE DEF text
  <2>6. text.limits[s] > Power(2)[Mantissa]
    <3>1. ~(text.limits[s] <= Power(2)[Mantissa])
      BY <2>4, <2>5, ConfigsAssumption, SmallIsExact DEF Decoded
    <3>2. Power(2)[Mantissa] \in Nat
      <4>1. 2 \in Nat \ {0} /\ Mantissa \in Nat
        BY ConfigsAssumption DEF ConfigsAssumption
      <4> QED BY <4>1, PowerFacts
    <3> QED BY <2>5, <3>1, <3>2
  <2> QED BY <2>3, <2>6 DEF Clients, text
<1> QED BY <1>1, InitLimits, StepLimits, PTL DEF Spec
=============================================================================
