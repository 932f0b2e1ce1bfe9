-------------------------- MODULE ErrorClassProofs --------------------------
(***************************************************************************)
(* What holds of ErrorClass for all errors of the libraries and all errors *)
(* joined to them: a cancellation is final, and the kind and the timeout   *)
(* nature of an error survive every wrapper and every join.                *)
(***************************************************************************)
EXTENDS ErrorClass, SequenceTheorems, WellFoundedInduction, TLAPS

\* The errors that occur: they end with a cause, and a *clientx.Error holds no
\* more than what follows it.
Whole(e) ==
  /\ e \in Seq(Nodes) /\ e # <<>>
  /\ e[Len(e)].type \notin Envelopes
  /\ \A i \in 1..Len(e) : e[i].type = "client" => i + e[i].below <= Len(e)

ErrInv == Whole(err) /\ origin \in LibraryErrors

LEMMA NodeFacts ==
  ASSUME NEW e \in Seq(Nodes), NEW i \in 1..Len(e)
  PROVE  /\ e[i] \in Nodes /\ e[i].below \in Nat /\ e[i].kind \in Kinds \cup {"none"}
         /\ e[i].type = "client" => e[i].kind \in Kinds
<1>1. e[i] \in Nodes
  BY ElementOfSeq
<1>2. MaxNodes \in Nat
  BY ErrorAssumption
<1>3. CASE e[i] \in {Lib(t) : t \in Causes \cup Envelopes}
  BY <1>1, <1>3 DEF Lib, Causes, Envelopes
<1>4. CASE e[i] \in [type : {"client"}, kind : Kinds, below : 0..MaxNodes]
  BY <1>1, <1>2, <1>4
<1> QED BY <1>1, <1>3, <1>4 DEF Nodes

-----------------------------------------------------------------------------
(***************************************************************************)
(* What errors.As finds.                                                   *)
(***************************************************************************)

LEMMA LeastNatural ==
  ASSUME NEW T, T \subseteq Nat, T # {}
  PROVE  \E m \in T : \A n \in T : m <= n
<1> DEFINE R == OpToRel(<, Nat)
<1>1. IsWellFoundedOn(R, Nat)
  BY NatLessThanWellFounded
<1> HIDE DEF R
<1>2. PICK m \in T : \A n \in T : ~ (<<n, m>> \in R)
  BY <1>1, WFMin
<1>3. ASSUME NEW n \in T PROVE ~(n < m)
  <2>1. n < m => <<n, m>> \in R
    BY DEF R, OpToRel
  <2> QED BY <1>2, <2>1
<1>4. m \in Nat /\ \A n \in T : n \in Nat
  OBVIOUS
<1> QED BY <1>3, <1>4

\* Node i is the first of e of the given types.
IsFirst(e, types, i) ==
  /\ i \in 1..Len(e) /\ e[i].type \in types
  /\ \A j \in 1..(i - 1) : e[j].type \notin types

LEMMA FirstFound ==
  ASSUME NEW e \in Seq(Nodes), NEW types, Has(e, types)
  PROVE  IsFirst(e, types, FirstAt(e, types))
<1> DEFINE T == {i \in 1..Len(e) : e[i].type \in types}
<1>1. T \subseteq Nat /\ T # {}
  BY DEF Has
<1>2. PICK m \in T : \A n \in T : m <= n
  BY <1>1, LeastNatural
<1>3. m \in 1..Len(e) /\ e[m].type \in types
  OBVIOUS
<1>4. ASSUME NEW j \in 1..(m - 1) PROVE e[j].type \notin types
  <2>1. j \in 1..Len(e) /\ j < m
    BY <1>3
  <2>2. j \notin T
    BY <1>2, <1>3, <2>1
  <2> QED BY <2>1, <2>2
<1> QED BY <1>3, <1>4 DEF FirstAt, IsFirst

LEMMA FirstIsOne ==
  ASSUME NEW e \in Seq(Nodes), NEW types, NEW i, IsFirst(e, types, i)
  PROVE  Has(e, types) /\ FirstAt(e, types) = i
<1>1. Has(e, types)
  BY DEF Has, IsFirst
<1> DEFINE k == FirstAt(e, types)
<1>2. IsFirst(e, types, k)
  BY <1>1, FirstFound
<1> HIDE DEF k
<1>3. k \in Nat /\ i \in Nat /\ k >= 1 /\ i >= 1
  BY <1>2 DEF IsFirst
<1>4. ~(k < i) /\ ~(i < k)
  <2>1. k < i => k \in 1..(i - 1)
    BY <1>3
  <2>2. i < k => i \in 1..(k - 1)
    BY <1>3
  <2> QED BY <1>2, <2>1, <2>2 DEF IsFirst
<1>5. k = i
  BY <1>3, <1>4
<1> QED BY <1>1, <1>5 DEF k

\* Node j is what the envelopes from i on hold.
IsHeld(e, i, j) ==
  /\ j \in i..Len(e) /\ e[j].type \notin Envelopes
  /\ \A k \in i..(j - 1) : e[k].type \in Envelopes

LEMMA HeldFound ==
  ASSUME NEW e \in Seq(Nodes), e # <<>>, e[Len(e)].type \notin Envelopes, NEW i \in 1..Len(e)
  PROVE  \E j \in 1..Len(e) : IsHeld(e, i, j)
<1> DEFINE T == {j \in i..Len(e) : e[j].type \notin Envelopes}
<1>1. T \subseteq Nat /\ T # {}
  <2>1. Len(e) \in T
    OBVIOUS
  <2> QED BY <2>1
<1>2. PICK m \in T : \A n \in T : m <= n
  BY <1>1, LeastNatural
<1>3. m \in i..Len(e) /\ m \in 1..Len(e) /\ e[m].type \notin Envelopes
  OBVIOUS
<1>4. ASSUME NEW k \in i..(m - 1) PROVE e[k].type \in Envelopes
  <2>1. k \in i..Len(e) /\ k < m
    BY <1>3
  <2>2. k \notin T
    BY <1>2, <1>3, <2>1
  <2> QED BY <2>1, <2>2
<1> QED BY <1>3, <1>4 DEF IsHeld

LEMMA HeldIsOne ==
  ASSUME NEW e \in Seq(Nodes), NEW i \in 1..Len(e), NEW j, IsHeld(e, i, j)
  PROVE  Held(e, i) = e[j]
<1> DEFINE
      h == CHOOSE k \in i..Len(e) : e[k].type \notin Envelopes
                                     /\ \A l \in i..(k - 1) : e[l].type \in Envelopes
<1>1. h \in i..Len(e) /\ e[h].type \notin Envelopes
      /\ \A l \in i..(h - 1) : e[l].type \in Envelopes
  BY DEF IsHeld
<1>2. Held(e, i) = e[h]
  BY DEF Held
<1> HIDE DEF h
<1>3. j \in i..Len(e) /\ i \in Nat
  BY DEF IsHeld
<1>4. ~(h < j) /\ ~(j < h)
  <2>1. h < j => h \in i..(j - 1)
    BY <1>1, <1>3
  <2>2. j < h => j \in i..(h - 1)
    BY <1>1, <1>3
  <2> QED BY <1>1, <2>1, <2>2 DEF IsHeld
<1>5. h = j
  BY <1>1, <1>3, <1>4
<1> QED BY <1>2, <1>5

-----------------------------------------------------------------------------
(***************************************************************************)
(* Timeouts of the libraries.                                              *)
(***************************************************************************)

TimeoutTypes == {"deadline", "osTimeout", "dnsTimeout"}

\* The first net.Error of e is node i, and j is the timeout it holds.
TimesOut(e, i, j) == IsFirst(e, NetTypes, i) /\ IsHeld(e, i, j) /\ e[j].type \in TimeoutTypes

LEMMA TimeoutFound ==
  ASSUME NEW e \in Seq(Nodes), e # <<>>, e[Len(e)].type \notin Envelopes, LibraryTimeout(e)
  PROVE  \E i, j \in 1..Len(e) : TimesOut(e, i, j)
<1> DEFINE i == FirstAt(e, NetTypes)
<1>1. IsFirst(e, NetTypes, i)
  BY FirstFound DEF LibraryTimeout
<1>2. i \in 1..Len(e) /\ Held(e, i).type \in TimeoutTypes
  BY <1>1 DEF IsFirst, LibraryTimeout, TimeoutTypes
<1> HIDE DEF i
<1>3. PICK j \in 1..Len(e) : IsHeld(e, i, j)
  BY <1>2, HeldFound
<1>4. Held(e, i) = e[j]
  BY <1>2, <1>3, HeldIsOne
<1> QED BY <1>1, <1>2, <1>3, <1>4 DEF TimesOut

LEMMA TimeoutReported ==
  ASSUME NEW e \in Seq(Nodes), NEW i, NEW j, TimesOut(e, i, j)
  PROVE  LibraryTimeout(e)
<1>1. IsFirst(e, NetTypes, i) /\ i \in 1..Len(e) /\ IsHeld(e, i, j) /\ e[j].type \in TimeoutTypes
  BY DEF TimesOut, IsFirst
<1>2. Has(e, NetTypes) /\ FirstAt(e, NetTypes) = i
  BY <1>1, FirstIsOne
<1>3. Held(e, i) = e[j]
  BY <1>1, HeldIsOne
<1> QED BY <1>1, <1>2, <1>3 DEF LibraryTimeout, TimeoutTypes

\* Two errors on end: the nodes of the first keep their places.
LEMMA JoinedNodes ==
  ASSUME NEW e \in Seq(Nodes), NEW f \in Seq(Nodes)
  PROVE  /\ e \o f \in Seq(Nodes) /\ Len(e \o f) = Len(e) + Len(f)
         /\ Len(e) \in Nat /\ Len(f) \in Nat
         /\ \A i \in 1..Len(e) : (e \o f)[i] = e[i]
         /\ \A i \in 1..Len(f) : (e \o f)[Len(e) + i] = f[i]
<1>1. /\ e \o f \in Seq(Nodes) /\ Len(e \o f) = Len(e) + Len(f)
      /\ \A i \in 1..(Len(e) + Len(f)) :
           (e \o f)[i] = IF i <= Len(e) THEN e[i] ELSE f[i - Len(e)]
  BY ConcatProperties
<1>2. Len(e) \in Nat /\ Len(f) \in Nat
  OBVIOUS
<1>3. ASSUME NEW i \in 1..Len(f) PROVE (e \o f)[Len(e) + i] = f[i]
  <2>1. /\ Len(e) + i \in 1..(Len(e) + Len(f)) /\ ~(Len(e) + i <= Len(e))
        /\ (Len(e) + i) - Len(e) = i
    BY <1>2
  <2> QED BY <1>1, <2>1
<1> QED BY <1>1, <1>2, <1>3

\* What was found first in an error is found first when more follows.
LEMMA FirstStays ==
  ASSUME NEW e \in Seq(Nodes), NEW f \in Seq(Nodes), NEW types, NEW i, IsFirst(e, types, i)
  PROVE  IsFirst(e \o f, types, i)
<1>1. i \in 1..Len(e)
  BY DEF IsFirst
<1>2. i \in 1..Len(e \o f) /\ \A j \in 1..i : (e \o f)[j] = e[j]
  BY <1>1, JoinedNodes
<1> QED BY <1>1, <1>2 DEF IsFirst

LEMMA TimeoutStays ==
  ASSUME NEW e \in Seq(Nodes), e # <<>>, e[Len(e)].type \notin Envelopes, LibraryTimeout(e),
         NEW f \in Seq(Nodes)
  PROVE  LibraryTimeout(e \o f)
<1>1. PICK i \in 1..Len(e), j \in 1..Len(e) : TimesOut(e, i, j)
  BY TimeoutFound
<1>2. IsFirst(e \o f, NetTypes, i)
  BY <1>1, FirstStays DEF TimesOut
<1>3. e \o f \in Seq(Nodes) /\ j \in i..Len(e \o f)
      /\ \A k \in i..j : (e \o f)[k] = e[k]
  <2>1. IsHeld(e, i, j)
    BY <1>1 DEF TimesOut
  <2>2. j \in i..Len(e)
    BY <2>1 DEF IsHeld
  <2> QED BY <2>2, JoinedNodes
<1>4. IsHeld(e \o f, i, j) /\ (e \o f)[j].type \in TimeoutTypes
  BY <1>1, <1>3 DEF TimesOut, IsHeld
<1> QED BY <1>2, <1>3, <1>4, TimeoutReported DEF TimesOut

\* The end of an error is an error too.
LEMMA EndOfError ==
  ASSUME NEW e \in Seq(Nodes), NEW i \in 1..Len(e)
  PROVE  /\ SubSeq(e, i, Len(e)) \in Seq(Nodes)
         /\ Len(SubSeq(e, i, Len(e))) = Len(e) - i + 1
         /\ \A k \in 1..(Len(e) - i + 1) : SubSeq(e, i, Len(e))[k] = e[i + k - 1]
         /\ SubSeq(e, i, Len(e)) # <<>>
         /\ SubSeq(e, i, Len(e))[Len(e) - i + 1] = e[Len(e)]
<1> DEFINE s == SubSeq(e, i, Len(e))
<1>1. i \in Int /\ Len(e) \in Int /\ i <= Len(e) /\ i >= 1
  OBVIOUS
<1>2. \A k \in i..Len(e) : e[k] \in Nodes
  BY <1>1, ElementOfSeq
<1>3. /\ s \in Seq(Nodes) /\ Len(s) = Len(e) - i + 1
      /\ \A k \in 1..(Len(e) - i + 1) : s[k] = e[i + k - 1]
  BY <1>1, <1>2, SubSeqProperties
<1> HIDE DEF s
<1>4. s # <<>>
  BY <1>1, <1>3
<1>5. Len(e) - i + 1 \in 1..(Len(e) - i + 1) /\ i + (Len(e) - i + 1) - 1 = Len(e)
  BY <1>1
<1>6. s[Len(e) - i + 1] = e[i + (Len(e) - i + 1) - 1]
  BY <1>3, <1>5
<1>7. s[Len(e) - i + 1] = e[Len(e)]
  BY <1>5, <1>6
<1> QED BY <1>3, <1>4, <1>7 DEF s

\* The first net.Error decides whether an error is a timeout.
LEMMA TimeoutFromFirst ==
  ASSUME NEW e \in Seq(Nodes), e[Len(e)].type \notin Envelopes,
         NEW i, IsFirst(e, NetTypes, i), LibraryTimeout(SubSeq(e, i, Len(e)))
  PROVE  LibraryTimeout(e)
<1> DEFINE s == SubSeq(e, i, Len(e))
<1>1. i \in 1..Len(e) /\ e[i].type \in NetTypes
  BY DEF IsFirst
<1>2. /\ s \in Seq(Nodes) /\ Len(s) = Len(e) - i + 1 /\ s # <<>>
      /\ s[Len(s)].type \notin Envelopes
      /\ \A k \in 1..Len(s) : s[k] = e[i + k - 1]
  BY <1>1, EndOfError
<1>3. LibraryTimeout(s)
  OBVIOUS
<1> HIDE DEF s
<1>4. PICK m \in 1..Len(s), j \in 1..Len(s) : TimesOut(s, m, j)
  BY <1>2, <1>3, TimeoutFound
<1>5. m = 1
  <2>1. s[1] = e[i] /\ 1 \in 1..Len(s)
    <3>1. 1 \in 1..Len(s) /\ i + 1 - 1 = i
      BY <1>1, <1>2
    <3>2. s[1] = e[i + 1 - 1]
      BY <1>2, <3>1
    <3> QED BY <3>1, <3>2
  <2>2. m > 1 => 1 \in 1..(m - 1)
    BY <1>4
  <2> QED BY <1>1, <1>4, <2>1, <2>2 DEF TimesOut, IsFirst
<1> DEFINE h == i + j - 1
<1>6. h \in i..Len(e) /\ h \in Int /\ e[h] = s[j]
  BY <1>1, <1>2, <1>4
<1>7. ASSUME NEW k \in i..(h - 1) PROVE e[k].type \in Envelopes
  <2>1. k - i + 1 \in 1..(j - 1) /\ k - i + 1 \in 1..Len(s) /\ i + (k - i + 1) - 1 = k
    BY <1>1, <1>2, <1>4
  <2>2. s[k - i + 1] = e[k]
    BY <1>2, <2>1
  <2>3. s[k - i + 1].type \in Envelopes
    BY <1>4, <1>5, <2>1 DEF TimesOut, IsHeld
  <2> QED BY <2>2, <2>3
<1>8. TimesOut(e, i, h)
  BY <1>4, <1>6, <1>7 DEF TimesOut, IsHeld
<1> QED BY <1>8, TimeoutReported

-----------------------------------------------------------------------------
(***************************************************************************)
(* Wrapping and joining.                                                   *)
(***************************************************************************)

LEMMA ClassifyKind == \A e : Classify(e) \in Kinds
BY DEF Classify, KindOfNetError, KindOfMessage, Kinds

\* A wrapped error: the new node is first, and all the rest is below it.
LEMMA WrappedError ==
  ASSUME NEW e, Whole(e), Len(e) < MaxNodes, NEW kind \in Kinds
  PROVE  /\ Whole(<<Client(kind, Len(e))>> \o e)
         /\ \A types : "client" \in types =>
              IsFirst(<<Client(kind, Len(e))>> \o e, types, 1)
         /\ (<<Client(kind, Len(e))>> \o e)[1] = Client(kind, Len(e))
         /\ Below(<<Client(kind, Len(e))>> \o e, 1) = e
<1> DEFINE c == Client(kind, Len(e))
           f == <<c>> \o e
<1>1. e \in Seq(Nodes) /\ Len(e) \in Nat \ {0} /\ MaxNodes \in Nat
  BY ErrorAssumption, EmptySeq DEF Whole
<1>2. c \in Nodes /\ <<c>> \in Seq(Nodes) /\ Len(<<c>>) = 1 /\ <<c>>[1] = c
      /\ c.type = "client" /\ c.below = Len(e)
  BY <1>1 DEF Client, Nodes
<1>3. /\ f \in Seq(Nodes) /\ Len(f) = 1 + Len(e) /\ f[1] = c
      /\ \A i \in 1..Len(e) : f[1 + i] = e[i]
  BY <1>1, <1>2, JoinedNodes
<1>4. Whole(f)
  <2>1. f # <<>> /\ f[Len(f)].type \notin Envelopes
    BY <1>1, <1>3 DEF Whole
  <2>2. ASSUME NEW i \in 1..Len(f), f[i].type = "client" PROVE i + f[i].below <= Len(f)
    <3>1. CASE i = 1
      BY <1>1, <1>2, <1>3, <3>1
    <3>2. CASE i # 1
      <4>1. i - 1 \in 1..Len(e) /\ 1 + (i - 1) = i
        BY <1>1, <1>3, <3>2
      <4>2. f[i] = e[i - 1]
        BY <1>3, <4>1
      <4>3. (i - 1) + e[i - 1].below <= Len(e) /\ e[i - 1].below \in Nat
        BY <1>1, <2>2, <4>1, <4>2, NodeFacts DEF Whole
      <4> QED BY <1>1, <1>3, <4>2, <4>3
    <3> QED BY <3>1, <3>2
  <2> QED BY <1>3, <2>1, <2>2 DEF Whole
<1>5. ASSUME NEW types, "client" \in types PROVE IsFirst(f, types, 1)
  BY <1>1, <1>2, <1>3, <1>5 DEF IsFirst
<1>6. Below(f, 1) = e
  <2>1. Below(f, 1) = SubSeq(f, 2, Len(f))
    BY <1>1, <1>2, <1>3 DEF Below
  <2>2. 2 \in 1..Len(f) /\ Len(f) - 2 + 1 = Len(e)
    BY <1>1, <1>3
  <2>3. /\ SubSeq(f, 2, Len(f)) \in Seq(Nodes) /\ Len(SubSeq(f, 2, Len(f))) = Len(e)
        /\ \A k \in 1..Len(e) : SubSeq(f, 2, Len(f))[k] = f[2 + k - 1]
    BY <1>3, <2>2, EndOfError
  <2>4. \A k \in 1..Len(e) : 2 + k - 1 = 1 + k
    OBVIOUS
  <2>5. \A k \in 1..Len(e) : SubSeq(f, 2, Len(f))[k] = e[k]
    BY <1>3, <2>3, <2>4
  <2> QED BY <1>1, <2>1, <2>3, <2>5, SeqEqual
<1> QED BY <1>3, <1>4, <1>5, <1>6

\* A joined error is whole.
LEMMA JoinedError ==
  ASSUME NEW e, Whole(e), NEW f, Whole(f)
  PROVE  Whole(e \o f)
<1>1. e \in Seq(Nodes) /\ f \in Seq(Nodes) /\ Len(e) \in Nat \ {0} /\ Len(f) \in Nat \ {0}
  BY EmptySeq DEF Whole
<1> DEFINE g == e \o f
<1>2. /\ g \in Seq(Nodes) /\ Len(g) = Len(e) + Len(f)
      /\ \A i \in 1..Len(e) : g[i] = e[i]
      /\ \A i \in 1..Len(f) : g[Len(e) + i] = f[i]
  BY <1>1, JoinedNodes
<1> HIDE DEF g
<1>3. g # <<>> /\ g[Len(g)] = f[Len(f)]
  BY <1>1, <1>2
<1>4. ASSUME NEW i \in 1..Len(g), g[i].type = "client" PROVE i + g[i].below <= Len(g)
  <2>1. CASE i <= Len(e)
    <3>1. i \in 1..Len(e) /\ g[i] = e[i]
      BY <1>1, <1>2, <2>1
    <3>2. e[i].below \in Nat /\ i + e[i].below <= Len(e)
      BY <1>1, <1>4, <3>1, NodeFacts DEF Whole
    <3> QED BY <1>1, <1>2, <3>1, <3>2
  <2>2. CASE ~(i <= Len(e))
    <3>1. i - Len(e) \in 1..Len(f) /\ Len(e) + (i - Len(e)) = i
      BY <1>1, <1>2, <2>2
    <3>2. g[i] = f[i - Len(e)]
      BY <1>2, <3>1
    <3>3. f[i - Len(e)].below \in Nat /\ (i - Len(e)) + f[i - Len(e)].below <= Len(f)
      BY <1>1, <1>4, <3>1, <3>2, NodeFacts DEF Whole
    <3> QED BY <1>1, <1>2, <3>2, <3>3
  <2> QED BY <2>1, <2>2
<1> QED BY <1>2, <1>3, <1>4 DEF Whole, g

LEMMA GivenErrors == \A e \in LibraryErrors \cup JoinedErrors : Whole(e)
BY ErrorAssumption DEF Whole

\* The two things that happen to an error.
LEMMA StepKinds ==
  ASSUME Next
  PROVE  /\ UNCHANGED origin
         /\ \/ \E kind \in Kinds : /\ Len(err) < MaxNodes /\ ~Typed(err)
                                   /\ err' = <<Client(kind, Len(err))>> \o err
            \/ \E e \in JoinedErrors : err' = err \o e
<1>1. "codec" \in Kinds
  BY DEF Kinds
<1> QED BY <1>1, ClassifyKind DEF Next, WrapError, WrapCodecError, Wrap, Join

LEMMA ErrInit == Init => ErrInv
BY GivenErrors DEF Init, ErrInv

LEMMA ErrStep == ErrInv /\ [Next]_vars => ErrInv'
<1> SUFFICES ASSUME ErrInv, [Next]_vars PROVE ErrInv'
  OBVIOUS
<1>1. CASE Next
  <2>1. ASSUME NEW kind \in Kinds, Len(err) < MaxNodes,
               err' = <<Client(kind, Len(err))>> \o err
        PROVE  Whole(err')
    BY <2>1, WrappedError DEF ErrInv
  <2>2. ASSUME NEW e \in JoinedErrors, err' = err \o e PROVE Whole(err')
    BY <2>2, GivenErrors, JoinedError DEF ErrInv
  <2>3. Whole(err') /\ origin' = origin
    BY <1>1, <2>1, <2>2, StepKinds
  <2> QED BY <2>3 DEF ErrInv, Whole
<1>2. CASE UNCHANGED vars
  BY <1>2 DEF vars, ErrInv, Whole
<1> QED BY <1>1, <1>2

\* Every error that occurs is a sequence of nodes that end with a cause, with
\* all that a *clientx.Error wraps behind it.
THEOREM ErrorsTyped == Spec => []TypeOK
<1>1. ErrInv => TypeOK
  BY DEF ErrInv, Whole, TypeOK
<1> QED BY <1>1, ErrInit, ErrStep, PTL DEF Spec

\* CancelIsFinal: defaultRetryable refuses an error with a cancellation in it,
\* and neither WrapErrorWithKind nor errors.Join takes the cancellation out.
THEOREM CancellationIsFinal == Spec => CancelIsFinal
<1>1. ASSUME ErrInv, Next, Has(err, {"canceled"})
      PROVE  ~Retryable(err) /\ ~Retryable(err')
  <2>1. err \in Seq(Nodes)
    BY <1>1 DEF ErrInv, Whole
  <2>2. PICK i \in 1..Len(err) : err[i].type = "canceled"
    BY <1>1 DEF Has
  <2>3. ASSUME NEW kind \in Kinds, Len(err) < MaxNodes,
               err' = <<Client(kind, Len(err))>> \o err
        PROVE  Has(err', {"canceled"})
    <3>1. <<Client(kind, Len(err))>> \in Seq(Nodes) /\ Len(<<Client(kind, Len(err))>>) = 1
      <4>1. MaxNodes \in Nat /\ Len(err) \in Nat
        BY <2>1, ErrorAssumption
      <4> QED BY <2>3, <4>1 DEF Client, Nodes
    <3>2. err'[1 + i] = err[i] /\ Len(err') = 1 + Len(err) /\ Len(err) \in Nat
      BY <2>1, <2>3, <3>1, JoinedNodes
    <3>3. 1 + i \in 1..Len(err')
      BY <3>2
    <3> QED BY <2>2, <3>2, <3>3 DEF Has
  <2>4. ASSUME NEW e \in JoinedErrors, err' = err \o e PROVE Has(err', {"canceled"})
    <3>1. e \in Seq(Nodes)
      BY GivenErrors DEF Whole
    <3>2. err'[i] = err[i] /\ Len(err') = Len(err) + Len(e) /\ Len(err) \in Nat /\ Len(e) \in Nat
      BY <2>1, <2>4, <3>1, JoinedNodes
    <3>3. i \in 1..Len(err')
      BY <3>2
    <3> QED BY <2>2, <3>2, <3>3 DEF Has
  <2> QED BY <1>1, <2>3, <2>4, StepKinds DEF Retryable
<1>2. ErrInv /\ [Next]_vars =>
        [Has(err, {"canceled"}) => ~Retryable(err) /\ ~Retryable(err')]_vars
  BY <1>1
<1> QED BY <1>2, ErrInit, ErrStep, PTL DEF Spec, CancelIsFinal

\* What the first net.Error of an error is: a library's or a *clientx.Error.
NetOrClient == NetTypes \cup {"client"}

LEMMA NetTimeoutMeaning ==
  ASSUME NEW e \in Seq(Nodes), NEW i, IsFirst(e, NetOrClient, i)
  PROVE  NetTimeout(e) <=> IF e[i].type = "client" THEN Timeout(e, i)
                           ELSE LibraryTimeout(SubSeq(e, i, Len(e)))
BY FirstIsOne DEF NetTimeout, NetOrClient

\* A wrapper that is put around a timeout reports it.
LEMMA WrapKeepsTimeout ==
  ASSUME NEW e, Whole(e), ~Typed(e), NetTimeout(e), Len(e) < MaxNodes, NEW kind \in Kinds
  PROVE  NetTimeout(<<Client(kind, Len(e))>> \o e)
<1> DEFINE f == <<Client(kind, Len(e))>> \o e
           i == FirstAt(e, NetOrClient)
<1>1. e \in Seq(Nodes) /\ e[Len(e)].type \notin Envelopes
  BY DEF Whole
<1>2. IsFirst(e, NetOrClient, i)
  <2>1. Has(e, NetOrClient)
    BY DEF NetTimeout, NetOrClient
  <2> QED BY <1>1, <2>1, FirstFound
<1> HIDE DEF i
<1>3. e[i].type # "client" /\ IsFirst(e, NetTypes, i)
  BY <1>2 DEF Typed, Has, IsFirst, NetOrClient
<1>4. LibraryTimeout(SubSeq(e, i, Len(e)))
  BY <1>1, <1>2, <1>3, NetTimeoutMeaning
<1>5. LibraryTimeout(e)
  BY <1>1, <1>3, <1>4, TimeoutFromFirst
<1>6. /\ f \in Seq(Nodes) /\ IsFirst(f, NetOrClient, 1)
      /\ f[1].type = "client" /\ Below(f, 1) = e
  BY WrappedError DEF Whole, NetOrClient, Client
<1> HIDE DEF f
<1>7. Timeout(f, 1)
  BY <1>5, <1>6 DEF Timeout
<1>8. NetTimeout(f)
  BY <1>6, <1>7, NetTimeoutMeaning
<1> QED BY <1>8 DEF f

\* An error joined to a timeout changes nothing about it.
LEMMA JoinKeepsTimeout ==
  ASSUME NEW e, Whole(e), NetTimeout(e), NEW g, Whole(g)
  PROVE  NetTimeout(e \o g)
<1> DEFINE f == e \o g
           i == FirstAt(e, NetOrClient)
<1>1. e \in Seq(Nodes) /\ e[Len(e)].type \notin Envelopes /\ g \in Seq(Nodes)
      /\ Len(e) \in Nat /\ Len(g) \in Nat
  BY DEF Whole
<1>2. IsFirst(e, NetOrClient, i)
  <2>1. Has(e, NetOrClient)
    BY DEF NetTimeout, NetOrClient
  <2> QED BY <1>1, <2>1, FirstFound
<1> HIDE DEF i
<1>3. /\ i \in 1..Len(e) /\ f \in Seq(Nodes) /\ f[i] = e[i]
      /\ Len(f) = Len(e) + Len(g) /\ IsFirst(f, NetOrClient, i)
  BY <1>1, <1>2, JoinedNodes, FirstStays DEF IsFirst
<1>4. CASE e[i].type = "client"
  <2> DEFINE b == e[i].below
  <2>1. b \in Nat /\ i + b <= Len(e)
    BY <1>1, <1>3, <1>4, NodeFacts DEF Whole
  <2>2. Below(f, i) = Below(e, i)
    <3>1. CASE b = 0
      <4>1. i + b < i + 1 /\ i + 1 \in Int /\ i + b \in Int
        BY <1>3, <2>1, <3>1
      <4>2. SubSeq(f, i + 1, i + b) = <<>> /\ SubSeq(e, i + 1, i + b) = <<>>
        BY <4>1, SubSeqEmpty
      <4> QED BY <1>3, <4>2 DEF Below
    <3>2. CASE b # 0
      <4>1. i + 1 \in 1..Len(e) /\ i + b \in 1..Len(e)
        BY <1>1, <1>3, <2>1, <3>2
      <4>2. SubSeq(f, i + 1, i + b) = SubSeq(e, i + 1, i + b)
        BY <1>1, <4>1, SubSeqOfConcat1
      <4> QED BY <1>3, <4>2 DEF Below
    <3> QED BY <3>1, <3>2
  <2>3. Timeout(e, i)
    BY <1>1, <1>2, <1>4, NetTimeoutMeaning
  <2>4. Timeout(f, i)
    BY <1>3, <2>2, <2>3 DEF Timeout
  <2> QED BY <1>3, <1>4, <2>4, NetTimeoutMeaning
<1>5. CASE e[i].type # "client"
  <2> DEFINE s == SubSeq(e, i, Len(e))
  <2>1. LibraryTimeout(s)
    BY <1>1, <1>2, <1>5, NetTimeoutMeaning
  <2>2. s \in Seq(Nodes) /\ s # <<>> /\ Len(s) = Len(e) - i + 1 /\ s[Len(s)] = e[Len(e)]
        /\ \A k \in 1..Len(s) : s[k] = e[i + k - 1]
    BY <1>1, <1>3, EndOfError
  <2>3. LibraryTimeout(s \o g)
    BY <1>1, <2>1, <2>2, TimeoutStays
  <2>4. SubSeq(f, i, Len(f)) = s \o g
    <3> DEFINE t == SubSeq(f, i, Len(f))
               u == s \o g
    <3>1. /\ t \in Seq(Nodes) /\ Len(t) = Len(f) - i + 1
          /\ \A k \in 1..(Len(f) - i + 1) : t[k] = f[i + k - 1]
      <4>1. i \in 1..Len(f)
        BY <1>1, <1>3
      <4> QED BY <1>3, <4>1, EndOfError
    <3>2. /\ u \in Seq(Nodes) /\ Len(u) = Len(s) + Len(g)
          /\ \A k \in 1..Len(s) : u[k] = s[k]
          /\ \A k \in 1..Len(g) : u[Len(s) + k] = g[k]
      BY <1>1, <2>2, JoinedNodes
    <3>3. Len(t) = Len(u)
      BY <1>1, <1>3, <2>2, <3>1, <3>2
    <3>4. ASSUME NEW k \in 1..Len(t) PROVE t[k] = u[k]
      <4>1. k \in 1..(Len(f) - i + 1) /\ k \in Nat \ {0} /\ t[k] = f[i + k - 1]
        <5>1. k \in 1..(Len(f) - i + 1)
          BY <3>1
        <5>2. k \in Nat \ {0}
          BY <1>1, <1>3, <5>1
        <5> QED BY <3>1, <5>1, <5>2
      <4>2. CASE k <= Len(s)
        <5>1. k \in 1..Len(s) /\ i + k - 1 \in 1..Len(e)
          BY <1>1, <1>3, <2>2, <4>1, <4>2
        <5>2. f[i + k - 1] = e[i + k - 1]
          BY <1>1, <5>1, JoinedNodes
        <5> QED BY <2>2, <3>2, <4>1, <5>1, <5>2
      <4>3. CASE ~(k <= Len(s))
        <5>1. /\ k - Len(s) \in 1..Len(g) /\ Len(s) + (k - Len(s)) = k
              /\ Len(e) + (k - Len(s)) = i + k - 1
          BY <1>1, <1>3, <2>2, <3>1, <4>1, <4>3
        <5>2. u[Len(s) + (k - Len(s))] = g[k - Len(s)]
          BY <3>2, <5>1
        <5>3. f[Len(e) + (k - Len(s))] = g[k - Len(s)]
          BY <1>1, <5>1, JoinedNodes
        <5> QED BY <4>1, <5>1, <5>2, <5>3
      <4> QED BY <4>2, <4>3
    <3> QED BY <3>1, <3>2, <3>3, <3>4, SeqEqual
  <2> QED BY <1>3, <1>5, <2>3, <2>4, NetTimeoutMeaning
<1> QED BY <1>4, <1>5

\* MeaningSticks: the kind that IsKind finds, and what net.Error's Timeout
\* reports of an error, outlive every wrapper and every errors.Join.
THEOREM MeaningIsKept == Spec => MeaningSticks
<1>1. ASSUME ErrInv, Next, Typed(err) PROVE KindOf(err') = KindOf(err)
  <2>1. PICK e \in JoinedErrors : err' = err \o e
    BY <1>1, StepKinds
  <2>2. err \in Seq(Nodes) /\ e \in Seq(Nodes)
    BY <1>1, GivenErrors DEF ErrInv, Whole
  <2>3. PICK i : IsFirst(err, {"client"}, i)
    BY <1>1, <2>2, FirstFound DEF Typed
  <2>4. IsFirst(err', {"client"}, i) /\ err' \in Seq(Nodes)
    BY <2>1, <2>2, <2>3, FirstStays, JoinedNodes
  <2>5. err'[i] = err[i]
    BY <2>1, <2>2, <2>3, JoinedNodes DEF IsFirst
  <2>6. FirstAt(err, {"client"}) = i /\ FirstAt(err', {"client"}) = i /\ Typed(err')
    BY <2>2, <2>3, <2>4, FirstIsOne DEF Typed
  <2> QED BY <1>1, <2>5, <2>6 DEF KindOf
<1>2. ASSUME ErrInv, Next, NetTimeout(err) PROVE NetTimeout(err')
  <2>1. Whole(err) /\ \A e \in JoinedErrors : Whole(e)
    BY <1>2, GivenErrors DEF ErrInv
  <2>2. ASSUME NEW kind \in Kinds, Len(err) < MaxNodes, ~Typed(err),
               err' = <<Client(kind, Len(err))>> \o err
        PROVE  NetTimeout(err')
    BY <1>2, <2>1, <2>2, WrapKeepsTimeout
  <2>3. ASSUME NEW e \in JoinedErrors, err' = err \o e PROVE NetTimeout(err')
    BY <1>2, <2>1, <2>3, JoinKeepsTimeout
  <2> QED BY <1>2, <2>2, <2>3, StepKinds
<1>3. ErrInv /\ [Next]_vars =>
        [/\ Typed(err) => KindOf(err') = KindOf(err)
         /\ NetTimeout(err) => NetTimeout(err')]_vars
  BY <1>1, <1>2
<1> QED BY <1>3, ErrInit, ErrStep, PTL DEF Spec, MeaningSticks

-----------------------------------------------------------------------------
(***************************************************************************)
(* Kinds and causes.                                                       *)
(***************************************************************************)

\* Behind the envelopes there is only the cause to be found.
LEMMA OnlyCause ==
  ASSUME NEW e \in Seq(Nodes), e # <<>>, OneCause(e)
  PROVE  /\ \A types : types \cap Envelopes = {} => (Has(e, types) <=> Cause(e) \in types)
         /\ Has(e, NetTypes) <=> Has(e, Envelopes) \/ Cause(e) \in NetTypes
         /\ \A i \in 1..Len(e) : Held(e, i) = e[Len(e)]
         /\ Has(e, {"op"}) => Has(e, Envelopes)
<1>1. Len(e) \in Nat \ {0} /\ Len(e) \in 1..Len(e)
  BY EmptySeq
<1>2. \A i \in 1..Len(e) : i = Len(e) \/ i \in 1..(Len(e) - 1)
  BY <1>1
<1>3. Cause(e) \in Causes /\ e[Len(e)].type = Cause(e) /\ Cause(e) \notin Envelopes
      /\ \A i \in 1..Len(e) : i = Len(e) \/ e[i].type \in Envelopes
  BY <1>2 DEF OneCause, Cause, Causes, Envelopes
<1>4. ASSUME NEW types, types \cap Envelopes = {} PROVE Has(e, types) <=> Cause(e) \in types
  BY <1>1, <1>3, <1>4 DEF Has
<1>5. Has(e, NetTypes) <=> Has(e, Envelopes) \/ Cause(e) \in NetTypes
  BY <1>1, <1>3 DEF Has, NetTypes
<1>6. ASSUME NEW i \in 1..Len(e) PROVE Held(e, i) = e[Len(e)]
  <2>1. Len(e) \in i..Len(e) /\ \A k \in i..(Len(e) - 1) : k \in 1..(Len(e) - 1)
    BY <1>1
  <2>2. IsHeld(e, i, Len(e))
    BY <1>3, <2>1 DEF IsHeld, OneCause
  <2> QED BY <2>2, HeldIsOne
<1>7. Has(e, {"op"}) => Has(e, Envelopes)
  BY DEF Has, Envelopes
<1> QED BY <1>4, <1>5, <1>6, <1>7

\* What classifyErrorKind makes of a cause in its envelopes.
LEMMA ClassifyCause ==
  ASSUME NEW e \in Seq(Nodes), e # <<>>, OneCause(e)
  PROVE  Classify(e) = IF Has(e, Envelopes) /\ Cause(e) \in KnownByText THEN "network"
                       ELSE DocumentedKind(Cause(e))
<1> DEFINE c == Cause(e)
           inEnvelope == Has(e, Envelopes)
<1>1. c \in Causes
  BY DEF OneCause
<1>2. /\ Has(e, {"canceled"}) <=> c = "canceled"
      /\ Has(e, {"deadline"}) <=> c = "deadline"
      /\ Has(e, {"closed"}) <=> c = "closed"
      /\ Has(e, {"dns", "dnsTimeout"}) <=> c \in {"dns", "dnsTimeout"}
      /\ Has(e, {"refused"}) <=> c = "refused"
      /\ Has(e, {"cert", "alert"}) <=> c \in {"cert", "alert"}
      /\ Has(e, {"saysClosed"}) <=> c = "saysClosed"
      /\ Has(e, {"saysNetwork"}) <=> c = "saysNetwork"
  <2>1. /\ {"canceled"} \cap Envelopes = {} /\ {"deadline"} \cap Envelopes = {}
        /\ {"closed"} \cap Envelopes = {} /\ {"dns", "dnsTimeout"} \cap Envelopes = {}
        /\ {"refused"} \cap Envelopes = {} /\ {"cert", "alert"} \cap Envelopes = {}
        /\ {"saysClosed"} \cap Envelopes = {} /\ {"saysNetwork"} \cap Envelopes = {}
    BY DEF Envelopes
  <2> QED BY <2>1, OnlyCause
<1>3. Has(e, NetTypes) <=> inEnvelope \/ c \in NetTypes
  BY OnlyCause
<1>4. Has(e, {"op"}) => inEnvelope /\ Held(e, FirstAt(e, {"op"})).type = c
  <2>1. ASSUME Has(e, {"op"}) PROVE FirstAt(e, {"op"}) \in 1..Len(e)
    BY <2>1, FirstFound DEF IsFirst
  <2> QED BY <2>1, OnlyCause DEF Cause
<1>5. LibraryTimeout(e) <=> c \in TimeoutTypes
  <2>1. ASSUME Has(e, NetTypes) PROVE Held(e, FirstAt(e, NetTypes)).type = c
    <3>1. FirstAt(e, NetTypes) \in 1..Len(e)
      BY <2>1, FirstFound DEF IsFirst
    <3> QED BY <3>1, OnlyCause DEF Cause
  <2>2. TimeoutTypes \subseteq NetTypes
    BY DEF TimeoutTypes, NetTypes
  <2> QED BY <1>3, <2>1, <2>2 DEF LibraryTimeout, TimeoutTypes
<1>6. KindOfMessage(e) = IF c \in {"cert", "alert"} THEN "tls"
                         ELSE IF c = "saysClosed" THEN "closed"
                         ELSE IF c = "saysNetwork" THEN "network" ELSE "unknown"
  BY <1>2 DEF KindOfMessage
<1>7. KindOfNetError(e) = IF c \in {"dns", "dnsTimeout"} THEN "dns"
                          ELSE IF c \in TimeoutTypes THEN "timeout"
                          ELSE IF c = "refused" THEN "conn_refused" ELSE "network"
  <2>1. CASE Has(e, {"op"})
    BY <1>2, <1>4, <1>5, <2>1 DEF KindOfNetError
  <2>2. CASE ~Has(e, {"op"})
    BY <1>2, <1>5, <2>2 DEF KindOfNetError
  <2> QED BY <2>1, <2>2
<1>8. Classify(e) = IF c = "canceled" THEN "canceled"
                    ELSE IF c = "deadline" THEN "timeout"
                    ELSE IF c = "closed" THEN "closed"
                    ELSE IF inEnvelope \/ c \in NetTypes THEN KindOfNetError(e)
                    ELSE KindOfMessage(e)
  BY <1>2, <1>3 DEF Classify
<1> HIDE DEF c, inEnvelope
<1> QED BY <1>1, <1>6, <1>7, <1>8
        DEF Causes, NetTypes, Envelopes, TimeoutTypes, KnownByText, DocumentedKind, c, inEnvelope

\* CauseKept: wrapping a failure of the transport gives the kind documented for
\* its cause, through any number of envelopes if the cause has a type of its
\* own; a cause that is told by its text (a TLS failure, say) must come bare.
THEOREM CausesAreKept == Spec => []CauseKept
<1>1. ErrInv => CauseKept
  <2> SUFFICES ASSUME ErrInv, Wrapped, OneCause(origin)
               PROVE  KindOf(err) = Classify(origin)
    BY GivenErrors, ClassifyCause DEF ErrInv, Whole, CauseKept
  <2> DEFINE c == Client(Classify(origin), Len(origin))
  <2>1. origin \in Seq(Nodes) /\ err \in Seq(Nodes) /\ err # <<>>
    BY GivenErrors DEF ErrInv, Whole
  <2>2. err[1] = c
    <3>1. <<c>> \in Seq(Nodes \cup {c}) /\ origin \in Seq(Nodes \cup {c})
      BY <2>1
    <3>2. Len(<<c>> \o origin) = 1 + Len(origin) /\ Len(origin) \in Nat
          /\ \A i \in 1..(1 + Len(origin)) :
               (<<c>> \o origin)[i] = IF i <= 1 THEN <<c>>[i] ELSE origin[i - 1]
      BY <3>1, ConcatProperties
    <3>3. (<<c>> \o origin)[1] = c
      BY <3>2
    <3> QED BY <3>3 DEF Wrapped
  <2>3. IsFirst(err, {"client"}, 1)
    BY <2>1, <2>2 DEF IsFirst, Client
  <2>4. Typed(err) /\ FirstAt(err, {"client"}) = 1
    BY <2>1, <2>3, FirstIsOne DEF Typed
  <2> QED BY <2>2, <2>4 DEF KindOf, Client
<1> QED BY <1>1, ErrInit, ErrStep, PTL DEF Spec
=============================================================================
