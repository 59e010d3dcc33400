---------------------------- MODULE TrafficProofs ----------------------------
(***************************************************************************)
(* Theorems about Traffic, for any tabs, requests and hosts, any cap on    *)
(* the host tables, any history of closed tabs and any sizes.              *)
(***************************************************************************)
EXTENDS Traffic, FiniteSetTheorems, SequenceTheorems, WellFoundedInduction, TLAPS

-----------------------------------------------------------------------------
(* Induction over the naturals and over the subsets of a finite set, with  *)
(* the set of the cases that hold for the property.                        *)
LEMMA NatInd ==
    ASSUME NEW P \in SUBSET Nat, 0 \in P, \A n \in P : n + 1 \in P
    PROVE  P = Nat
<1> SUFFICES ASSUME Nat \ P # {} PROVE FALSE
    OBVIOUS
<1> DEFINE R == OpToRel(<, Nat)
<1>1. \A k, m \in Nat : <<k, m>> \in R <=> k < m
    BY DEF OpToRel
<1>2. IsWellFoundedOn(R, Nat)
    BY NatLessThanWellFounded, Zenon
<1> HIDE DEF R
<1>3. PICK m \in Nat \ P : \A k \in Nat \ P : ~(<<k, m>> \in R)
    BY <1>2, WFMin
<1>4. m # 0 /\ m - 1 \in Nat /\ m - 1 < m
    BY <1>3
<1>5. m - 1 \in P
    BY <1>1, <1>3, <1>4
<1> QED BY <1>3, <1>4, <1>5

LEMMA SubsetInd ==
    ASSUME NEW S, IsFiniteSet(S), NEW P \in SUBSET SUBSET S,
           \A T \in SUBSET S : (\A U \in SUBSET T : U # T => U \in P) => T \in P
    PROVE  P = SUBSET S
<1> DEFINE Rest == (SUBSET S) \ P
<1> SUFFICES ASSUME Rest # {} PROVE FALSE
    OBVIOUS
<1>1. Rest \subseteq SUBSET S
    OBVIOUS
<1> HIDE DEF Rest
<1>2. IsWellFoundedOn(StrictSubsetOrdering(S), SUBSET S)
    BY FS_StrictSubsetOrderingWellFounded, FS_FiniteSubsetsOfFinite
<1>3. PICK T \in Rest : \A U \in Rest : ~(<<U, T>> \in StrictSubsetOrdering(S))
    BY <1>1, <1>2, WFMin
<1>4. \A U \in SUBSET T : U # T => U \notin Rest
    BY <1>1, <1>3 DEF StrictSubsetOrdering
<1>5. T \in SUBSET S /\ T \notin P
    BY <1>3 DEF Rest
<1>6. \A U \in SUBSET T : U # T => U \in P
    BY <1>4, <1>5 DEF Rest
<1> QED BY <1>5, <1>6

(* A sum is the value of a recursive function on the subsets of the domain. *)
Some(S) == CHOOSE x \in S : TRUE
Step(f, g, S) == IF S = {} THEN 0 ELSE f[Some(S)] + g[S \ {Some(S)}]
Parts(f, S) == CHOOSE g : g = [T \in SUBSET S |-> Step(f, g, T)]

LEMMA SumIsPart ==
    ASSUME NEW f, NEW S PROVE SumFunctionOnSet(f, S) = Parts(f, S)[S]
BY DEF SumFunctionOnSet, FoldFunctionOnSet, MapThenFoldSet, Parts, Step, Some

LEMMA PartsExist ==
    ASSUME NEW f, NEW S, IsFiniteSet(S)
    PROVE  Parts(f, S) = [T \in SUBSET S |-> Step(f, Parts(f, S), T)]
<1> DEFINE Upto(n) == {T \in SUBSET S : Cardinality(T) <= n}
           P == {n \in Nat : \E g : g = [T \in Upto(n) |-> Step(f, g, T)]}
<1>1. \A T \in SUBSET S :
          /\ Cardinality(T) \in Nat /\ IsFiniteSet(T)
          /\ T # {} => /\ Some(T) \in T
                       /\ Cardinality(T \ {Some(T)}) = Cardinality(T) - 1
          /\ Cardinality(T) = 0 => T = {}
  <2> SUFFICES ASSUME NEW T \in SUBSET S
               PROVE  /\ Cardinality(T) \in Nat /\ IsFiniteSet(T)
                      /\ T # {} => /\ Some(T) \in T
                                   /\ Cardinality(T \ {Some(T)}) = Cardinality(T) - 1
                      /\ Cardinality(T) = 0 => T = {}
      OBVIOUS
  <2>1. IsFiniteSet(T)
      BY FS_Subset
  <2>2. Cardinality(T) \in Nat /\ (Cardinality(T) = 0 => T = {})
      BY <2>1, FS_CardinalityType, FS_EmptySet
  <2>3. T # {} => Some(T) \in T
      BY DEF Some
  <2> QED BY <2>1, <2>2, <2>3, FS_RemoveElement
<1>2. 0 \in P
  <2> DEFINE g == [T \in Upto(0) |-> 0]
  <2>1. g = [T \in Upto(0) |-> Step(f, g, T)]
      BY <1>1 DEF Step
  <2> QED BY <2>1
<1>3. ASSUME NEW n \in P PROVE n + 1 \in P
  <2>1. n \in Nat
      OBVIOUS
  <2>2. PICK g : g = [T \in Upto(n) |-> Step(f, g, T)]
      OBVIOUS
  <2> DEFINE h == [T \in Upto(n + 1) |-> Step(f, g, T)]
  <2>3. \A T \in Upto(n) : T \in Upto(n + 1) /\ h[T] = g[T]
    <3>1. ASSUME NEW T \in Upto(n) PROVE T \in Upto(n + 1)
      <4>1. Cardinality(T) \in Nat /\ Cardinality(T) <= n /\ T \in SUBSET S
          BY <1>1
      <4>2. Cardinality(T) <= n + 1
          BY <2>1, <4>1
      <4> QED BY <4>1, <4>2
    <3> QED BY <2>2, <3>1
  <2>4. ASSUME NEW T \in Upto(n + 1) PROVE Step(f, g, T) = Step(f, h, T)
    <3>1. CASE T = {}
        BY <3>1 DEF Step
    <3>2. CASE T # {}
      <4>1. T \ {Some(T)} \in Upto(n)
          BY <1>1, <2>1, <3>2
      <4> QED BY <2>3, <4>1, <3>2 DEF Step
    <3> QED BY <3>1, <3>2
  <2>5. h = [T \in Upto(n + 1) |-> Step(f, h, T)]
      BY <2>4
  <2> HIDE DEF h
  <2>6. n + 1 \in Nat
      BY <2>1
  <2>7. \E k : k = [T \in Upto(n + 1) |-> Step(f, k, T)]
      BY <2>5
  <2> QED BY <2>6, <2>7
<1>4. P = Nat
    BY <1>2, <1>3, NatInd
<1>5. Cardinality(S) \in Nat
    BY <1>1
<1>6. \A T \in SUBSET S : Cardinality(T) <= Cardinality(S)
    BY FS_Subset
<1>7. Upto(Cardinality(S)) = SUBSET S
    BY <1>6
<1>8. \E g : g = [T \in SUBSET S |-> Step(f, g, T)]
  <2>1. Cardinality(S) \in P
      BY <1>4, <1>5
  <2>2. \E g : g = [T \in Upto(Cardinality(S)) |-> Step(f, g, T)]
      BY <2>1
  <2> HIDE DEF Upto
  <2> QED BY <1>7, <2>2
<1> QED BY <1>8 DEF Parts

(* The sum of a part depends on the values there alone.                    *)
LEMMA PartsAgree ==
    ASSUME NEW f, NEW g, NEW S, NEW T, NEW U, IsFiniteSet(S), IsFiniteSet(T),
           U \subseteq S, U \subseteq T, \A x \in U : f[x] = g[x]
    PROVE  Parts(f, S)[U] = Parts(g, T)[U]
<1> DEFINE P == {V \in SUBSET U : Parts(f, S)[V] = Parts(g, T)[V]}
<1>1. IsFiniteSet(U)
    BY FS_Subset
<1>2. ASSUME NEW V \in SUBSET U, \A W \in SUBSET V : W # V => W \in P
      PROVE  V \in P
  <2>1. /\ Parts(f, S)[V] = Step(f, Parts(f, S), V)
        /\ Parts(g, T)[V] = Step(g, Parts(g, T), V)
    <3>1. V \in SUBSET S /\ V \in SUBSET T
        OBVIOUS
    <3>2. Parts(f, S) = [X \in SUBSET S |-> Step(f, Parts(f, S), X)]
        BY ONLY IsFiniteSet(S), PartsExist, ZenonT(60)
    <3>5. Parts(g, T) = [X \in SUBSET T |-> Step(g, Parts(g, T), X)]
        BY ONLY IsFiniteSet(T), PartsExist, ZenonT(60)
    <3> HIDE DEF P
    <3>3. Parts(f, S)[V] = Step(f, Parts(f, S), V)
        BY ONLY <3>1, <3>2
    <3>4. Parts(g, T)[V] = Step(g, Parts(g, T), V)
        BY ONLY <3>1, <3>5
    <3> QED BY <3>3, <3>4
  <2>2. CASE V = {}
      BY <2>1, <2>2 DEF Step
  <2>3. CASE V # {}
    <3>1. Some(V) \in V
        BY <2>3 DEF Some
    <3>2. V \ {Some(V)} \in P /\ f[Some(V)] = g[Some(V)]
        BY <1>2, <3>1
    <3> QED BY <2>1, <2>3, <3>2 DEF Step
  <2> QED BY <2>2, <2>3
<1>3. P = SUBSET U
  <2>1. P \in SUBSET SUBSET U
      OBVIOUS
  <2> HIDE DEF P
  <2> QED BY <1>1, <1>2, <2>1, SubsetInd
<1> QED BY <1>3

LEMMA SumAgree ==
    ASSUME NEW f, NEW g, NEW S, IsFiniteSet(S), \A x \in S : f[x] = g[x]
    PROVE  SumFunctionOnSet(f, S) = SumFunctionOnSet(g, S)
<1>1. Parts(f, S)[S] = Parts(g, S)[S]
    BY PartsAgree
<1> QED BY <1>1, SumIsPart

LEMMA SumEmpty == ASSUME NEW f PROVE SumFunctionOnSet(f, {}) = 0
<1>1. Parts(f, {}) = [T \in SUBSET {} |-> Step(f, Parts(f, {}), T)]
    BY PartsExist, FS_EmptySet
<1>2. Parts(f, {})[{}] = Step(f, Parts(f, {}), {})
    BY ONLY <1>1
<1> QED BY <1>2, SumIsPart DEF Step

(* Whatever element is taken out first.                                    *)
LEMMA SumRemove ==
    ASSUME NEW f, NEW S, IsFiniteSet(S), \A x \in S : f[x] \in Int, NEW x \in S
    PROVE  /\ SumFunctionOnSet(f, S) \in Int /\ SumFunctionOnSet(f, S \ {x}) \in Int
           /\ SumFunctionOnSet(f, S) = f[x] + SumFunctionOnSet(f, S \ {x})
<1> DEFINE g == Parts(f, S)
           P == {T \in SUBSET S :
                     g[T] \in Int /\ \A y \in T : g[T] = f[y] + g[T \ {y}]}
<1>1. \A T \in SUBSET S : g[T] = Step(f, g, T)
  <2>1. g = [T \in SUBSET S |-> Step(f, g, T)]
      BY PartsExist, ZenonT(60)
  <2> HIDE DEF g, P
  <2> QED BY <2>1
<1>2. \A T \in SUBSET S : SumFunctionOnSet(f, T) = g[T]
  <2> SUFFICES ASSUME NEW T \in SUBSET S PROVE SumFunctionOnSet(f, T) = g[T]
      OBVIOUS
  <2>1. IsFiniteSet(T)
      BY FS_Subset
  <2>2. Parts(f, T)[T] = Parts(f, S)[T]
      BY <2>1, PartsAgree
  <2> QED BY <2>2, SumIsPart
<1> HIDE DEF g
<1>3. ASSUME NEW T \in SUBSET S, \A U \in SUBSET T : U # T => U \in P
      PROVE  T \in P
  <2>1. CASE T = {}
      BY <1>1, <2>1 DEF Step
  <2>2. CASE T # {}
    <3> DEFINE c == Some(T)
    <3>1. c \in T /\ f[c] \in Int
        BY <2>2 DEF Some
    <3>2. g[T] = f[c] + g[T \ {c}]
        BY <1>1, <2>2 DEF Step
    <3> HIDE DEF c
    <3>3. T \ {c} \in P
        BY <1>3, <3>1
    <3>4. g[T] \in Int
        BY <3>1, <3>2, <3>3
    <3>5. ASSUME NEW y \in T PROVE g[T] = f[y] + g[T \ {y}]
      <4>1. CASE y = c
          BY <3>2, <4>1
      <4>2. CASE y # c
        <5>1. T \ {y} \in P /\ f[y] \in Int
            BY <1>3
        <5>2. (T \ {c}) \ {y} = (T \ {y}) \ {c}
            OBVIOUS
        <5>3. (T \ {c}) \ {y} \in P
            BY <1>3, <3>1
        <5>4. g[T \ {c}] = f[y] + g[(T \ {c}) \ {y}]
            BY <3>3, <4>2
        <5>5. g[T \ {y}] = f[c] + g[(T \ {c}) \ {y}]
            BY <3>1, <4>2, <5>1, <5>2
        <5>6. g[(T \ {c}) \ {y}] \in Int
            BY <5>3
        <5> QED BY <3>1, <3>2, <5>1, <5>4, <5>5, <5>6
      <4> QED BY <4>1, <4>2
    <3> QED BY <3>4, <3>5
  <2> QED BY <2>1, <2>2
<1>4. P = SUBSET S
  <2>1. P \in SUBSET SUBSET S
      OBVIOUS
  <2> HIDE DEF P
  <2> QED BY <1>3, <2>1, SubsetInd
<1>5. S \in P /\ S \ {x} \in P
    BY <1>4
<1> QED BY <1>2, <1>5

LEMMA SumType ==
    ASSUME NEW f, NEW S, IsFiniteSet(S), \A x \in S : f[x] \in Int
    PROVE  SumFunctionOnSet(f, S) \in Int
<1>1. CASE S = {}
    BY <1>1, SumEmpty
<1>2. CASE S # {}
  <2>1. PICK x \in S : TRUE
      BY <1>2
  <2> QED BY <2>1, SumRemove
<1> QED BY <1>1, <1>2

(* One value changes.                                                      *)
LEMMA SumChange ==
    ASSUME NEW f, NEW g, NEW S, IsFiniteSet(S), NEW y \in S,
           \A x \in S : f[x] \in Int /\ g[x] \in Int,
           \A x \in S \ {y} : f[x] = g[x]
    PROVE  SumFunctionOnSet(g, S) = SumFunctionOnSet(f, S) + (g[y] - f[y])
<1>1. IsFiniteSet(S \ {y})
    BY FS_RemoveElement
<1>2. SumFunctionOnSet(f, S \ {y}) = SumFunctionOnSet(g, S \ {y})
    BY <1>1, SumAgree
<1>3. /\ SumFunctionOnSet(f, S \ {y}) \in Int
      /\ SumFunctionOnSet(f, S) = f[y] + SumFunctionOnSet(f, S \ {y})
  <2>1. \A x \in S : f[x] \in Int
      OBVIOUS
  <2> QED BY <2>1, SumRemove, ZenonT(60)
<1>4. SumFunctionOnSet(g, S) = g[y] + SumFunctionOnSet(g, S \ {y})
  <2>1. \A x \in S : g[x] \in Int
      OBVIOUS
  <2> QED BY <2>1, SumRemove
<1>5. f[y] \in Int /\ g[y] \in Int
    OBVIOUS
<1> QED BY <1>2, <1>3, <1>4, <1>5

LEMMA SumMonotonic ==
    ASSUME NEW f, NEW g, NEW S, IsFiniteSet(S),
           \A x \in S : f[x] \in Int /\ g[x] \in Int /\ f[x] <= g[x]
    PROVE  SumFunctionOnSet(f, S) <= SumFunctionOnSet(g, S)
<1> DEFINE P == {T \in SUBSET S : SumFunctionOnSet(f, T) <= SumFunctionOnSet(g, T)}
<1>1. ASSUME NEW T \in SUBSET S, \A U \in SUBSET T : U # T => U \in P
      PROVE  T \in P
  <2>1. CASE T = {}
      BY <2>1, SumEmpty
  <2>2. CASE T # {}
    <3>1. PICK y \in T : TRUE
        BY <2>2
    <3>2. IsFiniteSet(T)
        BY FS_Subset
    <3>3. SumFunctionOnSet(f, T \ {y}) <= SumFunctionOnSet(g, T \ {y})
        BY <1>1, <3>1
    <3>4. /\ SumFunctionOnSet(f, T \ {y}) \in Int
          /\ SumFunctionOnSet(f, T) = f[y] + SumFunctionOnSet(f, T \ {y})
      <4>1. \A x \in T : f[x] \in Int
          OBVIOUS
      <4> QED BY ONLY <3>1, <3>2, <4>1, SumRemove
    <3>5. /\ SumFunctionOnSet(g, T \ {y}) \in Int
          /\ SumFunctionOnSet(g, T) = g[y] + SumFunctionOnSet(g, T \ {y})
      <4>1. \A x \in T : g[x] \in Int
          OBVIOUS
      <4> QED BY ONLY <3>1, <3>2, <4>1, SumRemove
    <3>6. f[y] \in Int /\ g[y] \in Int /\ f[y] <= g[y]
        OBVIOUS
    <3> QED BY <3>3, <3>4, <3>5, <3>6
  <2> QED BY <2>1, <2>2
<1>2. P = SUBSET S
  <2>1. P \in SUBSET SUBSET S
      OBVIOUS
  <2> HIDE DEF P
  <2> QED BY <1>1, <2>1, SubsetInd
<1> QED BY <1>2
-----------------------------------------------------------------------------
(* What the counts of bytes and the in-flight entries keep.                *)

Named == Host \cup {UnknownHost}
Entries == [session : Tab \cup {NoTab}, host : Named, counted : Nat]
Loads == [state : {"idle", "loading", "over"}, tab : Tab \cup {NoTab}, host : Named,
          body : Nat, hops : Nat, seen : BOOLEAN]

(* The types the argument needs.                                           *)
Typed ==
    /\ tabState \in [Tab -> {"none", "open", "closed"}] /\ url \in [Tab -> Named]
    /\ bytes \in [Tab -> Nat] /\ reported \in [Tab -> Nat] /\ deltas \in [Tab -> Nat]
    /\ inflight \in [Request -> Entries] /\ req \in [Request -> Loads]
    /\ enabled \subseteq Open

(* What has been reported of a tab is what its events add up to, never     *)
(* more than it pulled, and all of it once the tab is closed.              *)
Counted ==
    \A t \in Tab : /\ deltas[t] = reported[t] /\ reported[t] <= bytes[t]
                   /\ tabState[t] = "closed" => reported[t] = bytes[t]

IInv == Typed /\ Counted /\ InflightScoped

LEMMA InitInv == Init => IInv
<1> SUFFICES ASSUME Init PROVE IInv
    OBVIOUS
<1>1. NoEntry \in Entries /\ Idle \in Loads
    BY DEF NoEntry, Entries, Idle, Loads, Named
<1>2. Typed
    BY <1>1 DEF Init, Typed, Open, Named
<1>3. Counted /\ InflightScoped
    BY DEF Init, Counted, InflightScoped
<1> QED BY <1>2, <1>3 DEF IInv

(* Bytes are credited to tabs that are open.                               *)
LEMMA CreditInv ==
    ASSUME Typed, Counted, NEW t \in Tab, tabState[t] # "closed", NEW h,
           NEW b \in Nat, NEW n \in Nat, Credit(t, h, b, n),
           UNCHANGED <<reported, deltas, tabState>>
    PROVE  Counted' /\ bytes' \in [Tab -> Nat]
<1>1. CASE b + n = 0
  <2>1. bytes' = bytes
      BY <1>1 DEF Credit, sumVars
  <2> QED BY <2>1 DEF Typed, Counted
<1>2. CASE b + n # 0
  <2>1. bytes' = [bytes EXCEPT ![t] = @ + b]
      BY <1>2 DEF Credit
  <2>2. bytes' \in [Tab -> Nat]
      BY <2>1 DEF Typed
  <2>3. ASSUME NEW u \in Tab
        PROVE  /\ deltas'[u] = reported'[u] /\ reported'[u] <= bytes'[u]
               /\ tabState'[u] = "closed" => reported'[u] = bytes'[u]
    <3>1. /\ deltas[u] = reported[u] /\ reported[u] <= bytes[u]
          /\ tabState[u] = "closed" => reported[u] = bytes[u]
        BY DEF Counted
    <3>2. /\ u = t => bytes'[u] = bytes[u] + b
          /\ u # t => bytes'[u] = bytes[u]
        BY <2>1 DEF Typed
    <3>3. reported[u] \in Nat /\ bytes[u] \in Nat
        BY DEF Typed
    <3> QED BY <3>1, <3>2, <3>3
  <2> QED BY <2>2, <2>3 DEF Counted
<1> QED BY <1>1, <1>2

(* A report of tabs in S: all they pulled has been reported then.          *)
LEMMA EmitInv ==
    ASSUME Typed, Counted, NEW S \in SUBSET Tab, Emit(S), bytes' = bytes,
           \A t \in Tab : tabState'[t] = "closed" =>
               t \in S \/ bytes[t] = reported[t]
    PROVE  Counted' /\ reported' \in [Tab -> Nat] /\ deltas' \in [Tab -> Nat]
<1>1. ASSUME NEW t \in Tab
      PROVE  /\ deltas'[t] = reported'[t] /\ reported'[t] <= bytes'[t]
             /\ deltas'[t] \in Nat /\ reported'[t] \in Nat
             /\ tabState'[t] = "closed" => reported'[t] = bytes'[t]
  <2>1. /\ deltas[t] = reported[t] /\ reported[t] <= bytes[t]
        /\ reported[t] \in Nat /\ bytes[t] \in Nat
      BY DEF Counted, Typed
  <2>2. CASE t \in S
    <3>1. deltas'[t] = deltas[t] + bytes[t] - reported[t] /\ reported'[t] = bytes[t]
        BY <2>2 DEF Emit
    <3> QED BY <2>1, <3>1
  <2>3. CASE t \notin S
    <3>1. deltas'[t] = deltas[t] /\ reported'[t] = reported[t]
        BY <2>3 DEF Emit
    <3> QED BY <2>1, <2>3, <3>1
  <2> QED BY <2>2, <2>3
<1>2. reported' \in [Tab -> Nat] /\ deltas' \in [Tab -> Nat]
    BY <1>1 DEF Emit
<1> QED BY <1>1, <1>2 DEF Counted

(* Binding a request's host keeps the session it was first seen in.        *)
LEMMA BindInv ==
    ASSUME Typed, InflightScoped, NEW r \in Request, NEW t \in Open, NEW h \in Named,
           BindRequestHost(r, t, h), UNCHANGED tabState
    PROVE  InflightScoped' /\ inflight' \in [Request -> Entries]
<1>1. t \in Tab /\ Open' = Open /\ inflight[r] \in Entries
    BY DEF Open, Typed
<1>2. /\ \A q \in Request \ {r} : inflight'[q] = inflight[q]
      /\ inflight'[r] = IF inflight[r] = NoEntry
                        THEN [session |-> t, host |-> h, counted |-> 0]
                        ELSE [inflight[r] EXCEPT !.host = h]
      /\ DOMAIN inflight' = Request
    BY DEF BindRequestHost, Typed
<1>3. inflight'[r] \in Entries /\ inflight'[r].session \in Open
    BY <1>1, <1>2 DEF Entries, InflightScoped
<1>4. inflight' \in [Request -> Entries]
  <2>1. inflight' = [q \in Request |-> inflight'[q]]
      BY DEF BindRequestHost, Typed
  <2>2. \A q \in Request : inflight'[q] \in Entries
      BY <1>2, <1>3 DEF Typed
  <2> QED BY <2>1, <2>2
<1> QED BY <1>1, <1>2, <1>3, <1>4 DEF InflightScoped

LEMMA RetireInv ==
    ASSUME Typed, InflightScoped, NEW r \in Request, Retire(r), UNCHANGED tabState
    PROVE  InflightScoped' /\ inflight' \in [Request -> Entries]
<1>1. NoEntry \in Entries /\ Open' = Open
    BY DEF NoEntry, Entries, Named, Open
<1> QED BY <1>1 DEF Retire, Typed, InflightScoped

LEMMA ReportInv == ASSUME IInv, ReportTraffic PROVE IInv'
<1> DEFINE S == {t \in Open : bytes[t] # reported[t]}
<1>1. /\ Typed /\ Counted /\ InflightScoped /\ Emit(S) /\ S \in SUBSET Tab
      /\ UNCHANGED <<tabState, url, bytes, inflight, req, enabled>>
    BY DEF IInv, ReportTraffic, tabVars, sumVars, chromeVars, Open
<1>2. Counted' /\ reported' \in [Tab -> Nat] /\ deltas' \in [Tab -> Nat]
  <2>1. \A t \in Tab : tabState'[t] = "closed" => t \in S \/ bytes[t] = reported[t]
      BY <1>1 DEF Counted
  <2> QED BY <1>1, <2>1, EmitInv
<1>3. Typed' /\ InflightScoped'
    BY <1>1, <1>2 DEF Typed, InflightScoped, Open
<1> QED BY <1>2, <1>3 DEF IInv

(* Tabs close, one or all of them, and what was under way in them goes.    *)
LEMMA CloseInv ==
    ASSUME IInv, NEW ts, {ts[i] : i \in DOMAIN ts} \subseteq Open, CloseTabs(ts),
           req' \in [Request -> Loads]
    PROVE  IInv'
<1> DEFINE S == {ts[i] : i \in DOMAIN ts}
<1>1. /\ Typed /\ Counted /\ InflightScoped
      /\ S \in SUBSET Open /\ Open \subseteq Tab
    BY DEF IInv, Open
<1>2. /\ tabState' = [t \in Tab |-> IF t \in S THEN "closed" ELSE tabState[t]]
      /\ inflight' = [r \in Request |-> IF inflight[r].session \in S THEN NoEntry
                                        ELSE inflight[r]]
      /\ Emit({t \in S : bytes[t] > 0}) /\ enabled' = enabled \ S
      /\ UNCHANGED <<url, bytes>>
    BY DEF CloseTabs, DropInflight, sumVars
<1> HIDE DEF S
<1>3. Open' = Open \ S
    BY <1>1, <1>2 DEF Open
<1>4. NoEntry \in Entries
    BY DEF NoEntry, Entries, Named
<1>5. Counted' /\ reported' \in [Tab -> Nat] /\ deltas' \in [Tab -> Nat]
  <2>1. {t \in S : bytes[t] > 0} \in SUBSET Tab
      BY <1>1
  <2>2. ASSUME NEW t \in Tab, tabState'[t] = "closed"
        PROVE  t \in {x \in S : bytes[x] > 0} \/ bytes[t] = reported[t]
    <3>1. bytes[t] \in Nat /\ reported[t] \in Nat /\ reported[t] <= bytes[t]
        BY <1>1 DEF Typed, Counted
    <3>2. CASE t \in S
        BY <3>1, <3>2
    <3>3. CASE t \notin S
        BY <1>1, <1>2, <2>2, <3>3 DEF Counted
    <3> QED BY <3>2, <3>3
  <2> QED BY <1>1, <1>2, <2>1, <2>2, EmitInv
<1>6. InflightScoped'
    BY <1>1, <1>2, <1>3 DEF InflightScoped
<1>7. /\ tabState' \in [Tab -> {"none", "open", "closed"}]
      /\ inflight' \in [Request -> Entries] /\ enabled' \subseteq Open'
    BY <1>1, <1>2, <1>3, <1>4 DEF Typed
<1>8. Typed'
    BY <1>1, <1>2, <1>5, <1>7 DEF Typed
<1> QED BY <1>5, <1>6, <1>8 DEF IInv

LEMMA GoneInv ==
    ASSUME IInv, Drop \/ \E t \in Tab : Detach(t) PROVE IInv'
<1>1. Typed /\ Over \in Loads
    BY DEF IInv, Over, Idle, Loads, Named
<1>2. ASSUME NEW r \in Request PROVE [req[r] EXCEPT !.tab = NoTab, !.seen = FALSE] \in Loads
  <2>1. req[r] \in Loads
      BY <1>1 DEF Typed
  <2>2. [req[r] EXCEPT !.tab = NoTab] \in Loads
      BY <2>1 DEF Loads
  <2> QED BY <2>2 DEF Loads
<1>3. CASE Drop
  <2>1. req' \in [Request -> Loads]
      BY <1>1, <1>2, <1>3 DEF Drop, Typed
  <2>2. PICK ts \in [1..Cardinality(Open) -> Open] : CloseTabs(ts)
      BY <1>3 DEF Drop
  <2>3. {ts[i] : i \in DOMAIN ts} \subseteq Open
      BY <2>2
  <2> QED BY <2>1, <2>2, <2>3, CloseInv
<1>4. ASSUME NEW t \in Tab, Detach(t) PROVE IInv'
  <2>1. /\ tabState[t] = "open" /\ CloseTabs(<<t>>)
        /\ req' = [r \in Request |-> IF req[r].tab = t THEN Over ELSE req[r]]
      BY <1>4 DEF Detach
  <2>2. req' \in [Request -> Loads]
      BY <1>1, <2>1 DEF Typed
  <2>3. {<<t>>[i] : i \in DOMAIN <<t>>} \subseteq Open
      BY <2>1 DEF Open
  <2> QED BY <2>1, <2>2, <2>3, CloseInv
<1> QED BY <1>3, <1>4

(* Tabs come up and move on.                                               *)
LEMMA TabInv ==
    ASSUME IInv, NEW t \in Tab,
           \/ \E u \in Host \cup {UnknownHost} : Attach(t, u)
           \/ Enable(t) \/ \E h \in Host : Navigate(t, h)
    PROVE  IInv'
<1>1. Typed /\ Counted /\ InflightScoped
    BY DEF IInv
<1>2. CASE \E u \in Host \cup {UnknownHost} : Attach(t, u)
  <2>1. PICK u \in Named :
            /\ tabState[t] = "none" /\ tabState' = [tabState EXCEPT ![t] = "open"]
            /\ url' = [url EXCEPT ![t] = u]
            /\ UNCHANGED <<bytes, reported, deltas, inflight, enabled>>
      BY <1>2 DEF Attach, Named, sumVars, eventVars
  <2>2. req' \in [Request -> Loads]
    <3>1. ASSUME NEW r \in Request PROVE [req[r] EXCEPT !.tab = t] \in Loads
      <4>1. req[r] \in Loads
          BY <1>1 DEF Typed
      <4> QED BY <4>1 DEF Loads
    <3>2. PICK A : req' = [r \in Request |-> IF r \in A THEN [req[r] EXCEPT !.tab = t]
                                             ELSE req[r]]
        BY <1>2 DEF Attach
    <3> QED BY <1>1, <3>1, <3>2 DEF Typed
  <2>3. Open' = Open \cup {t}
      BY <1>1, <2>1 DEF Open, Typed
  <2>4. tabState' \in [Tab -> {"none", "open", "closed"}] /\ url' \in [Tab -> Named]
      BY <1>1, <2>1 DEF Typed
  <2>5. Typed'
      BY <1>1, <2>1, <2>2, <2>3, <2>4 DEF Typed
  <2>6. Counted'
      BY <1>1, <2>1 DEF Counted, Typed
  <2>7. InflightScoped'
      BY <1>1, <2>1, <2>3 DEF InflightScoped
  <2> QED BY <2>5, <2>6, <2>7 DEF IInv
<1>3. CASE Enable(t)
  <2>1. /\ tabState[t] = "open" /\ enabled' = enabled \cup {t}
        /\ UNCHANGED <<tabState, url, bytes, reported, deltas, inflight, req>>
      BY <1>3 DEF Enable, tabVars, sumVars, eventVars
  <2> QED BY <1>1, <2>1 DEF IInv, Typed, Counted, InflightScoped, Open
<1>4. CASE \E h \in Host : Navigate(t, h)
  <2>1. /\ url' \in [Tab -> Named]
        /\ UNCHANGED <<tabState, bytes, reported, deltas, inflight, req, enabled>>
      BY <1>1, <1>4 DEF Navigate, Typed, Named, sumVars, eventVars, chromeVars
  <2> QED BY <1>1, <2>1 DEF IInv, Typed, Counted, InflightScoped, Open
<1> QED BY <1>2, <1>3, <1>4

(* A request starts, is redirected, or turns out to be elsewhere.          *)
LEMMA SentInv ==
    ASSUME IInv, NEW r \in Request,
           \/ \E t \in Tab, h \in Host : Start(r, t, h)
           \/ \E h \in Host : Redirect(r, h)
           \/ Respond(r)
    PROVE  IInv'
<1>1. /\ Typed /\ Counted /\ InflightScoped /\ req[r] \in Loads
    BY DEF IInv, Typed
<1>2. ASSUME req' \in [Request -> Loads],
             UNCHANGED <<tabState, url, bytes, reported, deltas, enabled>>,
             \/ UNCHANGED inflight
             \/ \E t \in Open, h \in Named : BindRequestHost(r, t, h)
      PROVE  IInv'
  <2>1. Open' = Open /\ Counted'
      BY <1>1, <1>2 DEF Open, Counted
  <2>2. InflightScoped' /\ inflight' \in [Request -> Entries]
    <3>1. CASE UNCHANGED inflight
        BY <1>1, <2>1, <3>1 DEF InflightScoped, Typed
    <3>2. CASE \E t \in Open, h \in Named : BindRequestHost(r, t, h)
        BY <1>1, <1>2, <3>2, BindInv
    <3> QED BY <1>2, <3>1, <3>2
  <2> QED BY <1>1, <1>2, <2>1, <2>2 DEF IInv, Typed
<1>3. CASE \E t \in Tab, h \in Host : Start(r, t, h)
  <2>1. PICK t \in Tab, h \in Host : Start(r, t, h)
      BY <1>3
  <2>2. /\ t \in Open /\ h \in Named
        /\ req' = [req EXCEPT ![r] = [state |-> "loading", tab |-> t, host |-> h,
                                      body |-> 0, hops |-> 1, seen |-> t \in enabled]]
        /\ BindRequestHost(r, t, h) \/ UNCHANGED inflight
        /\ UNCHANGED <<tabState, url, bytes, reported, deltas, enabled>>
      BY <2>1 DEF Start, Open, Named, tabVars, sumVars, eventVars
  <2>3. [state |-> "loading", tab |-> t, host |-> h, body |-> 0, hops |-> 1,
         seen |-> t \in enabled] \in Loads
      BY <2>2 DEF Loads
  <2>4. req' \in [Request -> Loads]
      BY <1>1, <2>2, <2>3 DEF Typed
  <2> QED BY <1>2, <2>2, <2>4
<1>4. CASE \E h \in Host : Redirect(r, h)
  <2>1. PICK h \in Host : Redirect(r, h)
      BY <1>4
  <2> DEFINE e == req[r].tab \in enabled
  <2>2. /\ h \in Named /\ e \in BOOLEAN
        /\ e => req[r].tab \in Open /\ BindRequestHost(r, req[r].tab, h)
        /\ ~e => UNCHANGED inflight
        /\ req' = [req EXCEPT ![r].host = h, ![r].body = 0, ![r].hops = @ + 1, ![r].seen = e]
        /\ UNCHANGED <<tabState, url, bytes, reported, deltas, enabled>>
    <3>1. e \in BOOLEAN /\ h \in Named
        BY DEF Named
    <3>2. /\ e => req[r].tab \in Open /\ BindRequestHost(r, req[r].tab, h)
          /\ ~e => UNCHANGED inflight
        BY <1>1, <2>1 DEF Redirect, Typed
    <3>3. /\ req' = [req EXCEPT ![r].host = h, ![r].body = 0, ![r].hops = @ + 1, ![r].seen = e]
          /\ UNCHANGED <<tabState, url, bytes, reported, deltas, enabled>>
        BY <2>1 DEF Redirect, tabVars, sumVars, eventVars
    <3> QED BY <3>1, <3>2, <3>3
  <2> HIDE DEF e
  <2>3. req' = [req EXCEPT ![r] = [req[r] EXCEPT !.host = h, !.body = 0,
                                                 !.hops = req[r].hops + 1, !.seen = e]]
      BY <1>1, <2>2 DEF Typed, Loads
  <2>4. [req[r] EXCEPT !.host = h, !.body = 0, !.hops = req[r].hops + 1, !.seen = e] \in Loads
    <3>1. [req[r] EXCEPT !.host = h] \in Loads
        BY <1>1, <2>2 DEF Loads
    <3>2. [[req[r] EXCEPT !.host = h] EXCEPT !.body = 0] \in Loads
        BY <3>1 DEF Loads
    <3>3. req[r].hops + 1 \in Nat
        BY <1>1 DEF Loads
    <3>4. [[[req[r] EXCEPT !.host = h] EXCEPT !.body = 0] EXCEPT !.hops = req[r].hops + 1] \in Loads
        BY <3>2, <3>3 DEF Loads
    <3> QED BY <2>2, <3>4 DEF Loads
  <2>5. req' \in [Request -> Loads]
      BY <1>1, <2>3, <2>4 DEF Typed
  <2> QED BY <1>2, <2>2, <2>5
<1>5. CASE Respond(r)
  <2>1. /\ req[r].tab \in Open /\ BindRequestHost(r, req[r].tab, req[r].host)
        /\ req' = [req EXCEPT ![r].seen = TRUE]
        /\ UNCHANGED <<tabState, url, bytes, reported, deltas, enabled>>
      BY <1>1, <1>5 DEF Respond, Typed, tabVars, sumVars, eventVars
  <2>2. req[r].host \in Named /\ [req[r] EXCEPT !.seen = TRUE] \in Loads
      BY <1>1 DEF Loads
  <2>3. req' \in [Request -> Loads]
      BY <1>1, <2>1, <2>2 DEF Typed
  <2> QED BY <1>2, <2>1, <2>2, <2>3
<1> QED BY <1>3, <1>4, <1>5

(* Bytes arrive, and a request ends.                                       *)
LEMMA BytesInv ==
    ASSUME IInv, NEW r \in Request,
           Data(r) \/ Fail(r) \/ \E n \in 0..MaxHeader : Finish(r, n)
    PROVE  IInv'
<1>1. /\ Typed /\ Counted /\ InflightScoped
      /\ req[r] \in Loads /\ inflight[r] \in Entries /\ enabled \subseteq Open
    BY DEF IInv, Typed
<1> DEFINE t == req[r].tab
<1>2. UNCHANGED <<tabState, url, reported, deltas, enabled>>
    BY DEF Data, Fail, Finish, tabVars, eventVars
<1>3. ASSUME req' \in [Request -> Loads],
             Counted', bytes' \in [Tab -> Nat],
             InflightScoped', inflight' \in [Request -> Entries]
      PROVE  IInv'
    BY <1>1, <1>2, <1>3 DEF IInv, Typed, Open
<1>4. t \in enabled => t \in Tab /\ t \in Open /\ tabState[t] # "closed"
    BY <1>1 DEF Open
<1>5. t \in enabled => HostFor(r, t) \in Named
    BY <1>1, <1>4 DEF HostFor, FallbackHost, Typed, Entries
<1>6. req' \in [Request -> Loads]
  <2>1. Over \in Loads
      BY DEF Over, Idle, Loads, Named
  <2>2. CASE Data(r)
    <3>1. req' = [req EXCEPT ![r] = [req[r] EXCEPT !.body = req[r].body + 1]]
        BY <1>1, <2>2 DEF Data, Typed, Loads
    <3>2. [req[r] EXCEPT !.body = req[r].body + 1] \in Loads
        BY <1>1 DEF Loads
    <3> QED BY <1>1, <3>1, <3>2 DEF Typed
  <2>3. CASE ~Data(r)
    <3>1. req' = [req EXCEPT ![r] = Over]
        BY <2>3 DEF Fail, Finish
    <3> QED BY <1>1, <2>1, <3>1 DEF Typed
  <2> QED BY <2>2, <2>3
<1>7. CASE t \notin enabled
  <2>1. UNCHANGED <<inflight, bytes>>
      BY <1>7 DEF Data, Fail, Finish, sumVars
  <2>2. Counted' /\ InflightScoped' /\ bytes' \in [Tab -> Nat]
        /\ inflight' \in [Request -> Entries]
      BY <1>1, <1>2, <2>1 DEF Counted, InflightScoped, Open, Typed
  <2> QED BY <1>3, <1>6, <2>2
<1>8. CASE t \in enabled /\ Data(r)
  <2>1. OnDataReceived(r, t, 1)
      BY <1>8 DEF Data
  <2>2. Counted' /\ bytes' \in [Tab -> Nat]
      BY <1>1, <1>2, <1>4, <1>8, <2>1, CreditInv DEF OnDataReceived
  <2>3. /\ \A q \in Request \ {r} : inflight'[q] = inflight[q]
        /\ inflight'[r] = [session |-> IF inflight[r] = NoEntry THEN t
                                       ELSE inflight[r].session,
                           host |-> HostFor(r, t), counted |-> inflight[r].counted + 1]
        /\ DOMAIN inflight' = Request
        /\ inflight' = [q \in Request |-> inflight'[q]]
      BY <1>1, <2>1 DEF OnDataReceived, Typed
  <2>4. inflight'[r] \in Entries /\ inflight'[r].session \in Open
      BY <1>1, <1>4, <1>5, <1>8, <2>3 DEF Entries, InflightScoped
  <2>5. inflight' \in [Request -> Entries]
    <3>1. \A q \in Request : inflight'[q] \in Entries
        BY <1>1, <2>3, <2>4 DEF Typed
    <3> QED BY <2>3, <3>1
  <2>6. InflightScoped'
      BY <1>1, <1>2, <2>3, <2>4 DEF InflightScoped, Open
  <2> QED BY <1>3, <1>6, <2>2, <2>5, <2>6
<1>9. CASE t \in enabled /\ ~Data(r)
  <2>1. PICK b \in Nat : Credit(t, HostFor(r, t), b, 1) /\ Retire(r)
    <3>1. CASE Fail(r)
        BY <1>9, <3>1 DEF Fail, OnLoadingFailed
    <3>2. CASE ~Fail(r)
      <4>1. PICK n \in 0..MaxHeader : OnLoadingFinished(r, t, req[r].body + n)
          BY <1>9, <3>2 DEF Finish
      <4>2. Remainder(r, req[r].body + n) \in Nat
        <5>1. n \in Nat /\ req[r].body \in Nat /\ inflight[r].counted \in Nat
            BY <1>1, TrafficAssumption DEF Loads, Entries
        <5> QED BY <5>1 DEF Remainder
      <4> QED BY <4>1, <4>2 DEF OnLoadingFinished
    <3> QED BY <3>1, <3>2
  <2>2. Counted' /\ bytes' \in [Tab -> Nat]
      BY <1>1, <1>2, <1>4, <1>9, <2>1, CreditInv
  <2>3. InflightScoped' /\ inflight' \in [Request -> Entries]
      BY <1>1, <1>2, <2>1, RetireInv
  <2> QED BY <1>3, <1>6, <2>2, <2>3
<1> QED BY <1>7, <1>8, <1>9

LEMMA NextInv == IInv /\ [Next]_vars => IInv'
<1> SUFFICES ASSUME IInv, [Next]_vars PROVE IInv'
    OBVIOUS
<1>1. CASE ReportTraffic
    BY <1>1, ReportInv
<1>2. CASE Drop \/ \E t \in Tab : Detach(t)
    BY <1>2, GoneInv
<1>3. ASSUME NEW t \in Tab,
             \/ \E u \in Host \cup {UnknownHost} : Attach(t, u)
             \/ Enable(t) \/ \E h \in Host : Navigate(t, h)
      PROVE  IInv'
    BY <1>3, TabInv
<1>4. ASSUME NEW t \in Tab, NEW r \in Request, NEW h \in Host, Start(r, t, h)
      PROVE  IInv'
    BY <1>4, SentInv
<1>5. ASSUME NEW r \in Request, Respond(r) \/ \E h \in Host : Redirect(r, h)
      PROVE  IInv'
    BY <1>5, SentInv
<1>6. ASSUME NEW r \in Request,
             Data(r) \/ Fail(r) \/ \E n \in 0..MaxHeader : Finish(r, n)
      PROVE  IInv'
    BY <1>6, BytesInv
<1>7. CASE UNCHANGED vars
  <2>1. UNCHANGED <<tabState, url, bytes, reported, deltas, inflight, req, enabled>>
      BY <1>7 DEF vars, tabVars, sumVars, eventVars, chromeVars
  <2> QED BY <2>1 DEF IInv, Typed, Counted, InflightScoped, Open
<1> QED BY <1>1, <1>2, <1>3, <1>4, <1>5, <1>6, <1>7 DEF Next

(* The inductive invariant, whatever the order of events (traffic.py:183-189). *)
(* For any number of tabs, requests and hosts.                             *)
THEOREM Invariance == Spec => []IInv
BY InitInv, NextInv, PTL DEF Spec

(* _inflight holds only requests of open tabs, however tabs and the        *)
(* connection come and go (traffic.py:183-188).                            *)
THEOREM EntriesGoWithTheirTab == Spec => []InflightScoped
<1>1. IInv => InflightScoped
    BY DEF IInv
<1> QED BY <1>1, Invariance, PTL

(* The bytes_delta of a tab's events add up to what it pulled, wherever    *)
(* the periodic rollups fall (main.py:314-356).                            *)
THEOREM DeltasSum == Spec => []DeltasAddUp
<1>1. IInv => DeltasAddUp
    BY DEF IInv, Counted, DeltasAddUp
<1> QED BY <1>1, Invariance, PTL
-----------------------------------------------------------------------------
(* The counts agree.                                                       *)

(* A value changes, or one is added.                                       *)
LEMMA SumGrows ==
    ASSUME NEW S, IsFiniteSet(S), NEW T, NEW y \in T, T = S \cup {y},
           NEW f, \A x \in S : f[x] \in Int, NEW g, \A x \in T : g[x] \in Int,
           \A x \in S : x # y => f[x] = g[x]
    PROVE  /\ SumFunctionOnSet(f, S) \in Int
           /\ y \in S => SumFunctionOnSet(g, T) = SumFunctionOnSet(f, S) + (g[y] - f[y])
           /\ y \notin S => SumFunctionOnSet(g, T) = SumFunctionOnSet(f, S) + g[y]
<1>1. SumFunctionOnSet(f, S) \in Int
    BY SumType
<1>2. ASSUME y \in S
      PROVE  SumFunctionOnSet(g, T) = SumFunctionOnSet(f, S) + (g[y] - f[y])
  <2>1. T = S
      BY <1>2
  <2>2. \A x \in S : f[x] \in Int /\ g[x] \in Int
      BY <2>1
  <2>3. \A x \in S \ {y} : f[x] = g[x]
      OBVIOUS
  <2>4. SumFunctionOnSet(g, S) = SumFunctionOnSet(f, S) + (g[y] - f[y])
      BY <1>2, <2>2, <2>3, SumChange
  <2> QED BY <2>1, <2>4
<1>3. ASSUME y \notin S
      PROVE  SumFunctionOnSet(g, T) = SumFunctionOnSet(f, S) + g[y]
  <2>1. IsFiniteSet(T) /\ T \ {y} = S
      BY <1>3, FS_AddElement
  <2>2. SumFunctionOnSet(g, T) = g[y] + SumFunctionOnSet(g, T \ {y})
      BY <2>1, SumRemove
  <2>3. \A x \in S : f[x] = g[x]
      BY <1>3
  <2>4. SumFunctionOnSet(f, S) = SumFunctionOnSet(g, S)
      BY <2>3, SumAgree
  <2>5. g[y] \in Int
      OBVIOUS
  <2>6. SumFunctionOnSet(g, T) = g[y] + SumFunctionOnSet(f, S)
      BY <2>1, <2>2, <2>4
  <2> QED BY <1>1, <2>5, <2>6
<1> QED BY <1>1, <1>2, <1>3

LEMMA SumZero ==
    ASSUME NEW f, NEW S, IsFiniteSet(S), \A x \in S : f[x] = 0
    PROVE  SumFunctionOnSet(f, S) = 0
<1> DEFINE P == {T \in SUBSET S : SumFunctionOnSet(f, T) = 0}
<1>1. ASSUME NEW T \in SUBSET S, \A U \in SUBSET T : U # T => U \in P
      PROVE  T \in P
  <2>1. CASE T = {}
      BY <2>1, SumEmpty
  <2>2. CASE T # {}
    <3>1. PICK y \in T : TRUE
        BY <2>2
    <3>2. IsFiniteSet(T)
        BY FS_Subset
    <3>3. SumFunctionOnSet(f, T \ {y}) = 0
        BY <1>1, <3>1
    <3>4. SumFunctionOnSet(f, T) = f[y] + SumFunctionOnSet(f, T \ {y})
      <4>1. \A x \in T : f[x] \in Int
          OBVIOUS
      <4> QED BY ONLY <3>1, <3>2, <4>1, SumRemove
    <3>5. f[y] = 0
        BY <3>1
    <3> QED BY <3>3, <3>4, <3>5
  <2> QED BY <2>1, <2>2
<1>2. P = SUBSET S
  <2>1. P \in SUBSET SUBSET S
      OBVIOUS
  <2> HIDE DEF P
  <2> QED BY <1>1, <2>1, SubsetInd
<1> QED BY <1>2

(* A table of hosts.                                                       *)
IsTable(f) == IsTotals(f) /\ IsFiniteSet(DOMAIN f)

(* Every value of a table, and of the zeros for hosts it lacks.            *)
LEMMA AtType ==
    ASSUME NEW f, IsTable(f), NEW h PROVE At(f, h).bytes \in Nat /\ At(f, h).requests \in Nat
BY DEF IsTable, IsTotals, At, Zero

LEMMA EmptyTable ==
    IsTable(<<>>) /\ Bytes(<<>>) = 0 /\ Requests(<<>>) = 0
<1>1. DOMAIN <<>> = {}
    OBVIOUS
<1>2. IsFiniteSet({}) /\ Cardinality({}) = 0 /\ {} \ {OverflowHost} = {}
    BY FS_EmptySet
<1>3. MaxTrackedHosts \in Nat
    BY TrafficAssumption
<1>4. IsTable(<<>>)
    BY <1>1, <1>2, <1>3 DEF IsTable, IsTotals
<1>5. /\ DOMAIN [h \in DOMAIN <<>> |-> <<>>[h].bytes] = {}
      /\ DOMAIN [h \in DOMAIN <<>> |-> <<>>[h].requests] = {}
    BY <1>1
<1> QED BY <1>4, <1>5, SumEmpty DEF Bytes, Requests, SumFunction

(* What is added for a host, in its entry or in the overflow bucket, is    *)
(* added to the table's sums and to nothing else.                          *)
LEMMA AddedTable ==
    ASSUME NEW f, IsTable(f), NEW h \in Named, NEW b \in Nat, NEW n \in Nat,
           NEW k, k = Bucket(f, h), NEW g, g = Added(f, h, b, n)
    PROVE  /\ IsTable(g)
           /\ DOMAIN g = DOMAIN f \cup {k} /\ k \in {h, OverflowHost}
           /\ h \in DOMAIN f => k = h
           /\ k # h => Cardinality(DOMAIN f) >= MaxTrackedHosts
           /\ k = h /\ h \notin DOMAIN f => Cardinality(DOMAIN f) < MaxTrackedHosts
           /\ g[k] = [bytes |-> At(f, k).bytes + b, requests |-> At(f, k).requests + n]
           /\ \A x \in DOMAIN f \ {k} : g[x] = f[x]
           /\ Bytes(f) \in Int /\ Bytes(g) = Bytes(f) + b
           /\ Requests(f) \in Int /\ Requests(g) = Requests(f) + n
<1> DEFINE S == DOMAIN f
<1>1. g = [x \in S \cup {k} |->
              IF x = k THEN [bytes |-> At(f, k).bytes + b,
                             requests |-> At(f, k).requests + n] ELSE f[x]]
    BY DEF Added
<1>2. IsFiniteSet(S) /\ S \subseteq AnyHost /\ Cardinality(S) \in Nat
    BY FS_CardinalityType DEF IsTable, IsTotals
<1>3. /\ k \in {h, OverflowHost} /\ k \in AnyHost /\ (h \in S => k = h)
      /\ k # h => ~(Cardinality(S) < MaxTrackedHosts)
      /\ k = OverflowHost \/ k \in S \/ Cardinality(S) < MaxTrackedHosts
    BY DEF Bucket, AnyHost, Named
<1>4. MaxTrackedHosts \in Nat /\ OverflowHost \notin Named
    BY TrafficAssumption DEF Named
<1>5. DOMAIN g = S \cup {k} /\ \A x \in S \ {k} : g[x] = f[x]
    BY <1>1
<1>6. g[k] = [bytes |-> At(f, k).bytes + b, requests |-> At(f, k).requests + n]
    BY <1>1
<1>7. /\ At(f, k).bytes \in Nat /\ At(f, k).requests \in Nat
      /\ k \in S => At(f, k) = f[k]
      /\ k \notin S => At(f, k).bytes = 0 /\ At(f, k).requests = 0
    BY AtType DEF At, Zero
<1>8. \A x \in S : f[x] \in [bytes : Nat, requests : Nat]
    BY DEF IsTable, IsTotals
<1>9. g[k] \in [bytes : Nat, requests : Nat]
    BY <1>6, <1>7
<1>10. \A x \in S \cup {k} : g[x] \in [bytes : Nat, requests : Nat]
    BY <1>5, <1>8, <1>9
<1>11. IsFiniteSet(S \cup {k}) /\ Cardinality((S \cup {k}) \ {OverflowHost}) <= MaxTrackedHosts
  <2> DEFINE R == S \ {OverflowHost}
  <2>1. IsFiniteSet(S \cup {k})
      BY <1>2, FS_AddElement
  <2>2. /\ IsFiniteSet(R) /\ Cardinality(R) \in Nat /\ Cardinality(R) <= Cardinality(S)
        /\ Cardinality(R) <= MaxTrackedHosts
      BY <1>2, FS_Subset, FS_CardinalityType DEF IsTable, IsTotals
  <2>3. CASE k = OverflowHost \/ k \in S
    <3>1. (S \cup {k}) \ {OverflowHost} = R
        BY <2>3
    <3> QED BY <2>1, <2>2, <3>1
  <2>4. CASE k # OverflowHost /\ k \notin S
    <3>1. (S \cup {k}) \ {OverflowHost} = R \cup {k} /\ k \notin R
        BY <2>4
    <3> HIDE DEF R
    <3>2. Cardinality(R \cup {k}) = Cardinality(R) + 1
        BY <2>2, <3>1, FS_AddElement
    <3>3. Cardinality(S) < MaxTrackedHosts
        BY <1>3, <2>4
    <3> QED BY <1>2, <1>4, <2>1, <2>2, <3>1, <3>2, <3>3
  <2> QED BY <2>3, <2>4
<1>12. IsTable(g)
    BY <1>2, <1>3, <1>5, <1>10, <1>11 DEF IsTable, IsTotals
<1>13. Bytes(f) \in Int /\ Bytes(g) = Bytes(f) + b
  <2> DEFINE F == [x \in S |-> f[x].bytes]
             T == DOMAIN g
             G == [x \in T |-> g[x].bytes]
  <2>1. k \in T /\ T = S \cup {k} /\ IsFiniteSet(S)
      BY <1>2, <1>5
  <2>2. \A x \in S : F[x] \in Int
      BY <1>8
  <2>3. \A x \in T : G[x] \in Int
      BY <2>1, <1>10
  <2>4. \A x \in S : x # k => F[x] = G[x]
      BY <1>5
  <2>5. G[k] = At(f, k).bytes + b /\ (k \in S => F[k] = At(f, k).bytes)
      BY <1>6, <1>7, <2>1
  <2>6. Bytes(f) = SumFunctionOnSet(F, S) /\ Bytes(g) = SumFunctionOnSet(G, T)
      BY DEF Bytes, SumFunction
  <2> HIDE DEF F, G, S, T
  <2>7. /\ SumFunctionOnSet(F, S) \in Int
        /\ k \in S => SumFunctionOnSet(G, T) = SumFunctionOnSet(F, S) + (G[k] - F[k])
        /\ k \notin S => SumFunctionOnSet(G, T) = SumFunctionOnSet(F, S) + G[k]
      BY ONLY <2>1, <2>2, <2>3, <2>4, SumGrows
  <2> QED BY <1>7, <2>5, <2>6, <2>7
<1>14. Requests(f) \in Int /\ Requests(g) = Requests(f) + n
  <2> DEFINE F == [x \in S |-> f[x].requests]
             T == DOMAIN g
             G == [x \in T |-> g[x].requests]
  <2>1. k \in T /\ T = S \cup {k} /\ IsFiniteSet(S)
      BY <1>2, <1>5
  <2>2. \A x \in S : F[x] \in Int
      BY <1>8
  <2>3. \A x \in T : G[x] \in Int
      BY <2>1, <1>10
  <2>4. \A x \in S : x # k => F[x] = G[x]
      BY <1>5
  <2>5. G[k] = At(f, k).requests + n /\ (k \in S => F[k] = At(f, k).requests)
      BY <1>6, <1>7, <2>1
  <2>6. Requests(f) = SumFunctionOnSet(F, S) /\ Requests(g) = SumFunctionOnSet(G, T)
      BY DEF Requests, SumFunction
  <2> HIDE DEF F, G, S, T
  <2>7. /\ SumFunctionOnSet(F, S) \in Int
        /\ k \in S => SumFunctionOnSet(G, T) = SumFunctionOnSet(F, S) + (G[k] - F[k])
        /\ k \notin S => SumFunctionOnSet(G, T) = SumFunctionOnSet(F, S) + G[k]
      BY ONLY <2>1, <2>2, <2>3, <2>4, SumGrows
  <2> QED BY <1>7, <2>5, <2>6, <2>7
<1> QED BY <1>2, <1>3, <1>4, <1>5, <1>6, <1>12, <1>13, <1>14
(* A host a tab's table names is in the rollup, or the rollup is full.     *)
HostsTracked ==
    \/ Cardinality(DOMAIN hostTotals) >= MaxTrackedHosts
    \/ \A t \in Tab : DOMAIN byHost[t] \ {OverflowHost} \subseteq DOMAIN hostTotals

Tables ==
    /\ bytes \in [Tab -> Nat] /\ requests \in [Tab -> Nat]
    /\ totalBytes \in Nat /\ totalRequests \in Nat
    /\ DOMAIN byHost = Tab /\ \A t \in Tab : IsTable(byHost[t])
    /\ IsTable(hostTotals)

Sums == Tables /\ HostsTracked /\ Conservation

LEMMA InitSums == Init => Sums
<1> SUFFICES ASSUME Init PROVE Sums
    OBVIOUS
<1>1. IsTable(<<>>) /\ Bytes(<<>>) = 0 /\ Requests(<<>>) = 0
    BY EmptyTable
<1>2. Tables
    BY <1>1 DEF Init, Tables
<1>3. /\ DOMAIN hostTotals = {} /\ \A t \in Tab : DOMAIN byHost[t] = {}
    BY DEF Init
<1>4. HostsTracked
    BY <1>3 DEF HostsTracked
<1>5. IsFiniteSet(Tab)
    BY TrafficAssumption
<1>6. SumFunction(bytes) = 0 /\ SumFunction(requests) = 0
  <2>1. DOMAIN bytes = Tab /\ DOMAIN requests = Tab
      BY DEF Init
  <2>2. \A t \in Tab : bytes[t] = 0
      BY DEF Init
  <2>3. \A t \in Tab : requests[t] = 0
      BY DEF Init
  <2>4. SumFunctionOnSet(bytes, Tab) = 0
      BY <1>5, <2>2, SumZero
  <2>5. SumFunctionOnSet(requests, Tab) = 0
      BY <1>5, <2>3, SumZero
  <2> QED BY <2>1, <2>4, <2>5 DEF SumFunction
<1>7. RollupCoversTabs
    BY <1>3 DEF RollupCoversTabs
<1>8. Conservation
    BY <1>1, <1>6, <1>7 DEF Init, Conservation
<1> QED BY <1>2, <1>4, <1>8 DEF Sums

LEMMA KeptSums == ASSUME Sums, UNCHANGED sumVars PROVE Sums'
<1>1. UNCHANGED <<bytes, requests, byHost, hostTotals, totalBytes, totalRequests>>
    BY DEF sumVars
<1>2. Tables' /\ HostsTracked'
    BY <1>1 DEF Sums, Tables, HostsTracked
<1>3. RollupCoversTabs'
    BY <1>1 DEF Sums, Conservation, RollupCoversTabs
<1>4. Conservation'
    BY <1>1, <1>3 DEF Sums, Conservation
<1> QED BY <1>2, <1>4 DEF Sums

(* Bytes credited to a tab and a host are added to every count.            *)
LEMMA CreditSums ==
    ASSUME Sums, NEW t \in Tab, NEW h \in Named, NEW b \in Nat, NEW n \in Nat,
           b + n # 0, Credit(t, h, b, n)
    PROVE  Sums'
<1>1. /\ Tables /\ HostsTracked /\ Conservation /\ IsFiniteSet(Tab)
      /\ OverflowHost \notin Named /\ MaxTrackedHosts \in Nat
    BY TrafficAssumption DEF Sums, Named
<1>2. /\ bytes' = [bytes EXCEPT ![t] = @ + b]
      /\ requests' = [requests EXCEPT ![t] = @ + n]
      /\ byHost' = [byHost EXCEPT ![t] = Added(@, h, b, n)]
      /\ hostTotals' = Added(hostTotals, h, b, n)
      /\ totalBytes' = totalBytes + b
      /\ totalRequests' = totalRequests + n
    BY DEF Credit
<1> DEFINE f1 == byHost[t]
           k1 == Bucket(byHost[t], h)
           k2 == Bucket(hostTotals, h)
<1>3. /\ byHost'[t] = Added(byHost[t], h, b, n) /\ DOMAIN byHost' = Tab
      /\ \A u \in Tab \ {t} : byHost'[u] = byHost[u]
    BY <1>1, <1>2 DEF Tables
<1>4. /\ IsTable(byHost'[t])
      /\ DOMAIN byHost'[t] = DOMAIN byHost[t] \cup {k1} /\ k1 \in {h, OverflowHost}
      /\ h \in DOMAIN byHost[t] => k1 = h
      /\ byHost'[t][k1] = [bytes |-> At(byHost[t], k1).bytes + b,
                           requests |-> At(byHost[t], k1).requests + n]
      /\ \A x \in DOMAIN byHost[t] \ {k1} : byHost'[t][x] = byHost[t][x]
      /\ Bytes(byHost'[t]) = Bytes(byHost[t]) + b
      /\ Requests(byHost'[t]) = Requests(byHost[t]) + n
  <2>1. IsTable(byHost[t])
      BY <1>1 DEF Tables
  <2> HIDE DEF k1
  <2>2. k1 = Bucket(byHost[t], h)
      BY DEF k1
  <2> QED BY <1>3, <2>1, <2>2, AddedTable, SMTT(30)
<1>5. /\ IsTable(hostTotals')
      /\ DOMAIN hostTotals' = DOMAIN hostTotals \cup {k2} /\ k2 \in {h, OverflowHost}
      /\ h \in DOMAIN hostTotals => k2 = h
      /\ k2 # h => Cardinality(DOMAIN hostTotals) >= MaxTrackedHosts
      /\ k2 = h /\ h \notin DOMAIN hostTotals =>
             Cardinality(DOMAIN hostTotals) < MaxTrackedHosts
      /\ hostTotals'[k2] = [bytes |-> At(hostTotals, k2).bytes + b,
                            requests |-> At(hostTotals, k2).requests + n]
      /\ \A x \in DOMAIN hostTotals \ {k2} : hostTotals'[x] = hostTotals[x]
      /\ Bytes(hostTotals') = Bytes(hostTotals) + b
      /\ Requests(hostTotals') = Requests(hostTotals) + n
  <2>1. IsTable(hostTotals)
      BY <1>1 DEF Tables
  <2> HIDE DEF k2
  <2>2. k2 = Bucket(hostTotals, h)
      BY DEF k2
  <2> QED BY <1>2, <2>1, <2>2, AddedTable
<1> HIDE DEF k1, k2
<1>6. Tables'
    BY <1>1, <1>2, <1>3, <1>4, <1>5 DEF Tables
<1>7. HostsTracked'
  <2>1. /\ IsFiniteSet(DOMAIN hostTotals') /\ IsFiniteSet(DOMAIN hostTotals)
        /\ DOMAIN hostTotals \subseteq DOMAIN hostTotals'
      BY <1>1, <1>5 DEF IsTable, Tables
  <2>2. /\ Cardinality(DOMAIN hostTotals) \in Nat /\ Cardinality(DOMAIN hostTotals') \in Nat
        /\ Cardinality(DOMAIN hostTotals) <= Cardinality(DOMAIN hostTotals')
      BY <2>1, FS_Subset, FS_CardinalityType
  <2>3. CASE Cardinality(DOMAIN hostTotals) >= MaxTrackedHosts
      BY <1>1, <2>2, <2>3 DEF HostsTracked
  <2>4. CASE ~(Cardinality(DOMAIN hostTotals) >= MaxTrackedHosts)
    <3>1. /\ k2 = h
          /\ \A u \in Tab : DOMAIN byHost[u] \ {OverflowHost} \subseteq DOMAIN hostTotals
        BY <1>1, <1>5, <2>4 DEF HostsTracked
    <3>2. ASSUME NEW u \in Tab
          PROVE  DOMAIN byHost'[u] \ {OverflowHost} \subseteq DOMAIN hostTotals'
        BY <1>3, <1>4, <1>5, <3>1
    <3> QED BY <3>2 DEF HostsTracked
  <2> QED BY <2>3, <2>4
<1>8. /\ SumFunction(bytes') = SumFunction(bytes) + b
      /\ SumFunction(requests') = SumFunction(requests) + n
  <2>1. /\ DOMAIN bytes = Tab /\ DOMAIN bytes' = Tab
        /\ DOMAIN requests = Tab /\ DOMAIN requests' = Tab
      BY <1>1, <1>6 DEF Tables
  <2>2. /\ \A u \in Tab : bytes[u] \in Int /\ bytes'[u] \in Int
        /\ \A u \in Tab : requests[u] \in Int /\ requests'[u] \in Int
      BY <1>1, <1>6 DEF Tables
  <2>3. /\ \A u \in Tab \ {t} : bytes[u] = bytes'[u]
        /\ \A u \in Tab \ {t} : requests[u] = requests'[u]
        /\ bytes'[t] = bytes[t] + b /\ requests'[t] = requests[t] + n
      BY <1>1, <1>2 DEF Tables
  <2>4. SumFunctionOnSet(bytes, Tab) \in Int /\ SumFunctionOnSet(requests, Tab) \in Int
      BY <1>1, <2>2, SumType
  <2>5. SumFunctionOnSet(bytes', Tab) = SumFunctionOnSet(bytes, Tab) + (bytes'[t] - bytes[t])
      BY <1>1, <2>2, <2>3, SumChange
  <2>6. SumFunctionOnSet(requests', Tab)
            = SumFunctionOnSet(requests, Tab) + (requests'[t] - requests[t])
      BY <1>1, <2>2, <2>3, SumChange
  <2> QED BY <2>1, <2>2, <2>3, <2>4, <2>5, <2>6 DEF SumFunction
<1>9. RollupCoversTabs'
  <2> SUFFICES ASSUME NEW x \in DOMAIN hostTotals' \ {OverflowHost}
               PROVE  SumFunction([u \in Tab |-> At(byHost'[u], x).bytes])
                          <= hostTotals'[x].bytes
      BY DEF RollupCoversTabs
  <2> DEFINE F == [u \in Tab |-> At(byHost[u], x).bytes]
             G == [u \in Tab |-> At(byHost'[u], x).bytes]
  <2>1. /\ \A u \in Tab : F[u] \in Nat /\ G[u] \in Nat
        /\ F[t] = At(byHost[t], x).bytes /\ G[t] = At(byHost'[t], x).bytes
        /\ \A u \in Tab \ {t} : F[u] = G[u]
      BY <1>1, <1>3, <1>6, AtType DEF Tables
  <2>2. x \in DOMAIN hostTotals => SumFunctionOnSet(F, Tab) <= hostTotals[x].bytes
      BY <1>1 DEF Conservation, RollupCoversTabs, SumFunction
  <2>3. /\ x \in DOMAIN hostTotals => hostTotals[x].bytes \in Nat
        /\ hostTotals'[x].bytes \in Nat
      BY <1>1, <1>5 DEF Tables, IsTable, IsTotals
  <2>4. SumFunction([u \in Tab |-> At(byHost'[u], x).bytes]) = SumFunctionOnSet(G, Tab)
      BY DEF SumFunction
  <2>5. (\A u \in Tab : x \notin DOMAIN byHost[u]) => \A u \in Tab : F[u] = 0
      BY DEF At, Zero
  <2>6. G[t] = F[t] \/ (x = h /\ G[t] <= F[t] + b)
    <3>1. At(byHost[t], x).bytes \in Nat
        BY <1>1, AtType DEF Tables
    <3>2. CASE x = k1
        BY <1>4, <2>1, <3>1, <3>2 DEF At
    <3>3. CASE x # k1
        BY <1>4, <2>1, <3>3 DEF At
    <3> QED BY <3>2, <3>3
  <2> HIDE DEF F, G
  <2>7. SumFunctionOnSet(F, Tab) \in Int
    <3>1. \A u \in Tab : F[u] \in Int
        BY <2>1
    <3> QED BY <1>1, <3>1, SumType
  <2>8. SumFunctionOnSet(G, Tab) = SumFunctionOnSet(F, Tab) + (G[t] - F[t])
    <3>1. \A u \in Tab : F[u] \in Int /\ G[u] \in Int
        BY <2>1
    <3> QED BY <1>1, <2>1, <3>1, SumChange
  <2>9. CASE x = k2
    <3>1. x = h /\ hostTotals'[x].bytes = At(hostTotals, x).bytes + b
        BY <1>1, <1>5, <2>9
    <3>2. SumFunctionOnSet(F, Tab) <= At(hostTotals, x).bytes
      <4>1. CASE x \in DOMAIN hostTotals
          BY <2>2, <4>1 DEF At
      <4>2. CASE x \notin DOMAIN hostTotals
        <5>1. Cardinality(DOMAIN hostTotals) < MaxTrackedHosts
            BY <1>5, <2>9, <3>1, <4>2
        <5>2. Cardinality(DOMAIN hostTotals) \in Nat
            BY <1>1, FS_CardinalityType DEF Tables, IsTable
        <5>3. \A u \in Tab : x \notin DOMAIN byHost[u]
            BY <1>1, <4>2, <5>1, <5>2 DEF HostsTracked
        <5>4. SumFunctionOnSet(F, Tab) = 0
            BY <1>1, <2>5, <5>3, SumZero
        <5> QED BY <4>2, <5>4 DEF At, Zero
      <4> QED BY <4>1, <4>2
    <3>3. At(hostTotals, x).bytes \in Nat
        BY <1>1, AtType DEF Tables
    <3>4. G[t] <= F[t] + b /\ G[t] \in Nat /\ F[t] \in Nat
        BY <2>1, <2>6
    <3> QED BY <2>4, <2>7, <2>8, <3>1, <3>2, <3>3, <3>4
  <2>10. CASE x # k2
    <3>1. x \in DOMAIN hostTotals /\ hostTotals'[x] = hostTotals[x]
        BY <1>5, <2>10
    <3>2. G[t] = F[t] /\ F[t] \in Nat
        BY <1>5, <2>1, <2>6, <2>10, <3>1
    <3> QED BY <2>2, <2>3, <2>4, <2>7, <2>8, <3>1, <3>2
  <2> QED BY <2>9, <2>10
<1>10. Conservation'
  <2>1. \A u \in Tab : /\ bytes'[u] = Bytes(byHost'[u])
                       /\ requests'[u] = Requests(byHost'[u])
      BY <1>1, <1>2, <1>3, <1>4 DEF Tables, Conservation
  <2> QED BY <1>1, <1>2, <1>5, <1>8, <1>9, <2>1 DEF Conservation
<1> QED BY <1>6, <1>7, <1>10 DEF Sums

(* Only what arrives or ends is counted.                                   *)
LEMMA Credits ==
    ASSUME IInv, [Next]_vars
    PROVE  \/ UNCHANGED sumVars
           \/ \E t \in Tab, h \in Named, b, n \in Nat : b + n # 0 /\ Credit(t, h, b, n)
<1>1. CASE ReportTraffic \/ Drop \/ UNCHANGED vars
    BY <1>1 DEF ReportTraffic, Drop, CloseTabs, vars
<1>2. ASSUME NEW t \in Tab,
             \/ Enable(t) \/ Detach(t)
             \/ \E u \in Host \cup {UnknownHost} : Attach(t, u)
             \/ \E h \in Host : Navigate(t, h)
             \/ \E r \in Request, h \in Host : Start(r, t, h)
      PROVE  UNCHANGED sumVars
    BY <1>2 DEF Enable, Detach, CloseTabs, Attach, Navigate, Start
<1>3. ASSUME NEW r \in Request, Respond(r) \/ \E h \in Host : Redirect(r, h)
      PROVE  UNCHANGED sumVars
    BY <1>3 DEF Respond, Redirect
<1>4. ASSUME NEW r \in Request,
             Data(r) \/ Fail(r) \/ \E n \in 0..MaxHeader : Finish(r, n)
      PROVE  \/ UNCHANGED sumVars
             \/ \E t \in Tab, h \in Named, b, n \in Nat : b + n # 0 /\ Credit(t, h, b, n)
  <2> DEFINE t == req[r].tab
  <2>1. /\ req[r] \in Loads /\ inflight[r] \in Entries /\ enabled \subseteq Tab
        /\ url \in [Tab -> Named]
      BY DEF IInv, Typed, Open
  <2>2. CASE t \notin enabled
      BY <1>4, <2>2 DEF Data, Fail, Finish
  <2>3. CASE t \in enabled
    <3>1. t \in Tab /\ HostFor(r, t) \in Named
        BY <2>1, <2>3 DEF HostFor, FallbackHost, Entries
    <3>2. \E b, n \in Nat : Credit(t, HostFor(r, t), b, n)
      <4>1. CASE Data(r)
          BY <2>3, <4>1 DEF Data, OnDataReceived
      <4>2. CASE Fail(r)
          BY <2>3, <4>2 DEF Fail, OnLoadingFailed
      <4>3. ASSUME NEW m \in 0..MaxHeader, Finish(r, m)
            PROVE  \E b, n \in Nat : Credit(t, HostFor(r, t), b, n)
        <5>1. Credit(t, HostFor(r, t), Remainder(r, req[r].body + m), 1)
            BY <2>3, <4>3 DEF Finish, OnLoadingFinished
        <5>2. m \in Nat /\ req[r].body \in Nat /\ inflight[r].counted \in Nat
            BY <2>1, TrafficAssumption DEF Loads, Entries
        <5>3. Remainder(r, req[r].body + m) \in Nat
            BY <5>2 DEF Remainder
        <5> QED BY <5>1, <5>3
      <4> QED BY <1>4, <4>1, <4>2, <4>3
    <3>3. PICK b \in Nat, n \in Nat : Credit(t, HostFor(r, t), b, n)
        BY <3>2
    <3>4. b + n = 0 => UNCHANGED sumVars
        BY <3>3 DEF Credit
    <3> QED BY <3>1, <3>3, <3>4
  <2> QED BY <2>2, <2>3
<1> QED BY <1>1, <1>2, <1>3, <1>4 DEF Next

LEMMA NextSums == IInv /\ Sums /\ [Next]_vars => Sums'
BY Credits, KeptSums, CreditSums

(* What was counted of a tab's hosts, of the tabs and of the process never *)
(* disagrees, for any number of tabs, hosts and any cap on a table; and no *)
(* host has more in the tabs than in the rollup that names it              *)
(* (traffic.py:92-97, 288-322).                                            *)
THEOREM CountsAgree == Spec => []Conservation
<1>1. Init => IInv /\ Sums
    BY InitInv, InitSums
<1>2. IInv /\ Sums /\ [Next]_vars => IInv' /\ Sums'
    BY NextInv, NextSums
<1>3. Spec => [](IInv /\ Sums)
    BY <1>1, <1>2, PTL DEF Spec
<1>4. IInv /\ Sums => Conservation
    BY DEF Sums
<1> QED BY <1>3, <1>4, PTL

-----------------------------------------------------------------------------
(* Types                                                                   *)

Rest == /\ closedTabs \in Seq(Tab) /\ Len(closedTabs) <= ClosedTabHistory
        /\ served \in [Host -> Nat] /\ blind \in Nat

(* The deque keeps the last tabs closed.                                   *)
LEMMA AppendedType ==
    ASSUME NEW s \in Seq(Tab), NEW ts \in Seq(Tab)
    PROVE  Appended(s, ts) \in Seq(Tab) /\ Len(Appended(s, ts)) <= ClosedTabHistory
<1> DEFINE all == s \o ts
           n == Len(all)
           m == IF n > ClosedTabHistory THEN n - ClosedTabHistory + 1 ELSE 1
<1>1. all \in Seq(Tab) /\ n \in Nat /\ ClosedTabHistory \in Nat \ {0}
    BY TrafficAssumption
<1>2. Appended(s, ts) = SubSeq(all, m, n)
    BY DEF Appended
<1> HIDE DEF all
<1>3. /\ m \in 1..(n + 1) /\ n - m + 1 <= ClosedTabHistory
    BY <1>1
<1> HIDE DEF m
<1>4. SubSeq(all, m, n) \in Seq(Tab) /\ Len(SubSeq(all, m, n)) = n - m + 1
    BY <1>1, <1>3, SubSeqProperties
<1> QED BY <1>2, <1>3, <1>4

LEMMA NextRest == ASSUME IInv, Rest, [Next]_vars PROVE Rest'
<1>1. /\ closedTabs \in Seq(Tab) /\ Len(closedTabs) <= ClosedTabHistory
      /\ served \in [Host -> Nat] /\ blind \in Nat /\ Open \subseteq Tab
    BY DEF Rest, Open
<1>2. ASSUME NEW ts \in Seq(Open), CloseTabs(ts), UNCHANGED <<served, blind>> PROVE Rest'
  <2>1. ts \in Seq(Tab)
      BY <1>1
  <2>2. closedTabs' = Appended(closedTabs, ts)
      BY <1>2 DEF CloseTabs
  <2> QED BY <1>1, <1>2, <2>1, <2>2, AppendedType DEF Rest
<1>3. ASSUME NEW r \in Request, UNCHANGED closedTabs, NEW n \in Nat, Receive(r, n)
      PROVE  Rest'
  <2>1. /\ served' = [h \in Host |-> IF h = req[r].host THEN served[h] + n ELSE served[h]]
        /\ blind' \in Nat
    <3>1. served' = [served EXCEPT ![req[r].host] = served[req[r].host] + n]
        BY <1>3 DEF Receive
    <3>2. blind' \in Nat
        BY <1>1, <1>3 DEF Receive
    <3> QED BY <1>1, <3>1, <3>2
  <2>2. served' \in [Host -> Nat]
      BY <1>1, <2>1
  <2> QED BY <1>1, <1>3, <2>1, <2>2 DEF Rest
<1>4. CASE ReportTraffic \/ UNCHANGED vars
    BY <1>1, <1>4 DEF Rest, ReportTraffic, vars, tabVars, chromeVars
<1>5. CASE Drop
  <2>1. PICK ts \in [1..Cardinality(Open) -> Open] : CloseTabs(ts)
      BY <1>5 DEF Drop
  <2>2. IsFiniteSet(Open) /\ Cardinality(Open) \in Nat
      BY <1>1, FS_Subset, FS_CardinalityType, TrafficAssumption
  <2>3. ts \in Seq(Open)
      BY <2>2
  <2>4. UNCHANGED <<served, blind>>
      BY <1>5 DEF Drop
  <2> QED BY <1>2, <2>1, <2>3, <2>4
<1>6. ASSUME NEW t \in Tab, Detach(t) PROVE Rest'
  <2>1. t \in Open /\ CloseTabs(<<t>>) /\ UNCHANGED <<served, blind>>
      BY <1>6 DEF Detach, Open
  <2>2. <<t>> \in Seq(Open)
      BY <2>1
  <2> QED BY <1>2, <2>1, <2>2
<1>7. ASSUME NEW t \in Tab,
             \/ Enable(t) \/ \E u \in Host \cup {UnknownHost} : Attach(t, u)
             \/ \E h \in Host : Navigate(t, h)
             \/ \E r \in Request, h \in Host : Start(r, t, h)
      PROVE  Rest'
    BY <1>1, <1>7 DEF Rest, Enable, Attach, Navigate, Start, tabVars, chromeVars
<1>8. ASSUME NEW r \in Request,
             Respond(r) \/ Fail(r) \/ \E h \in Host : Redirect(r, h)
      PROVE  Rest'
    BY <1>1, <1>8 DEF Rest, Respond, Fail, Redirect, tabVars, chromeVars
<1>9. ASSUME NEW r \in Request, Data(r) \/ \E n \in 0..MaxHeader : Finish(r, n)
      PROVE  Rest'
  <2>1. CASE Data(r)
      BY <1>3, <2>1 DEF Data, tabVars
  <2>2. ASSUME NEW n \in 0..MaxHeader, Finish(r, n) PROVE Rest'
    <3>1. n \in Nat
        BY TrafficAssumption
    <3> QED BY <1>3, <2>2, <3>1 DEF Finish, tabVars
  <2> QED BY <1>9, <2>1, <2>2
<1> QED BY <1>4, <1>5, <1>6, <1>7, <1>8, <1>9 DEF Next

LEMMA AllInv == Spec => [](IInv /\ Sums /\ Rest)
<1>1. Init => IInv /\ Sums /\ Rest
  <2>1. ASSUME Init PROVE Rest
      BY <2>1, TrafficAssumption DEF Init, Rest
  <2> QED BY <2>1, InitInv, InitSums
<1>2. IInv /\ Sums /\ Rest /\ [Next]_vars => IInv' /\ Sums' /\ Rest'
    BY NextInv, NextSums, NextRest
<1> QED BY <1>1, <1>2, PTL DEF Spec

(* Every variable keeps its type, the deque of closed tabs its length, and *)
(* no host table grows more than one entry over its cap, whatever the      *)
(* events (traffic.py:43-47, 193-195, 311-322).                            *)
THEOREM TypeCorrect == Spec => []TypeOK
<1>1. ASSUME IInv, Sums, Rest PROVE TypeOK
  <2>1. ASSUME NEW r \in Request
        PROVE  inflight[r] \in {NoEntry} \cup
                   [session : Tab, host : Host \cup {UnknownHost}, counted : Nat]
    <3>1. inflight[r] \in Entries /\ (inflight[r] # NoEntry => inflight[r].session \in Tab)
        BY <1>1 DEF IInv, Typed, InflightScoped, Open
    <3> QED BY <3>1 DEF Entries, Named
  <2> QED BY <1>1, <2>1 DEF IInv, Typed, Sums, Tables, IsTable, Rest, TypeOK, Named
<1> QED BY <1>1, AllInv, PTL

-----------------------------------------------------------------------------
(* Bytes land where they came from.                                        *)

(* The in-flight entry of a request is its tab's, and names the host of    *)
(* the hop it has seen.  Of a hop that began before Network.enable it may  *)
(* name any host, or there is none.                                        *)
Attributed ==
    \A r \in Request :
        IF Loading(r)
        THEN /\ req[r].tab \in Open /\ req[r].host \in Host
             /\ inflight[r] # NoEntry => /\ inflight[r].session = req[r].tab
                                        /\ req[r].tab \in enabled
             /\ req[r].seen => inflight[r] # NoEntry /\ inflight[r].host = req[r].host
        ELSE inflight[r] = NoEntry

(* What a request has received and nobody counted: loadingFinished will,   *)
(* for a host of H if the hop is of one, or if nobody knows.               *)
Missing(r) == IF req[r].body > inflight[r].counted
              THEN req[r].body - inflight[r].counted ELSE 0
Owes(r, H) == IF Loading(r) /\ (req[r].host \in H \/ ~req[r].seen) THEN Missing(r) ELSE 0
Owed(H) == SumFunctionOnSet([r \in Request |-> Owes(r, H)], Request)

Wire == SumFunctionOnSet(served, Host)
Covered == /\ \A h \in Host : At(hostTotals, h).bytes + Owed({h}) <= served[h] + blind
           /\ totalBytes + Owed(Host) <= Wire

LEMMA OwesType == ASSUME IInv, NEW r \in Request, NEW H PROVE Owes(r, H) \in Nat
<1>1. req[r] \in Loads /\ inflight[r] \in Entries
    BY DEF IInv, Typed
<1>2. req[r].body \in Nat /\ inflight[r].counted \in Nat
    BY <1>1 DEF Loads, Entries
<1> QED BY <1>2 DEF Owes, Missing

LEMMA OwesTypeNext == ASSUME IInv', NEW r \in Request, NEW H PROVE Owes(r, H)' \in Nat
<1>1. req'[r] \in Loads /\ inflight'[r] \in Entries
    BY DEF IInv, Typed
<1>2. req'[r].body \in Nat /\ inflight'[r].counted \in Nat
    BY <1>1 DEF Loads, Entries
<1> QED BY <1>2 DEF Owes, Missing

LEMMA OwedType == ASSUME IInv, NEW H PROVE Owed(H) \in Int /\ Owed(H) >= 0
<1> DEFINE W == [r \in Request |-> Owes(r, H)]
           Z == [r \in Request |-> 0]
<1>1. IsFiniteSet(Request)
    BY TrafficAssumption
<1>2. \A r \in Request : W[r] \in Int
    BY OwesType
<1>3. \A r \in Request : Z[r] \in Int /\ W[r] \in Int /\ Z[r] <= W[r]
    BY OwesType
<1>4. \A r \in Request : Z[r] = 0
    OBVIOUS
<1>5. Owed(H) = SumFunctionOnSet(W, Request)
    BY DEF Owed
<1> HIDE DEF W, Z
<1>6. SumFunctionOnSet(W, Request) \in Int
    BY <1>1, <1>2, SumType
<1>7. SumFunctionOnSet(Z, Request) <= SumFunctionOnSet(W, Request)
    BY <1>1, <1>3, SumMonotonic
<1>8. SumFunctionOnSet(Z, Request) = 0
    BY <1>1, <1>4, SumZero
<1> QED BY <1>5, <1>6, <1>7, <1>8

(* What is owed changes with the one request that does.                    *)
LEMMA OwedChange ==
    ASSUME IInv, IInv', NEW r \in Request, NEW H,
           \A q \in Request \ {r} : req'[q] = req[q] /\ inflight'[q] = inflight[q]
    PROVE  Owed(H)' = Owed(H) + (Owes(r, H)' - Owes(r, H))
<1> DEFINE V == [q \in Request |-> Owes(q, H)]
           W == [q \in Request |-> Owes(q, H)']
<1>1. IsFiniteSet(Request)
    BY TrafficAssumption
<1>2. \A q \in Request : Owes(q, H) \in Int /\ Owes(q, H)' \in Int
  <2>1. \A q \in Request : Owes(q, H) \in Nat
      BY OwesType
  <2>2. \A q \in Request : Owes(q, H)' \in Nat
      BY OwesTypeNext
  <2> QED BY <2>1, <2>2
<1>3. \A q \in Request : V[q] \in Int /\ W[q] \in Int
    BY <1>2
<1>4. \A q \in Request \ {r} : V[q] = W[q]
    BY DEF Owes, Missing, Loading
<1>5. Owed(H) = SumFunctionOnSet(V, Request) /\ Owed(H)' = SumFunctionOnSet(W, Request)
    BY DEF Owed
<1>6. V[r] = Owes(r, H) /\ W[r] = Owes(r, H)'
    OBVIOUS
<1> HIDE DEF V, W
<1>7. SumFunctionOnSet(W, Request) = SumFunctionOnSet(V, Request) + (W[r] - V[r])
    BY <1>1, <1>3, <1>4, SumChange
<1> QED BY <1>5, <1>6, <1>7

LEMMA OwedLess ==
    ASSUME IInv, IInv', NEW H, \A q \in Request : Owes(q, H)' <= Owes(q, H)
    PROVE  Owed(H)' <= Owed(H) /\ Owed(H)' \in Int
<1> DEFINE V == [q \in Request |-> Owes(q, H)]
           W == [q \in Request |-> Owes(q, H)']
<1>1. IsFiniteSet(Request)
    BY TrafficAssumption
<1>2. \A q \in Request : W[q] \in Int /\ V[q] \in Int /\ W[q] <= V[q]
  <2>1. \A q \in Request : Owes(q, H) \in Nat
      BY OwesType
  <2>2. \A q \in Request : Owes(q, H)' \in Nat
      BY OwesTypeNext
  <2> QED BY <2>1, <2>2
<1>3. Owed(H) = SumFunctionOnSet(V, Request) /\ Owed(H)' = SumFunctionOnSet(W, Request)
    BY DEF Owed
<1> HIDE DEF V, W
<1>4. SumFunctionOnSet(W, Request) <= SumFunctionOnSet(V, Request)
    BY <1>1, <1>2, SumMonotonic
<1>5. SumFunctionOnSet(W, Request) \in Int
    BY <1>1, <1>2, SumType
<1> QED BY <1>3, <1>4, <1>5

(* What is counted and owed grows by no more than what arrives.            *)
LEMMA FloorStep ==
    ASSUME IInv, IInv', NEW r \in Request, NEW H,
           \A q \in Request \ {r} : req'[q] = req[q] /\ inflight'[q] = inflight[q],
           NEW a \in Int, NEW b \in Int, NEW m \in Int, NEW n \in Int,
           a + Owed(H) <= m, b + Owes(r, H)' + m <= a + Owes(r, H) + n
    PROVE  b + Owed(H)' <= n
<1>1. Owed(H) \in Int /\ Owed(H)' = Owed(H) + (Owes(r, H)' - Owes(r, H))
    BY OwedType, OwedChange
<1>2. Owes(r, H) \in Nat /\ Owes(r, H)' \in Nat
    BY OwesType, OwesTypeNext
<1> QED BY <1>1, <1>2

LEMMA WireType == ASSUME Rest PROVE Wire \in Int
<1>1. IsFiniteSet(Host) /\ \A h \in Host : served[h] \in Int
    BY TrafficAssumption DEF Rest
<1> QED BY <1>1, SumType DEF Wire

(* Bytes on the wire are in the sum of all hosts.                          *)
LEMMA WireGrows ==
    ASSUME Rest, Rest', NEW g \in Host, NEW n \in Nat, served' = [served EXCEPT ![g] = @ + n]
    PROVE  Wire' = Wire + n /\ Wire \in Int
<1>1. IsFiniteSet(Host) /\ served \in [Host -> Nat] /\ served' \in [Host -> Nat]
    BY TrafficAssumption DEF Rest
<1>2. /\ \A h \in Host : served[h] \in Int /\ served'[h] \in Int
      /\ \A h \in Host \ {g} : served[h] = served'[h]
      /\ served'[g] = served[g] + n
    BY <1>1
<1>3. SumFunctionOnSet(served', Host)
          = SumFunctionOnSet(served, Host) + (served'[g] - served[g])
  <2> DEFINE V == served
             W == served'
  <2>1. /\ IsFiniteSet(Host) /\ \A h \in Host : V[h] \in Int /\ W[h] \in Int
        /\ \A h \in Host \ {g} : V[h] = W[h]
      BY <1>1, <1>2
  <2> HIDE DEF V, W
  <2>2. SumFunctionOnSet(W, Host) = SumFunctionOnSet(V, Host) + (W[g] - V[g])
      BY <2>1, SumChange
  <2> QED BY <2>2 DEF V, W
<1>4. Wire \in Int
    BY WireType
<1> QED BY <1>1, <1>2, <1>3, <1>4 DEF Wire

(* Bytes credited to a host reach its entry or the overflow bucket.        *)
LEMMA CreditHost ==
    ASSUME Sums, NEW t, NEW x \in Named, NEW b \in Nat, NEW n \in Nat,
           Credit(t, x, b, n), NEW h \in Host
    PROVE  /\ At(hostTotals', h).bytes \in Nat /\ At(hostTotals, h).bytes \in Nat
           /\ x = h => At(hostTotals', h).bytes <= At(hostTotals, h).bytes + b
           /\ x # h => At(hostTotals', h).bytes = At(hostTotals, h).bytes
<1>1. IsTable(hostTotals) /\ h # OverflowHost
    BY TrafficAssumption DEF Sums, Tables
<1>2. At(hostTotals, h).bytes \in Nat
    BY <1>1, AtType
<1>3. CASE b + n = 0
  <2>1. hostTotals' = hostTotals
      BY <1>3 DEF Credit, sumVars
  <2> QED BY <1>2, <2>1
<1>4. CASE b + n # 0
  <2> DEFINE k == Bucket(hostTotals, x)
  <2>1. hostTotals' = Added(hostTotals, x, b, n)
      BY <1>4 DEF Credit
  <2>2. k = Bucket(hostTotals, x)
      OBVIOUS
  <2> HIDE DEF k
  <2>3. /\ IsTable(hostTotals')
        /\ DOMAIN hostTotals' = DOMAIN hostTotals \cup {k} /\ k \in {x, OverflowHost}
        /\ x \in DOMAIN hostTotals => k = x
        /\ k # x => Cardinality(DOMAIN hostTotals) >= MaxTrackedHosts
        /\ k = x /\ x \notin DOMAIN hostTotals =>
               Cardinality(DOMAIN hostTotals) < MaxTrackedHosts
        /\ hostTotals'[k] = [bytes |-> At(hostTotals, k).bytes + b,
                             requests |-> At(hostTotals, k).requests + n]
        /\ \A y \in DOMAIN hostTotals \ {k} : hostTotals'[y] = hostTotals[y]
        /\ Bytes(hostTotals') = Bytes(hostTotals) + b
        /\ Requests(hostTotals') = Requests(hostTotals) + n
      BY <1>1, <2>1, <2>2, AddedTable
  <2>4. CASE k = h
    <3>1. At(hostTotals', h).bytes = At(hostTotals, h).bytes + b /\ x = h
        BY <1>1, <2>3, <2>4 DEF At
    <3> QED BY <1>2, <3>1
  <2>5. CASE k # h
    <3>1. At(hostTotals', h) = At(hostTotals, h)
        BY <2>3, <2>5 DEF At
    <3> QED BY <1>2, <3>1
  <2> QED BY <2>4, <2>5
<1> QED BY <1>3, <1>4

(* Binding a request to the host it is sent to now.                        *)
LEMMA BindAttributed ==
    ASSUME IInv, NEW r \in Request, NEW t \in Open, t \in enabled, NEW h \in Host,
           BindRequestHost(r, t, h),
           inflight[r] # NoEntry => inflight[r].session = t
    PROVE  /\ inflight'[r] # NoEntry
           /\ inflight'[r].session = t /\ inflight'[r].host = h
           /\ inflight'[r].counted = inflight[r].counted
           /\ \A q \in Request \ {r} : inflight'[q] = inflight[q]
<1>1. inflight \in [Request -> Entries] /\ t # NoTab /\ inflight[r] \in Entries
    BY TrafficAssumption DEF IInv, Typed, Open
<1>2. CASE inflight[r] = NoEntry
  <2>1. inflight' = [inflight EXCEPT ![r] = [session |-> t, host |-> h, counted |-> 0]]
      BY <1>2 DEF BindRequestHost
  <2> QED BY <1>1, <1>2, <2>1 DEF NoEntry
<1>3. CASE inflight[r] # NoEntry
  <2>1. inflight' = [inflight EXCEPT ![r] = [inflight[r] EXCEPT !.host = h]]
      BY <1>3 DEF BindRequestHost
  <2>2. inflight'[r] = [inflight[r] EXCEPT !.host = h]
      BY <1>1, <2>1
  <2>3. /\ inflight'[r].session = t /\ inflight'[r].host = h
        /\ inflight'[r].counted = inflight[r].counted
      BY <1>1, <1>3, <2>2 DEF Entries
  <2> QED BY <1>1, <2>1, <2>3 DEF NoEntry
<1> QED BY <1>2, <1>3

AllTyped == IInv /\ Sums /\ Rest

(* Nothing is counted or served, and nothing more is owed.                 *)
LEMMA FloorKept ==
    ASSUME AllTyped, AllTyped', Covered,
           UNCHANGED <<hostTotals, totalBytes, served, blind>>,
           \A q \in Request, H \in SUBSET Host : Owes(q, H)' <= Owes(q, H)
    PROVE  Covered'
<1>1. ASSUME NEW H \in SUBSET Host PROVE Owed(H)' <= Owed(H) /\ Owed(H)' \in Int /\ Owed(H) \in Int
    BY OwedLess, OwedType DEF AllTyped
<1>2. ASSUME NEW h \in Host
      PROVE  At(hostTotals', h).bytes + Owed({h})' <= served'[h] + blind'
  <2>1. At(hostTotals, h).bytes + Owed({h}) <= served[h] + blind
      BY DEF Covered
  <2>2. At(hostTotals, h).bytes \in Nat /\ served[h] \in Nat /\ blind \in Nat
      BY AtType DEF AllTyped, Sums, Tables, Rest
  <2>3. Owed({h})' <= Owed({h}) /\ Owed({h})' \in Int /\ Owed({h}) \in Int
      BY <1>1
  <2> QED BY <2>1, <2>2, <2>3
<1>3. totalBytes' + Owed(Host)' <= Wire'
  <2>1. totalBytes + Owed(Host) <= Wire /\ Wire' = Wire
      BY DEF Covered, Wire
  <2>2. totalBytes \in Nat /\ Wire \in Int
      BY WireType DEF AllTyped, Sums, Tables
  <2>3. Owed(Host)' <= Owed(Host) /\ Owed(Host)' \in Int /\ Owed(Host) \in Int
      BY <1>1
  <2> QED BY <2>1, <2>2, <2>3
<1> QED BY <1>2, <1>3 DEF Covered

(* n bytes of request r arrive, and b of those that had are counted for x. *)
LEMMA BytesCovered ==
    ASSUME AllTyped, AllTyped', Covered, NEW r \in Request, NEW g \in Host, g = req[r].host,
           \A q \in Request \ {r} : req'[q] = req[q] /\ inflight'[q] = inflight[q],
           NEW n \in Nat, NEW b \in Nat, NEW x \in Named, Receive(r, n),
           \/ b = 0 /\ UNCHANGED sumVars
           \/ \E t \in Tab, c \in Nat : Credit(t, x, b, c),
           req[r].seen => x = g,
           \A H \in SUBSET Host : IF req[r].seen /\ g \notin H
                                  THEN Owes(r, H)' <= Owes(r, H)
                                  ELSE Owes(r, H)' + b <= Owes(r, H) + n
    PROVE  Covered'
<1>1. /\ IInv /\ IInv' /\ Sums /\ Sums' /\ Rest /\ Rest'
      /\ served \in [Host -> Nat] /\ blind \in Nat /\ totalBytes \in Nat /\ totalBytes' \in Nat
    BY DEF AllTyped, Rest, Sums, Tables
<1>2. /\ served' = [served EXCEPT ![g] = @ + n]
      /\ blind' = IF req[r].seen THEN blind ELSE blind + n
    BY DEF Receive
<1>3. totalBytes' = totalBytes + b
    BY <1>1 DEF Credit, sumVars
<1>4. ASSUME NEW h \in Host
      PROVE  At(hostTotals', h).bytes + Owed({h})' <= served'[h] + blind'
  <2>1. /\ At(hostTotals', h).bytes \in Nat /\ At(hostTotals, h).bytes \in Nat
        /\ At(hostTotals', h).bytes <= At(hostTotals, h).bytes + b
        /\ x # h => At(hostTotals', h).bytes = At(hostTotals, h).bytes
    <3>1. CASE b = 0 /\ UNCHANGED sumVars
      <4>1. At(hostTotals, h).bytes \in Nat /\ hostTotals' = hostTotals
          BY <1>1, <3>1, AtType DEF Sums, Tables, sumVars
      <4> QED BY <3>1, <4>1
    <3>2. ASSUME NEW t \in Tab, NEW c \in Nat, Credit(t, x, b, c)
          PROVE  /\ At(hostTotals', h).bytes \in Nat /\ At(hostTotals, h).bytes \in Nat
                 /\ At(hostTotals', h).bytes <= At(hostTotals, h).bytes + b
                 /\ x # h => At(hostTotals', h).bytes = At(hostTotals, h).bytes
      <4>1. /\ At(hostTotals', h).bytes \in Nat /\ At(hostTotals, h).bytes \in Nat
            /\ x = h => At(hostTotals', h).bytes <= At(hostTotals, h).bytes + b
            /\ x # h => At(hostTotals', h).bytes = At(hostTotals, h).bytes
          BY <1>1, <3>2, CreditHost, ZenonT(60)
      <4> QED BY <4>1
    <3> QED BY <3>1, <3>2
  <2>2. /\ served[h] \in Nat /\ served'[h] = IF h = g THEN served[h] + n ELSE served[h]
        /\ blind' \in Nat
      BY <1>1, <1>2
  <2>3. Owes(r, {h}) \in Nat /\ Owes(r, {h})' \in Nat
      BY <1>1, OwesType, OwesTypeNext
  <2>4. At(hostTotals', h).bytes + Owes(r, {h})' + (served[h] + blind)
            <= At(hostTotals, h).bytes + Owes(r, {h}) + (served'[h] + blind')
    <3>1. CASE req[r].seen /\ g # h
      <4>1. Owes(r, {h})' <= Owes(r, {h}) /\ x # h
          BY <3>1
      <4> QED BY <1>1, <1>2, <2>1, <2>2, <2>3, <3>1, <4>1
    <3>2. CASE ~(req[r].seen /\ g # h)
      <4>1. Owes(r, {h})' + b <= Owes(r, {h}) + n
          BY <3>2
      <4> QED BY <1>1, <1>2, <2>1, <2>2, <2>3, <3>2, <4>1
    <3> QED BY <3>1, <3>2
  <2>5. At(hostTotals, h).bytes + Owed({h}) <= served[h] + blind
      BY DEF Covered
  <2>6. /\ At(hostTotals', h).bytes \in Int /\ At(hostTotals, h).bytes \in Int
        /\ served[h] + blind \in Int /\ served'[h] + blind' \in Int
      BY <1>1, <2>1, <2>2
  <2> QED BY <1>1, <2>4, <2>5, <2>6, FloorStep
<1>5. totalBytes' + Owed(Host)' <= Wire'
  <2>1. Wire' = Wire + n /\ Wire \in Int
      BY <1>1, <1>2, WireGrows
  <2>2. Owes(r, Host)' + b <= Owes(r, Host) + n
      OBVIOUS
  <2>3. Owes(r, Host) \in Nat /\ Owes(r, Host)' \in Nat
      BY <1>1, OwesType, OwesTypeNext
  <2>4. totalBytes' + Owes(r, Host)' + Wire <= totalBytes + Owes(r, Host) + Wire'
      BY <1>1, <1>3, <2>1, <2>2, <2>3
  <2>5. totalBytes + Owed(Host) <= Wire
      BY DEF Covered
  <2>6. totalBytes' \in Int /\ totalBytes \in Int /\ Wire \in Int /\ Wire' \in Int
      BY <1>1, <2>1
  <2> QED BY <1>1, <2>4, <2>5, <2>6, FloorStep
<1> QED BY <1>4, <1>5 DEF Covered

(* One request changes, and its entry with it.                             *)
LEMMA AttributedStep ==
    ASSUME Attributed, NEW r \in Request, UNCHANGED <<tabState, enabled>>,
           \A q \in Request \ {r} : req'[q] = req[q] /\ inflight'[q] = inflight[q],
           IF Loading(r)'
           THEN /\ req'[r].tab \in Open /\ req'[r].host \in Host
                /\ inflight'[r] # NoEntry => /\ inflight'[r].session = req'[r].tab
                                             /\ req'[r].tab \in enabled
                /\ req'[r].seen => inflight'[r] # NoEntry /\ inflight'[r].host = req'[r].host
           ELSE inflight'[r] = NoEntry
    PROVE  Attributed'
<1>1. Open' = Open
    BY DEF Open
<1>2. ASSUME NEW q \in Request
      PROVE  IF Loading(q)'
             THEN /\ req'[q].tab \in Open' /\ req'[q].host \in Host
                  /\ inflight'[q] # NoEntry => /\ inflight'[q].session = req'[q].tab
                                               /\ req'[q].tab \in enabled'
                  /\ req'[q].seen => inflight'[q] # NoEntry /\ inflight'[q].host = req'[q].host
             ELSE inflight'[q] = NoEntry
  <2>1. CASE q = r
      BY <1>1, <2>1
  <2>2. CASE q # r
      BY <1>1, <2>2 DEF Attributed, Loading
  <2> QED BY <2>1, <2>2
<1> QED BY <1>2 DEF Attributed

LEMMA SentFloor ==
    ASSUME AllTyped, AllTyped', Attributed, Covered, NEW r \in Request,
           \/ \E t \in Tab, h \in Host : Start(r, t, h)
           \/ \E h \in Host : Redirect(r, h)
           \/ Respond(r)
    PROVE  Attributed' /\ Covered'
<1>1. /\ IInv /\ IInv' /\ Sums /\ Sums' /\ Rest /\ Rest' /\ Typed
      /\ req[r] \in Loads /\ inflight[r] \in Entries /\ enabled \subseteq Open
      /\ req \in [Request -> Loads] /\ inflight \in [Request -> Entries]
    BY DEF AllTyped, IInv, Typed
<1>2. UNCHANGED <<tabState, enabled, served, blind, hostTotals, totalBytes>>
    BY DEF Start, Redirect, Respond, tabVars, sumVars
<1>3. inflight[r].counted \in Nat /\ \A H \in SUBSET Host : Owes(r, H) \in Nat
    BY <1>1, OwesType DEF Entries
<1>4. ASSUME \A q \in Request \ {r} : req'[q] = req[q] /\ inflight'[q] = inflight[q],
             req'[r].body = 0, inflight'[r].counted \in Nat
      PROVE  Covered'
  <2>1. \A H \in SUBSET Host : Owes(r, H)' = 0
      BY <1>4 DEF Owes, Missing
  <2>2. \A q \in Request \ {r}, H \in SUBSET Host : Owes(q, H)' = Owes(q, H)
      BY <1>4 DEF Owes, Missing, Loading
  <2>3. \A q \in Request, H \in SUBSET Host : Owes(q, H)' <= Owes(q, H)
    <3>1. ASSUME NEW q \in Request, NEW H \in SUBSET Host PROVE Owes(q, H)' <= Owes(q, H)
      <4>1. CASE q = r
          BY <1>3, <2>1, <4>1
      <4>2. CASE q # r
          BY <1>1, <2>2, <4>2, OwesType
      <4> QED BY <4>1, <4>2
    <3> QED BY <3>1
  <2> QED BY <1>2, <2>3, FloorKept
<1>5. ASSUME NEW t \in Tab, NEW h \in Host, Start(r, t, h) PROVE Attributed' /\ Covered'
  <2>1. /\ req'[r] = [state |-> "loading", tab |-> t, host |-> h, body |-> 0, hops |-> 1,
                      seen |-> t \in enabled]
        /\ \A q \in Request \ {r} : req'[q] = req[q]
        /\ t \in Open /\ ~Loading(r)
        /\ IF t \in enabled THEN BindRequestHost(r, t, h) ELSE UNCHANGED inflight
      BY <1>1, <1>5 DEF Start, Open, Loading
  <2>2. inflight[r] = NoEntry /\ inflight[r].counted = 0
      BY <2>1 DEF Attributed, NoEntry
  <2>3. /\ \A q \in Request \ {r} : inflight'[q] = inflight[q]
        /\ inflight'[r].counted = 0
        /\ IF t \in enabled
           THEN inflight'[r] # NoEntry /\ inflight'[r].session = t /\ inflight'[r].host = h
           ELSE inflight'[r] = NoEntry
    <3>1. CASE t \in enabled
        BY <1>1, <2>1, <2>2, <3>1, BindAttributed
    <3>2. CASE t \notin enabled
        BY <2>1, <2>2, <3>2
    <3> QED BY <3>1, <3>2
  <2>4. /\ Loading(r)' /\ req'[r].tab = t /\ req'[r].host = h /\ req'[r].body = 0
        /\ req'[r].seen = (t \in enabled)
      BY <2>1 DEF Loading
  <2>5. Attributed'
    <3>1. CASE t \in enabled
        BY <1>2, <2>1, <2>3, <2>4, <3>1, AttributedStep
    <3>2. CASE t \notin enabled
        BY <1>2, <2>1, <2>3, <2>4, <3>2, AttributedStep
    <3> QED BY <3>1, <3>2
  <2> QED BY <1>4, <2>1, <2>3, <2>4, <2>5
<1>6. ASSUME NEW h \in Host, Redirect(r, h) PROVE Attributed' /\ Covered'
  <2>1. /\ Loading(r) /\ req'[r].state = "loading" /\ req'[r].tab = req[r].tab
        /\ req'[r].host = h /\ req'[r].body = 0 /\ req'[r].seen = (req[r].tab \in enabled)
        /\ \A q \in Request \ {r} : req'[q] = req[q]
        /\ IF req[r].tab \in enabled THEN BindRequestHost(r, req[r].tab, h)
                                     ELSE UNCHANGED inflight
      BY <1>1, <1>6 DEF Redirect, Loads, Loading
  <2>2. req[r].tab \in Open /\ (inflight[r] # NoEntry => inflight[r].session = req[r].tab
                                                         /\ req[r].tab \in enabled)
      BY <2>1 DEF Attributed
  <2>3. /\ \A q \in Request \ {r} : inflight'[q] = inflight[q]
        /\ inflight'[r].counted = inflight[r].counted
        /\ IF req[r].tab \in enabled
           THEN /\ inflight'[r] # NoEntry
                /\ inflight'[r].session = req[r].tab /\ inflight'[r].host = h
           ELSE inflight'[r] = NoEntry
    <3>1. CASE req[r].tab \in enabled
        BY <1>1, <2>1, <2>2, <3>1, BindAttributed
    <3>2. CASE req[r].tab \notin enabled
        BY <2>1, <2>2, <3>2
    <3> QED BY <3>1, <3>2
  <2>4. Attributed'
      BY <1>2, <2>1, <2>2, <2>3, AttributedStep DEF Loading
  <2> QED BY <1>3, <1>4, <2>1, <2>3, <2>4
<1>7. ASSUME Respond(r) PROVE Attributed' /\ Covered'
  <2>1. /\ Loading(r) /\ req[r].tab \in enabled /\ req[r].body = 0
        /\ req'[r].state = "loading" /\ req'[r].tab = req[r].tab /\ req'[r].host = req[r].host
        /\ req'[r].body = 0
        /\ \A q \in Request \ {r} : req'[q] = req[q]
        /\ BindRequestHost(r, req[r].tab, req[r].host)
      BY <1>1, <1>7 DEF Respond, Loads, Loading
  <2>2. /\ req[r].tab \in Open /\ req[r].host \in Host
        /\ (inflight[r] # NoEntry => inflight[r].session = req[r].tab)
      BY <2>1 DEF Attributed
  <2>3. /\ inflight'[r] # NoEntry
        /\ inflight'[r].session = req[r].tab /\ inflight'[r].host = req[r].host
        /\ inflight'[r].counted = inflight[r].counted
        /\ \A q \in Request \ {r} : inflight'[q] = inflight[q]
      BY <1>1, <2>1, <2>2, BindAttributed
  <2>4. Attributed'
      BY <1>2, <2>1, <2>2, <2>3, AttributedStep DEF Loading
  <2> QED BY <1>3, <1>4, <2>1, <2>3, <2>4
<1> QED BY <1>5, <1>6, <1>7

LEMMA BytesFloor ==
    ASSUME AllTyped, AllTyped', Attributed, Covered, NEW r \in Request,
           Data(r) \/ Fail(r) \/ \E n \in 0..MaxHeader : Finish(r, n)
    PROVE  Attributed' /\ Covered'
<1> SUFFICES ASSUME NEW CONSTANT t, NEW CONSTANT g, NEW CONSTANT x,
                    t = req[r].tab, g = req[r].host, x = HostFor(r, t)
             PROVE  Attributed' /\ Covered'
    OBVIOUS
<1>1. /\ IInv /\ IInv' /\ Sums /\ Sums' /\ Rest /\ Rest'
      /\ req[r] \in Loads /\ inflight[r] \in Entries
      /\ req \in [Request -> Loads] /\ inflight \in [Request -> Entries]
      /\ url \in [Tab -> Named]
    BY DEF AllTyped, IInv, Typed
<1>2. /\ UNCHANGED <<tabState, enabled>> /\ Loading(r)
      /\ \A q \in Request \ {r} : req'[q] = req[q] /\ inflight'[q] = inflight[q]
  <2>1. UNCHANGED <<tabState, enabled>> /\ Loading(r)
      BY DEF Data, Fail, Finish, tabVars
  <2>2. \A q \in Request \ {r} : req'[q] = req[q]
      BY <1>1 DEF Data, Fail, Finish
  <2>3. \A q \in Request \ {r} : inflight'[q] = inflight[q]
      BY <1>1 DEF Data, Fail, Finish, OnDataReceived, OnLoadingFinished, OnLoadingFailed,
                  Retire
  <2> QED BY <2>1, <2>2, <2>3
<1>3. /\ t \in Open /\ t \in Tab /\ t # NoTab /\ g \in Host
      /\ inflight[r] # NoEntry => inflight[r].session = t /\ t \in enabled
      /\ req[r].seen => inflight[r] # NoEntry /\ inflight[r].host = g
    BY <1>2, TrafficAssumption DEF Attributed, Open
<1>4. x \in Named /\ (req[r].seen => x = g)
    BY <1>1, <1>3 DEF HostFor, FallbackHost, Entries
<1>5. /\ req[r].body \in Nat /\ inflight[r].counted \in Nat /\ req[r].seen \in BOOLEAN
      /\ inflight[r] = NoEntry => inflight[r].counted = 0
    BY <1>1 DEF Loads, Entries, NoEntry
<1>6. /\ Missing(r) \in Nat
      /\ \A H \in SUBSET Host : Owes(r, H) = IF g \in H \/ ~req[r].seen THEN Missing(r) ELSE 0
    BY <1>2, <1>5 DEF Owes, Missing
<1>7. CASE Data(r)
  <2>1. /\ req' = [req EXCEPT ![r].body = @ + 1] /\ Receive(r, 1)
        /\ IF t \in enabled THEN OnDataReceived(r, t, 1) ELSE UNCHANGED <<inflight, sumVars>>
      BY <1>7 DEF Data
  <2>2. /\ req'[r].state = "loading" /\ req'[r].tab = t /\ req'[r].host = g
        /\ req'[r].body = req[r].body + 1 /\ req'[r].seen = req[r].seen
      BY <1>1, <1>2, <2>1 DEF Loads, Loading
  <2>3. \A H \in SUBSET Host :
            Owes(r, H)' = IF g \in H \/ ~req[r].seen THEN Missing(r)' ELSE 0
      BY <2>2 DEF Owes, Loading
  <2>4. CASE t \in enabled
    <3>1. /\ inflight' = [inflight EXCEPT ![r] =
                 [session |-> IF @ = NoEntry THEN t ELSE @.session,
                  host |-> x, counted |-> @.counted + 1]]
          /\ Credit(t, x, 1, 0)
        BY <2>1, <2>4 DEF OnDataReceived
    <3>2. inflight'[r] = [session |-> t, host |-> x, counted |-> inflight[r].counted + 1]
        BY <1>1, <1>3, <3>1
    <3>3. inflight'[r] # NoEntry
        BY <1>3, <3>2 DEF NoEntry
    <3>4. Attributed'
        BY <1>2, <1>3, <1>4, <2>2, <2>4, <3>2, <3>3, AttributedStep DEF Loading
    <3>5. Missing(r)' = Missing(r)
        BY <1>5, <2>2, <3>2 DEF Missing
    <3>6. ASSUME NEW H \in SUBSET Host
          PROVE  Owes(r, H)' = Owes(r, H) /\ Owes(r, H) \in Nat
        BY <1>6, <2>3, <3>5
    <3>7. Covered'
      <4>1. PICK b \in Nat, c \in Nat : b = 1 /\ Credit(t, x, b, c)
          BY <3>1
      <4>2. Receive(r, b)
          BY <2>1, <4>1
      <4>3. ASSUME NEW H \in SUBSET Host
            PROVE  IF req[r].seen /\ g \notin H THEN Owes(r, H)' <= Owes(r, H)
                   ELSE Owes(r, H)' + b <= Owes(r, H) + b
          BY <3>6
      <4> QED BY <1>2, <1>3, <1>4, <4>1, <4>2, <4>3, BytesCovered
    <3> QED BY <3>4, <3>7
  <2>5. CASE t \notin enabled
    <3>1. inflight' = inflight /\ UNCHANGED sumVars
        BY <2>1, <2>5
    <3>2. Attributed'
        BY <1>2, <1>3, <2>2, <2>5, <3>1, AttributedStep DEF Loading
    <3>3. Missing(r)' \in Nat /\ Missing(r)' <= Missing(r) + 1
        BY <1>5, <2>2, <3>1 DEF Missing
    <3>4. PICK n \in Nat, b \in Nat : n = 1 /\ b = 0
        OBVIOUS
    <3>5. ASSUME NEW H \in SUBSET Host
          PROVE  IF req[r].seen /\ g \notin H THEN Owes(r, H)' <= Owes(r, H)
                 ELSE Owes(r, H)' + b <= Owes(r, H) + n
      <4>1. CASE req[r].seen /\ g \notin H
        <5>1. Owes(r, H)' = 0 /\ Owes(r, H) = 0
            BY <1>6, <2>3, <4>1
        <5> QED BY <4>1, <5>1
      <4>2. CASE ~(req[r].seen /\ g \notin H)
        <5>1. Owes(r, H)' = Missing(r)' /\ Owes(r, H) = Missing(r)
            BY <1>6, <2>3, <4>2
        <5> QED BY <1>6, <3>3, <3>4, <4>2, <5>1
      <4> QED BY <4>1, <4>2
    <3>6. Covered'
        BY <1>2, <1>3, <1>4, <2>1, <3>1, <3>4, <3>5, BytesCovered
    <3> QED BY <3>2, <3>6
  <2> QED BY <2>4, <2>5
<1>8. CASE ~Data(r)
  <2>1. PICK n \in Nat, b \in Nat :
            /\ req' = [req EXCEPT ![r] = Over] /\ b <= Missing(r) + n
            /\ Receive(r, n) \/ (n = 0 /\ b = 0 /\ UNCHANGED <<served, blind>>)
            /\ \/ t \in enabled /\ Credit(t, x, b, 1) /\ Retire(r)
               \/ t \notin enabled /\ b = 0 /\ UNCHANGED <<inflight, sumVars>>
    <3>1. CASE Fail(r)
      <4>1. /\ req' = [req EXCEPT ![r] = Over] /\ UNCHANGED <<served, blind>>
            /\ IF t \in enabled THEN Credit(t, x, 0, 1) /\ Retire(r)
                                ELSE UNCHANGED <<inflight, sumVars>>
          BY <3>1 DEF Fail, OnLoadingFailed
      <4>2. 0 \in Nat /\ 0 <= Missing(r) + 0
          BY <1>6
      <4>3. CASE t \in enabled
          BY <4>1, <4>2, <4>3
      <4>4. CASE t \notin enabled
          BY <4>1, <4>2, <4>4
      <4> QED BY <4>3, <4>4
    <3>2. ASSUME NEW n \in 0..MaxHeader, Finish(r, n)
          PROVE  \E m \in Nat, b \in Nat :
            /\ req' = [req EXCEPT ![r] = Over] /\ b <= Missing(r) + m
            /\ Receive(r, m)
            /\ \/ t \in enabled /\ Credit(t, x, b, 1) /\ Retire(r)
               \/ t \notin enabled /\ b = 0 /\ UNCHANGED <<inflight, sumVars>>
      <4> DEFINE b == Remainder(r, req[r].body + n)
      <4>1. n \in Nat
          BY TrafficAssumption
      <4>2. b \in Nat /\ b <= Missing(r) + n
          BY <1>5, <4>1 DEF Remainder, Missing
      <4>3. /\ req' = [req EXCEPT ![r] = Over] /\ Receive(r, n)
            /\ IF t \in enabled THEN Credit(t, x, b, 1) /\ Retire(r)
                                ELSE UNCHANGED <<inflight, sumVars>>
          BY <3>2 DEF Finish, OnLoadingFinished
      <4> HIDE DEF b
      <4>4. CASE t \in enabled
          BY <4>1, <4>2, <4>3, <4>4
      <4>5. CASE t \notin enabled
        <5>1. 0 \in Nat /\ 0 <= Missing(r) + n
            BY <1>6, <4>1
        <5>2. req' = [req EXCEPT ![r] = Over] /\ Receive(r, n) /\ UNCHANGED <<inflight, sumVars>>
            BY <4>3, <4>5
        <5> QED BY <4>1, <4>5, <5>1, <5>2
      <4> QED BY <4>4, <4>5
    <3> QED BY <1>8, <3>1, <3>2
  <2>2. req'[r] = Over /\ ~Loading(r)'
      BY <1>1, <2>1 DEF Over, Idle, Loading
  <2>3. inflight'[r] = NoEntry
      BY <1>1, <1>3, <2>1 DEF Retire
  <2>4. Attributed'
      BY <1>2, <2>2, <2>3, AttributedStep
  <2>5. \A H \in SUBSET Host : Owes(r, H)' = 0
      BY <2>2 DEF Owes
  <2>6. ASSUME NEW H \in SUBSET Host
        PROVE  IF req[r].seen /\ g \notin H THEN Owes(r, H)' <= Owes(r, H)
               ELSE Owes(r, H)' + b <= Owes(r, H) + n
    <3>1. Owes(r, H)' = 0 /\ Owes(r, H) = IF g \in H \/ ~req[r].seen THEN Missing(r) ELSE 0
        BY <1>6, <2>5
    <3>2. b <= Missing(r) + n
        BY <2>1
    <3>3. CASE req[r].seen /\ g \notin H
        BY <3>1, <3>3
    <3>4. CASE ~(req[r].seen /\ g \notin H)
      <4>1. Owes(r, H) = Missing(r)
          BY <3>1, <3>4
      <4> QED BY <1>6, <3>1, <3>2, <3>4, <4>1
    <3> QED BY <3>3, <3>4
  <2>7. \/ b = 0 /\ UNCHANGED sumVars
        \/ \E u \in Tab, c \in Nat : Credit(u, x, b, c)
      BY <1>3, <2>1
  <2>8. Receive(r, n)
    <3>1. CASE n = 0 /\ UNCHANGED <<served, blind>>
      <4>1. served \in [Host -> Nat] /\ blind \in Nat
          BY <1>1 DEF Rest
      <4>2. served = [served EXCEPT ![g] = served[g] + 0]
          BY <1>3, <4>1
      <4> QED BY <1>3, <3>1, <4>1, <4>2 DEF Receive
    <3> QED BY <2>1, <3>1
  <2>9. Covered'
      BY <1>2, <1>3, <1>4, <2>6, <2>7, <2>8, BytesCovered
  <2> QED BY <2>4, <2>9
<1> QED BY <1>7, <1>8

(* Tabs close: their requests are over and their entries gone.             *)
LEMMA CloseFloor ==
    ASSUME AllTyped, AllTyped', Attributed, Covered,
           NEW ts, CloseTabs(ts), NEW S, S = {ts[i] : i \in DOMAIN ts},
           UNCHANGED <<served, blind>>,
           \A q \in Request : Loading(q)' =>
               Loading(q) /\ req'[q] = req[q] /\ req[q].tab \notin S,
           \A q \in Request : Loading(q) /\ ~Loading(q)' => req[q].tab \in S
    PROVE  Attributed' /\ Covered'
<1>1. /\ tabState' = [t \in Tab |-> IF t \in S THEN "closed" ELSE tabState[t]]
      /\ inflight' = [q \in Request |-> IF inflight[q].session \in S THEN NoEntry
                                        ELSE inflight[q]]
      /\ enabled' = enabled \ S
      /\ UNCHANGED <<hostTotals, totalBytes>>
    BY DEF CloseTabs, DropInflight, sumVars
<1>2. \A t \in Open : t \notin S => t \in Open'
    BY <1>1 DEF Open
<1>3. ASSUME NEW q \in Request
      PROVE  /\ IF Loading(q)'
                THEN /\ req'[q].tab \in Open' /\ req'[q].host \in Host
                     /\ inflight'[q] # NoEntry => /\ inflight'[q].session = req'[q].tab
                                                  /\ req'[q].tab \in enabled'
                     /\ req'[q].seen => /\ inflight'[q] # NoEntry
                                        /\ inflight'[q].host = req'[q].host
                ELSE inflight'[q] = NoEntry
             /\ Loading(q)' => inflight'[q] = inflight[q]
  <2>1. CASE Loading(q)'
    <3>1. /\ Loading(q) /\ req'[q] = req[q] /\ req[q].tab \notin S
          /\ req[q].tab \in Open /\ req[q].host \in Host
          /\ inflight[q] # NoEntry => inflight[q].session = req[q].tab /\ req[q].tab \in enabled
          /\ req[q].seen => inflight[q] # NoEntry /\ inflight[q].host = req[q].host
        BY <2>1 DEF Attributed
    <3>2. inflight'[q] = inflight[q]
        BY <1>1, <3>1
    <3> QED BY <1>1, <1>2, <2>1, <3>1, <3>2
  <2>2. CASE ~Loading(q)'
      BY <1>1, <2>2 DEF Attributed
  <2> QED BY <2>1, <2>2
<1>4. Attributed'
    BY <1>3 DEF Attributed
<1>5. ASSUME NEW q \in Request, NEW H \in SUBSET Host PROVE Owes(q, H)' <= Owes(q, H)
  <2>1. Owes(q, H) \in Nat
      BY OwesType DEF AllTyped
  <2>2. CASE Loading(q)'
    <3>1. Owes(q, H)' = Owes(q, H)
        BY <1>3, <2>2 DEF Owes, Missing
    <3> QED BY <2>1, <3>1
  <2>3. CASE ~Loading(q)'
    <3>1. Owes(q, H)' = 0
        BY <2>3 DEF Owes
    <3> QED BY <2>1, <3>1
  <2> QED BY <2>2, <2>3
<1> QED BY <1>1, <1>4, <1>5, FloorKept

LEMMA GoneFloor ==
    ASSUME ~CanReconnect, AllTyped, AllTyped', Attributed, Covered,
           Drop \/ \E t \in Tab : Detach(t)
    PROVE  Attributed' /\ Covered'
<1>1. req \in [Request -> Loads] /\ NoTab \notin Tab /\ Over.state = "over"
    BY TrafficAssumption DEF AllTyped, IInv, Typed, Over, Idle
<1>2. \A q \in Request : Loading(q) => req[q].tab \in Open /\ req[q].tab # NoTab
    BY <1>1 DEF Attributed, Open
<1>3. CASE Drop
  <2>1. PICK ts : CloseTabs(ts) /\ {ts[i] : i \in DOMAIN ts} = Open
      BY <1>3 DEF Drop
  <2>2. \A q \in Request : req'[q] = IF req[q].tab = NoTab THEN req[q] ELSE Over
      BY <1>1, <1>3 DEF Drop
  <2>3. \A q \in Request : ~Loading(q)'
      BY <1>1, <1>2, <2>2 DEF Loading
  <2>4. UNCHANGED <<served, blind>>
      BY <1>3 DEF Drop
  <2> QED BY <1>2, <2>1, <2>3, <2>4, CloseFloor
<1>4. ASSUME NEW t \in Tab, Detach(t) PROVE Attributed' /\ Covered'
  <2>1. CloseTabs(<<t>>) /\ UNCHANGED <<served, blind>>
      BY <1>4 DEF Detach
  <2>2. {<<t>>[i] : i \in DOMAIN <<t>>} = {t}
      OBVIOUS
  <2>3. \A q \in Request : req'[q] = IF req[q].tab = t THEN Over ELSE req[q]
      BY <1>1, <1>4 DEF Detach
  <2>4. \A q \in Request : Loading(q)' =>
            Loading(q) /\ req'[q] = req[q] /\ req[q].tab \notin {t}
      BY <1>1, <2>3 DEF Loading
  <2>5. \A q \in Request : Loading(q) /\ ~Loading(q)' => req[q].tab \in {t}
      BY <1>1, <2>3 DEF Loading
  <2> QED BY <2>1, <2>2, <2>4, <2>5, CloseFloor
<1> QED BY <1>3, <1>4

(* Without a reconnect no request is without a tab for Attach to find.     *)
LEMMA TabFloor ==
    ASSUME AllTyped, AllTyped', Attributed, Covered, NEW t \in Tab,
           \/ \E u \in Host \cup {UnknownHost} : Attach(t, u)
           \/ Enable(t) \/ \E h \in Host : Navigate(t, h)
    PROVE  Attributed' /\ Covered'
<1>1. req \in [Request -> Loads] /\ NoTab \notin Tab /\ Open \subseteq Tab
    BY TrafficAssumption DEF AllTyped, IInv, Typed, Open
<1>2. UNCHANGED <<inflight, hostTotals, totalBytes, served, blind>>
    BY DEF Attach, Enable, Navigate, sumVars, eventVars, chromeVars
<1>3. req' = req
  <2>1. CASE \E u \in Host \cup {UnknownHost} : Attach(t, u)
    <3>1. {r \in Request : Loading(r) /\ req[r].tab = NoTab} = {}
        BY <1>1 DEF Attributed
    <3>2. req' = [r \in Request |-> req[r]]
        BY <2>1, <3>1 DEF Attach
    <3> QED BY <1>1, <3>2
  <2> QED BY <2>1 DEF Enable, Navigate, chromeVars
<1>4. Open \subseteq Open' /\ enabled \subseteq enabled'
  <2>1. ASSUME NEW u, Attach(t, u) PROVE Open \subseteq Open' /\ enabled \subseteq enabled'
      BY <1>1, <2>1 DEF Attach, Open, AllTyped, IInv, Typed
  <2>2. CASE Enable(t)
      BY <2>2 DEF Enable, Open, tabVars
  <2>3. ASSUME NEW h, Navigate(t, h) PROVE Open \subseteq Open' /\ enabled \subseteq enabled'
      BY <2>3 DEF Navigate, Open, chromeVars
  <2> QED BY <2>1, <2>2, <2>3
<1>5. Attributed'
  <2>1. ASSUME NEW q \in Request
        PROVE  IF Loading(q)'
               THEN /\ req'[q].tab \in Open' /\ req'[q].host \in Host
                    /\ inflight'[q] # NoEntry => /\ inflight'[q].session = req'[q].tab
                                                 /\ req'[q].tab \in enabled'
                    /\ req'[q].seen => /\ inflight'[q] # NoEntry
                                       /\ inflight'[q].host = req'[q].host
               ELSE inflight'[q] = NoEntry
      BY <1>2, <1>3, <1>4 DEF Attributed, Loading
  <2> QED BY <2>1 DEF Attributed
<1>6. ASSUME NEW q \in Request, NEW H \in SUBSET Host PROVE Owes(q, H)' <= Owes(q, H)
  <2>1. Owes(q, H)' = Owes(q, H)
      BY <1>2, <1>3 DEF Owes, Missing, Loading
  <2> QED BY <2>1, OwesType DEF AllTyped
<1> QED BY <1>2, <1>5, <1>6, FloorKept

LEMMA NextFloor ==
    ASSUME ~CanReconnect, AllTyped, AllTyped', Attributed, Covered, [Next]_vars
    PROVE  Attributed' /\ Covered'
<1>1. CASE ReportTraffic \/ UNCHANGED vars
  <2>1. UNCHANGED <<tabState, inflight, enabled, req, served, blind, hostTotals, totalBytes>>
      BY <1>1 DEF ReportTraffic, vars, tabVars, sumVars, chromeVars
  <2>2. \A q \in Request, H \in SUBSET Host : Owes(q, H)' = Owes(q, H)
      BY <2>1 DEF Owes, Missing, Loading
  <2>3. \A q \in Request, H \in SUBSET Host : Owes(q, H)' <= Owes(q, H)
      BY <2>2, OwesType DEF AllTyped
  <2>4. Attributed'
      BY <2>1 DEF Attributed, Loading, Open
  <2> QED BY <2>1, <2>3, <2>4, FloorKept
<1>2. CASE Drop \/ \E t \in Tab : Detach(t)
    BY <1>2, GoneFloor
<1>3. ASSUME NEW t \in Tab,
             \/ \E u \in Host \cup {UnknownHost} : Attach(t, u)
             \/ Enable(t) \/ \E h \in Host : Navigate(t, h)
      PROVE  Attributed' /\ Covered'
    BY <1>3, TabFloor
<1>4. ASSUME NEW r \in Request,
             \/ \E t \in Tab, h \in Host : Start(r, t, h)
             \/ \E h \in Host : Redirect(r, h)
             \/ Respond(r)
      PROVE  Attributed' /\ Covered'
    BY <1>4, SentFloor
<1>5. ASSUME NEW r \in Request,
             Data(r) \/ Fail(r) \/ \E n \in 0..MaxHeader : Finish(r, n)
      PROVE  Attributed' /\ Covered'
    BY <1>5, BytesFloor
<1> QED BY <1>1, <1>2, <1>3, <1>4, <1>5 DEF Next

LEMMA InitFloor == ASSUME Init, AllTyped PROVE Attributed /\ Covered
<1>1. Attributed
    BY DEF Init, Attributed, Loading, Idle
<1>2. ASSUME NEW H PROVE Owed(H) = 0
  <2>1. \A r \in Request : [q \in Request |-> Owes(q, H)][r] = 0
      BY DEF Init, Owes, Loading, Idle
  <2>2. IsFiniteSet(Request)
      BY TrafficAssumption
  <2> QED BY <2>1, <2>2, SumZero DEF Owed
<1>3. \A h \in Host : At(hostTotals, h).bytes = 0 /\ served[h] = 0
    BY DEF Init, At, Zero
<1>4. Wire = 0
    BY <1>3, SumZero, TrafficAssumption DEF Wire
<1>5. totalBytes = 0 /\ blind = 0
    BY DEF Init
<1> QED BY <1>1, <1>2, <1>3, <1>4, <1>5 DEF Covered

(* As long as the pages do not outlive the connection, the process total   *)
(* is a floor, and a host is billed beyond what it served by no more than  *)
(* the bytes whose URL never reached us, for any number of requests,       *)
(* redirects and tabs: what is still owed at loadingFinished is already on *)
(* the wire (traffic.py:6-7, 118-168, 325-337).                            *)
THEOREM HostsNotOverbilled == ASSUME ~CanReconnect PROVE Spec => []HostFloor
<1>1. Init => AllTyped /\ Attributed /\ Covered
  <2>1. ASSUME Init PROVE Rest
      BY <2>1, TrafficAssumption DEF Init, Rest
  <2> QED BY <2>1, InitInv, InitSums, InitFloor DEF AllTyped
<1>2. AllTyped /\ Attributed /\ Covered /\ [Next]_vars
          => AllTyped' /\ Attributed' /\ Covered'
  <2>1. ASSUME AllTyped, [Next]_vars PROVE AllTyped'
      BY <2>1, NextInv, NextSums, NextRest DEF AllTyped
  <2> QED BY <2>1, NextFloor
<1>3. Spec => [](AllTyped /\ Attributed /\ Covered)
    BY <1>1, <1>2, PTL DEF Spec
<1>4. ASSUME AllTyped, Covered PROVE HostFloor
  <2>1. ASSUME NEW h \in Host PROVE At(hostTotals, h).bytes <= served[h] + blind
    <3>1. At(hostTotals, h).bytes \in Nat /\ served[h] \in Nat /\ blind \in Nat
        BY <1>4, AtType DEF AllTyped, Sums, Tables, Rest
    <3>2. Owed({h}) \in Int /\ Owed({h}) >= 0
        BY <1>4, OwedType DEF AllTyped
    <3>3. At(hostTotals, h).bytes + Owed({h}) <= served[h] + blind
        BY <1>4 DEF Covered
    <3> QED BY <3>1, <3>2, <3>3
  <2>2. Floor
    <3>1. SumFunction(served) = Wire
      <4>1. DOMAIN served = Host
          BY <1>4 DEF AllTyped, Rest
      <4> QED BY <4>1 DEF SumFunction, Wire
    <3>2. totalBytes \in Nat /\ Wire \in Int
        BY <1>4, WireType DEF AllTyped, Sums, Tables
    <3>3. Owed(Host) \in Int /\ Owed(Host) >= 0
        BY <1>4, OwedType DEF AllTyped
    <3>4. totalBytes + Owed(Host) <= Wire
        BY <1>4 DEF Covered
    <3> QED BY <3>1, <3>2, <3>3, <3>4 DEF Floor
  <2> QED BY <2>1, <2>2 DEF HostFloor
<1> QED BY <1>3, <1>4, PTL
=============================================================================
