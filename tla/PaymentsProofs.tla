--------------------------- MODULE PaymentsProofs ---------------------------
(***************************************************************************)
(* Proofs about Withdrawals for every set of orders, users and processes,  *)
(* and about Deposits for every set of orders and reconcilers.             *)
(*                                                                         *)
(* Balances and limits are about sums over sets of orders, so the module   *)
(* begins with the theory of SumFunctionOnSet.  Its definition recurs over *)
(* the set: each proof takes the least cardinality at which a statement    *)
(* fails and shows that it does not fail there.                            *)
(***************************************************************************)
EXTENDS Payments, FiniteSetTheorems, WellFoundedInduction, TLAPS

-----------------------------------------------------------------------------
(* Sums over finite sets. *)

(* Every nonempty set of natural numbers has a least element. *)
LEMMA LeastNatural ==
  ASSUME NEW T, T \subseteq Nat, T # {}
  PROVE  \E m \in T : \A n \in T : m <= n
<1> DEFINE R == {ss \in Nat \X Nat : ss[1] < ss[2]}
<1>1. IsWellFoundedOn(R, Nat)
  BY NatLessThanWellFounded DEF OpToRel
<1> HIDE DEF R
<1>2. PICK m \in T : \A n \in T : <<n, m>> \notin R
  BY <1>1, WFMin
<1>3. ASSUME NEW n \in T
      PROVE  m <= n
  <2>1. ~(n < m)
    BY <1>2 DEF R
  <2> QED
    BY <2>1
<1> QED
  BY <1>3

(* The fold that SumFunctionOnSet is, as the function that its recursion defines. *)
Chosen(s) == CHOOSE x \in s : TRUE
Added(f, g, s) == IF s = {} THEN 0 ELSE f[Chosen(s)] + g[s \ {Chosen(s)}]
Iter(f, S) == CHOOSE g : g = [s \in SUBSET S |-> Added(f, g, s)]
LEMMA SumIter ==
  ASSUME NEW f, NEW S
  PROVE SumFunctionOnSet(f, S) = Iter(f, S)[S]
BY DEF SumFunctionOnSet, FoldFunctionOnSet, MapThenFoldSet, Iter, Added, Chosen

(* A subset that has lost an element is a smaller one. *)
LEMMA Smaller ==
  ASSUME NEW S, IsFiniteSet(S), NEW s \in SUBSET S, s # {}
  PROVE  /\ IsFiniteSet(s) /\ Cardinality(s) \in Nat \ {0} /\ Chosen(s) \in s
         /\ s \ {Chosen(s)} \in SUBSET S
         /\ Cardinality(s \ {Chosen(s)}) = Cardinality(s) - 1
<1>1. IsFiniteSet(s) /\ Chosen(s) \in s
  BY FS_Subset DEF Chosen
<1>2. Cardinality(s) \in Nat /\ Cardinality(s) # 0
  BY <1>1, FS_CardinalityType, FS_EmptySet
<1>3. Cardinality(s \ {Chosen(s)}) = Cardinality(s) - 1
  BY <1>1, FS_RemoveElement
<1> QED
  BY <1>1, <1>2, <1>3

(* The recursion is one: the sum over a finite set exists. *)
LEMMA IterDefined ==
  ASSUME NEW f, NEW S, IsFiniteSet(S)
  PROVE  \A s \in SUBSET S : Iter(f, S)[s] = Added(f, Iter(f, S), s)
<1> DEFINE Upto(n) == {s \in SUBSET S : Cardinality(s) <= n}
           Solves(g, T) == g = [s \in T |-> Added(f, g, s)]
           bad == {n \in Nat : ~\E g : Solves(g, Upto(n))}
<1>1. bad = {}
  <2> SUFFICES ASSUME bad # {} PROVE FALSE
    OBVIOUS
  <2>1. PICK m \in bad : \A n \in bad : m <= n
    BY LeastNatural
  <2>2. m \in Nat /\ ~\E g : Solves(g, Upto(m))
    BY <2>1
  <2>3. PICK g : m # 0 => Solves(g, Upto(m - 1))
    <3>1. m # 0 => m - 1 \in Nat /\ ~(m <= m - 1)
      BY <2>2
    <3>2. m # 0 => m - 1 \notin bad
      BY <2>1, <3>1
    <3> QED
      BY <3>1, <3>2
  <2> DEFINE h == [s \in Upto(m) |-> Added(f, g, s)]
  <2>4. ASSUME NEW s \in Upto(m)
        PROVE  Added(f, g, s) = Added(f, h, s)
    <3>1. CASE s = {}
      BY <3>1 DEF Added
    <3>2. CASE s # {}
      <4> DEFINE t == s \ {Chosen(s)}
      <4>1. t \in SUBSET S /\ Cardinality(t) = Cardinality(s) - 1 /\ Cardinality(s) \in Nat \ {0}
            /\ Cardinality(s) <= m
        BY <3>2, Smaller
      <4>2. t \in Upto(m - 1) /\ t \in Upto(m) /\ m # 0
        BY <2>2, <4>1
      <4> HIDE DEF t, Upto
      <4>3. g[t] = Added(f, g, t)
        BY <2>3, <4>2
      <4>4. h[t] = g[t]
        BY <4>2, <4>3
      <4> HIDE DEF h
      <4> QED
        BY <3>2, <4>4 DEF Added, t
    <3> QED
      BY <3>1, <3>2
  <2> HIDE DEF Upto
  <2>5. Solves(h, Upto(m))
    BY <2>4
  <2> QED
    BY <2>2, <2>5
<1>2. Cardinality(S) \in Nat /\ Upto(Cardinality(S)) = SUBSET S
  BY FS_Subset, FS_CardinalityType
<1>3. \E g : Solves(g, SUBSET S)
  <2>1. \E g : Solves(g, Upto(Cardinality(S)))
    BY <1>1, <1>2
  <2> HIDE DEF Upto, Solves
  <2> QED
    BY <1>2, <2>1
<1> DEFINE iter == Iter(f, S)
<1>4. iter = [s \in SUBSET S |-> Added(f, iter, s)]
  BY <1>3 DEF Iter
<1> HIDE DEF iter
<1>5. \A s \in SUBSET S : iter[s] = Added(f, iter, s)
  BY <1>4
<1> QED
  BY <1>5 DEF iter

(* The recursion of a set and the one of a subset agree. *)
LEMMA IterSubset ==
  ASSUME NEW f, NEW S, IsFiniteSet(S), NEW T \in SUBSET S
  PROVE  Iter(f, S)[T] = SumFunctionOnSet(f, T)
<1> DEFINE bad == {n \in Nat : \E s \in SUBSET T : Cardinality(s) = n /\ Iter(f, S)[s] # Iter(f, T)[s]}
<1>1. IsFiniteSet(T)
  BY FS_Subset
<1>2. \A s \in SUBSET T : Iter(f, S)[s] = Added(f, Iter(f, S), s) /\ Iter(f, T)[s] = Added(f, Iter(f, T), s)
  BY <1>1, IterDefined
<1>3. bad = {}
  <2> SUFFICES ASSUME bad # {} PROVE FALSE
    OBVIOUS
  <2>1. PICK m \in bad : \A n \in bad : m <= n
    BY LeastNatural
  <2>2. PICK s \in SUBSET T : Cardinality(s) = m /\ Iter(f, S)[s] # Iter(f, T)[s]
    BY <2>1
  <2>3. s # {}
    BY <1>2, <2>2 DEF Added
  <2> DEFINE t == s \ {Chosen(s)}
  <2>4. t \in SUBSET T /\ Cardinality(t) = m - 1 /\ m \in Nat \ {0}
    BY <1>1, <2>2, <2>3, Smaller
  <2>5. Iter(f, S)[t] = Iter(f, T)[t]
    <3>1. m - 1 \notin bad /\ m - 1 \in Nat
      BY <2>1, <2>4
    <3> HIDE DEF t
    <3> QED
      BY <2>4, <3>1
  <2> HIDE DEF t
  <2> QED
    BY <1>2, <2>2, <2>3, <2>5 DEF Added, t
<1>4. Cardinality(T) \in Nat
  BY <1>1, FS_CardinalityType
<1> QED
  BY <1>3, <1>4, SumIter

(* The sum over nothing, and the sum with the element that is chosen first. *)
LEMMA SumChosen ==
  ASSUME NEW f, NEW S, IsFiniteSet(S)
  PROVE  SumFunctionOnSet(f, S) =
           IF S = {} THEN 0 ELSE f[Chosen(S)] + SumFunctionOnSet(f, S \ {Chosen(S)})
<1>1. SumFunctionOnSet(f, S) = Added(f, Iter(f, S), S)
  BY SumIter, IterDefined
<1>2. S # {} => Iter(f, S)[S \ {Chosen(S)}] = SumFunctionOnSet(f, S \ {Chosen(S)})
  BY IterSubset
<1> QED
  BY <1>1, <1>2 DEF Added

(* A sum of integers is one; it does not depend on the order. *)
LEMMA SumRemove ==
  ASSUME NEW f, NEW S, IsFiniteSet(S), \A x \in S : f[x] \in Int
  PROVE  /\ SumFunctionOnSet(f, S) \in Int
         /\ \A x \in S : SumFunctionOnSet(f, S) = f[x] + SumFunctionOnSet(f, S \ {x})
<1> DEFINE Sum(T) == SumFunctionOnSet(f, T)
           Fine(T) == Sum(T) \in Int /\ \A x \in T : Sum(T) = f[x] + Sum(T \ {x})
           bad == {n \in Nat : \E T \in SUBSET S : Cardinality(T) = n /\ ~Fine(T)}
<1> HIDE DEF Sum
<1>1. bad = {}
  <2> SUFFICES ASSUME bad # {} PROVE FALSE
    OBVIOUS
  <2>1. PICK m \in bad : \A n \in bad : m <= n
    BY LeastNatural
  <2>2. PICK T \in SUBSET S : Cardinality(T) = m /\ ~Fine(T)
    BY <2>1
  <2>3. IsFiniteSet(T) /\ m \in Nat
    BY <2>2, FS_Subset, FS_CardinalityType
  <2>4. ASSUME NEW U \in SUBSET S, Cardinality(U) \in Nat, Cardinality(U) < m
        PROVE  Fine(U)
    BY <2>1, <2>3, <2>4
  <2>5. T # {}
    <3>1. T = {} => Sum(T) = 0
      BY <2>3, SumChosen DEF Sum
    <3> QED
      BY <2>2, <3>1
  <2> DEFINE y == Chosen(T)
  <2>6. /\ y \in T /\ Sum(T) = f[y] + Sum(T \ {y}) /\ f[y] \in Int
        /\ Cardinality(T \ {y}) = m - 1 /\ m \in Nat \ {0} /\ IsFiniteSet(T \ {y})
    <3>1. y \in T /\ Cardinality(T \ {y}) = m - 1 /\ m \in Nat \ {0}
      BY <2>2, <2>3, <2>5, Smaller
    <3>2. Sum(T) = f[y] + Sum(T \ {y})
      BY <2>3, <2>5, SumChosen DEF Sum
    <3> QED
      BY <2>3, <3>1, <3>2, FS_Subset
  <2> HIDE DEF y, Fine
  <2>7. Fine(T \ {y})
    BY <2>4, <2>6
  <2>8. Sum(T) \in Int
    BY <2>6, <2>7 DEF Fine
  <2>9. ASSUME NEW x \in T
        PROVE  Sum(T) = f[x] + Sum(T \ {x})
    <3>1. CASE x = y
      BY <2>6, <3>1
    <3>2. CASE x # y
      <4>1. Sum(T \ {y}) = f[x] + Sum(T \ {y, x})
        <5>1. (T \ {y}) \ {x} = T \ {y, x} /\ x \in T \ {y}
          BY <3>2
        <5> QED
          BY <2>7, <5>1 DEF Fine
      <4>2. Fine(T \ {x})
        <5>1. Cardinality(T \ {x}) = m - 1
          BY <2>2, <2>3, FS_RemoveElement
        <5> QED
          BY <2>4, <2>6, <5>1
      <4>3. Sum(T \ {x}) = f[y] + Sum(T \ {y, x})
        <5>1. (T \ {x}) \ {y} = T \ {y, x} /\ y \in T \ {x}
          BY <2>6, <3>2
        <5> QED
          BY <4>2, <5>1 DEF Fine
      <4>4. Sum(T \ {y, x}) \in Int
        <5>1. IsFiniteSet(T \ {y, x})
          BY <2>3, FS_Subset
        <5>2. Cardinality((T \ {y}) \ {x}) = m - 2 /\ m - 2 \in Nat
          <6>1. x \in T \ {y}
            BY <3>2
          <6>2. Cardinality((T \ {y}) \ {x}) = m - 1 - 1
            <7> DEFINE U == T \ {y}
            <7>1. IsFiniteSet(U) /\ x \in U /\ Cardinality(U) = m - 1
              BY <2>6, <6>1
            <7> HIDE DEF U
            <7>2. Cardinality(U \ {x}) = Cardinality(U) - 1
              BY <7>1, FS_RemoveElement
            <7> QED
              BY <7>1, <7>2 DEF U
          <6>3. Cardinality((T \ {y}) \ {x}) \in Nat
            BY <2>6, FS_CardinalityType, FS_Subset
          <6> QED
            BY <2>6, <6>2, <6>3
        <5>3. (T \ {y}) \ {x} = T \ {y, x}
          OBVIOUS
        <5>4. Fine(T \ {y, x})
          BY <2>4, <2>6, <5>2, <5>3
        <5> QED
          BY <5>4 DEF Fine
      <4>5. f[x] \in Int
        OBVIOUS
      <4> QED
        BY <2>6, <4>1, <4>3, <4>4, <4>5
    <3> QED
      BY <3>1, <3>2
  <2> QED
    BY <2>2, <2>8, <2>9 DEF Fine
<1>2. Cardinality(S) \in Nat
  BY FS_CardinalityType
<1>3. Fine(S)
  BY <1>1, <1>2
<1> QED
  BY <1>3 DEF Sum

(* A new element. *)
LEMMA SumAdd ==
  ASSUME NEW f, NEW S, IsFiniteSet(S), \A x \in S : f[x] \in Int, NEW y, y \notin S, f[y] \in Int
  PROVE  /\ IsFiniteSet(S \cup {y})
         /\ SumFunctionOnSet(f, S \cup {y}) = SumFunctionOnSet(f, S) + f[y]
<1>1. IsFiniteSet(S \cup {y}) /\ (S \cup {y}) \ {y} = S
  BY FS_AddElement
<1>2. SumFunctionOnSet(f, S) \in Int
  BY SumRemove
<1>3. SumFunctionOnSet(f, S \cup {y}) = f[y] + SumFunctionOnSet(f, (S \cup {y}) \ {y})
  BY <1>1, SumRemove
<1> DEFINE before == SumFunctionOnSet(f, S)
           after == SumFunctionOnSet(f, S \cup {y})
<1>4. after = f[y] + before /\ before \in Int
  BY <1>1, <1>2, <1>3
<1> HIDE DEF before, after
<1>5. after = before + f[y]
  BY <1>4
<1> QED
  BY <1>1, <1>5 DEF before, after

(* Nothing sums up to nothing. *)
LEMMA SumNothing == ASSUME NEW f PROVE SumFunctionOnSet(f, {}) = 0
BY SumChosen, FS_EmptySet

(* The sum is that of the values. *)
LEMMA SumSame ==
  ASSUME NEW f, NEW g, NEW S, IsFiniteSet(S), \A x \in S : f[x] \in Int /\ g[x] = f[x]
  PROVE  SumFunctionOnSet(g, S) = SumFunctionOnSet(f, S)
<1> DEFINE bad == {n \in Nat : \E T \in SUBSET S : /\ Cardinality(T) = n
                                                  /\ SumFunctionOnSet(g, T) # SumFunctionOnSet(f, T)}
<1>1. bad = {}
  <2> SUFFICES ASSUME bad # {} PROVE FALSE
    OBVIOUS
  <2>1. PICK m \in bad : \A n \in bad : m <= n
    BY LeastNatural
  <2>2. PICK T \in SUBSET S : Cardinality(T) = m /\ SumFunctionOnSet(g, T) # SumFunctionOnSet(f, T)
    BY <2>1
  <2>3. IsFiniteSet(T)
    BY FS_Subset
  <2>4. T # {}
    BY <2>2, SumNothing
  <2> DEFINE t == T \ {Chosen(T)}
  <2>5. t \in SUBSET S /\ Cardinality(t) = m - 1 /\ m \in Nat \ {0} /\ Chosen(T) \in T
    BY <2>2, <2>3, <2>4, Smaller
  <2>6. SumFunctionOnSet(f, T) = f[Chosen(T)] + SumFunctionOnSet(f, t)
        /\ SumFunctionOnSet(g, T) = g[Chosen(T)] + SumFunctionOnSet(g, t)
    BY <2>3, <2>4, SumChosen
  <2> HIDE DEF t
  <2>7. m - 1 \in Nat /\ m - 1 \notin bad
    BY <2>1, <2>5
  <2>8. SumFunctionOnSet(g, t) = SumFunctionOnSet(f, t)
    BY <2>5, <2>7
  <2> QED
    BY <2>2, <2>5, <2>6, <2>8
<1>2. Cardinality(S) \in Nat
  BY FS_CardinalityType
<1> QED
  BY <1>1, <1>2

(* More elements and higher values of natural numbers give no lower a sum. *)
LEMMA SumGrows ==
  ASSUME NEW f, NEW g, NEW S, IsFiniteSet(S), \A x \in S : f[x] \in Nat /\ g[x] \in Nat /\ f[x] <= g[x],
         NEW T \in SUBSET S
  PROVE  /\ SumFunctionOnSet(f, T) \in Nat /\ SumFunctionOnSet(g, S) \in Nat
         /\ SumFunctionOnSet(f, T) <= SumFunctionOnSet(g, S)
<1> DEFINE Low(U) == SumFunctionOnSet(f, U \cap T)
           High(U) == SumFunctionOnSet(g, U)
           Fine(U) == Low(U) \in Nat /\ High(U) \in Nat /\ Low(U) <= High(U)
           bad == {n \in Nat : \E U \in SUBSET S : Cardinality(U) = n /\ ~Fine(U)}
<1>1. bad = {}
  <2> SUFFICES ASSUME bad # {} PROVE FALSE
    OBVIOUS
  <2>1. PICK m \in bad : \A n \in bad : m <= n
    BY LeastNatural
  <2>2. PICK U \in SUBSET S : Cardinality(U) = m /\ ~Fine(U)
    BY <2>1
  <2>3. IsFiniteSet(U) /\ IsFiniteSet(U \cap T)
    BY FS_Subset
  <2>4. U # {}
    <3>1. U = {} => U \cap T = {}
      OBVIOUS
    <3>2. U = {} => Low(U) = 0 /\ High(U) = 0
      BY <3>1, SumNothing
    <3> HIDE DEF Low, High
    <3> QED
      BY <2>2, <3>2
  <2> DEFINE y == Chosen(U)
             V == U \ {y}
  <2>5. V \in SUBSET S /\ Cardinality(V) = m - 1 /\ m \in Nat \ {0} /\ y \in U
    BY <2>2, <2>3, <2>4, Smaller
  <2> HIDE DEF y
  <2>6. High(U) = g[y] + High(V)
    BY <2>3, <2>5, SumRemove
  <2>7. Low(U) = IF y \in T THEN f[y] + Low(V) ELSE Low(V)
    <3>1. y \in T => (U \cap T) \ {y} = V \cap T /\ y \in U \cap T
      BY <2>5
    <3>2. y \notin T => U \cap T = V \cap T
      OBVIOUS
    <3>3. y \in T => Low(U) = f[y] + SumFunctionOnSet(f, (U \cap T) \ {y})
      BY <2>3, <3>1, SumRemove
    <3> HIDE DEF V
    <3> QED
      BY <3>1, <3>2, <3>3
  <2> HIDE DEF V, Low, High
  <2>8. Fine(V)
    <3>1. m - 1 \in Nat /\ m - 1 \notin bad
      BY <2>1, <2>5
    <3> HIDE DEF Fine
    <3> QED
      BY <2>5, <3>1
  <2>9. f[y] \in Nat /\ g[y] \in Nat /\ f[y] <= g[y]
    BY <2>5
  <2> QED
    BY <2>2, <2>6, <2>7, <2>8, <2>9
<1>2. Cardinality(S) \in Nat
  BY FS_CardinalityType
<1>3. Fine(S)
  <2> HIDE DEF Fine
  <2> QED
    BY <1>1, <1>2
<1>4. S \cap T = T
  OBVIOUS
<1> QED
  BY <1>3, <1>4

-----------------------------------------------------------------------------
(* The inductive invariant. *)

Sent   == {"submitting", "verification_pending", "processing", "uncertain", "confirmed", "rejected"}
Inside == {"claimed", "calling", "accepted", "authenticating", "verified", "refused", "unresolved"}

(* From its reservation on, an order has a receipt and a reserve journal. *)
ReserveInv ==
    \A o \in Orders : status[o] \in Held \cup {"confirmed", "rejected"} => AuthorizationProven(o)

(* Only a closed order has released its reserve, and by one journal. *)
ReleaseInv ==
    \A o \in Orders :
        /\ \A j \in journal : Releases(j, o) => status[o] \in {"confirmed", "rejected"}
        /\ \A j1, j2 \in journal : Releases(j1, o) /\ Releases(j2, o) => j1 = j2

(* What the provider knows of an order, and what the order knows of it. *)
ProviderInv ==
    \A o \in Orders :
        /\ verdict[o] = "created" => payouts[o] = 1 /\ payout[o] # "none"
        /\ verdict[o] # "created" => payouts[o] = 0 /\ payout[o] = "none"
        /\ verdict[o] # "none" => status[o] \in Sent
        /\ providerId[o] # None => providerId[o] = o /\ verdict[o] = "created"

(* One worker at most is past the claim of an order. *)
ClaimInv ==
    \A w \in Procs : proc[w].pc \in Inside =>
        /\ status[proc[w].order] \in Sent
        /\ \A v \in Procs : proc[v].pc \in Inside /\ proc[v].order = proc[w].order => v = w

(* What a worker past the claim may rely on. *)
WorkerInv ==
    \A w \in Procs :
        /\ proc[w].pc = "claimed" =>
             /\ status[proc[w].order] \in {"submitting", "uncertain"}
             /\ verdict[proc[w].order] = "none"
        /\ proc[w].pc \in {"accepted", "authenticating", "verified"} =>
             verdict[proc[w].order] = "created"
        /\ proc[w].pc \in {"authenticating", "verified"} =>
             status[proc[w].order] # "submitting"
        /\ proc[w].pc = "refused" /\ status[proc[w].order] = "submitting" =>
             verdict[proc[w].order] = "refused"

(* A reconciler works on the order's own payout, and what it read is final. *)
ReconcilerInv ==
    \A r \in Procs :
        /\ proc[r].pc \in {"querying", "reverifying", "settling"} =>
             providerId[proc[r].order] = proc[r].order
        /\ proc[r].pc = "settling" =>
             proc[r].note \in Terminal /\ payout[proc[r].order] = proc[r].note

SafeInv == /\ ReserveInv /\ ReleaseInv /\ ProviderInv /\ ClaimInv
           /\ WorkerInv /\ ReconcilerInv
           /\ ReturnedIsNotPaid /\ PaidIsDelivered /\ ChangedFeeIsNeverSent
IInv == TypeOK /\ SafeInv

-----------------------------------------------------------------------------
(* Type correctness. *)

(* A journal of the module's kinds keeps the balances typed and non-negative. *)
LEMMA PostTyped ==
    ASSUME NEW op, NEW o \in Orders, NEW to,
           [op |-> op, order |-> o, to |-> to] \in Journals,
           journal \subseteq Journals,
           account \in [Accounts -> Int], \A a \in Accounts : account[a] >= 0,
           Post(op, o, to)
    PROVE  /\ journal' \subseteq Journals
           /\ account' \in [Accounts -> Int]
           /\ \A a \in Accounts : account'[a] >= 0
<1> DEFINE j == [op |-> op, order |-> o, to |-> to]
<1>1. Amount[o] \in Nat /\ Owner[o] \in Users
  BY WithdrawalAssumption
<1>2. Debited(j) \in Accounts /\ Credited(j) \in Accounts
  <2>1. j.order = o /\ j.to \in {"withdrawals", "available", "external"}
    BY DEF Journals
  <2>2. Available(Owner[o]) \in Accounts /\ Reserve(Owner[o]) \in Accounts /\ External \in Accounts
    BY <1>1 DEF Accounts
  <2> QED BY <2>1, <2>2 DEF Debited, Credited, Available, Reserve
<1>3. CASE Posted(op, o)
  BY <1>3 DEF Post, ledgerVars
<1>4. CASE ~Posted(op, o)
  <2>1. /\ account[Debited(j)] >= Amount[o]
        /\ journal' = journal \cup {j}
        /\ account' = [account EXCEPT ![Debited(j)] = @ - Amount[o],
                                      ![Credited(j)] = @ + Amount[o]]
    BY <1>4 DEF Post
  <2> HIDE DEF j
  <2>2. account' \in [Accounts -> Int] /\ \A a \in Accounts : account'[a] >= 0
    BY <2>1, <1>1, <1>2
  <2> QED BY <2>1, <2>2 DEF j
<1> QED BY <1>3, <1>4

(* The database starts empty, and every value is of its kind. *)
LEMMA InitTyped == Init => TypeOK
<1> SUFFICES ASSUME Init PROVE TypeOK
  OBVIOUS
<1>1. account \in [Accounts -> Int] /\ \A a \in Accounts : account[a] >= 0
  BY WithdrawalAssumption DEF Init, Accounts, Available, Reserve, External
<1> QED BY <1>1, WithdrawalAssumption
        DEF Init, TypeOK, Statuses, Reasons, Idle, Places, Notes, PayoutStatuses

(* The steps that move no money. *)
UnpostedStep ==
    \/ \E c \in Clients :
         \/ \E o \in Orders : RequestWithdrawal(c, o)
         \/ InsertOrder(c) \/ InstallChallenge(c) \/ SendCode(c)
         \/ \E o \in Orders, k \in Keys : ClaimAttempt(c, o, k)
    \/ \E w \in Workers :
         \/ \E o \in Orders : BeginSubmit(w, o)
         \/ \E why \in {"authorization_not_proven", "fee_changed"} : HoldForReview(w, why)
         \/ ClaimOrder(w) \/ CreatePayout(w) \/ ReceiveReply(w) \/ PersistIds(w)
         \/ VerifyPayout(w) \/ MarkProcessing(w) \/ MarkUncertain(w)
    \/ \E r \in Reconcilers :
         \/ \E o \in Orders : BeginReconcile(r, o)
         \/ QueryPayout(r) \/ RepeatVerification(r)
    \/ TickStep
    \/ \E o \in Orders : Approve(o)
    \/ \E o, p \in Orders : ProposeProviderId(o, p)
    \/ EnvironmentStep

(* The four steps that post a journal. *)
PostingStep ==
    \/ \E c \in Clients : VerifyWithdrawal(c)
    \/ \E w \in Workers : RefundRefused(w)
    \/ \E r \in Reconcilers : SettlePayout(r)
    \/ \E o \in Orders : Reject(o)

(* Every step either moves no money or posts one journal. *)
LEMMA NextCases == Next <=> UnpostedStep \/ PostingStep
BY DEF Next, UnpostedStep, PostingStep, ClientStep, WorkerStep, ReconcilerStep, AdminStep

ProcTyped ==
    /\ proc \in [Procs -> [pc : Places, order : Orders \cup {None}, note : Notes]]
    /\ \A p \in Procs : proc[p].pc # "idle" => proc[p].order \in Orders
    /\ \A p \in Procs : proc[p].pc = "verifying" => proc[p].note \in Keys

(* A handler step that posts no journal keeps every value of its kind. *)
LEMMA UnpostedTyped == TypeOK /\ UnpostedStep => TypeOK'
<1> SUFFICES ASSUME TypeOK, UnpostedStep PROVE TypeOK'
  OBVIOUS
<1> USE DEF TypeOK, requestVars, ledgerVars, providerVars
<1>1. ASSUME NEW c \in Clients, NEW o \in Orders, RequestWithdrawal(c, o) PROVE TypeOK'
  BY <1>1 DEF Procs, At, Job, Go, Stop, Idle, Places, Notes, RequestWithdrawal, Start, Statuses, Cas
<1>2. ASSUME NEW c \in Clients, InsertOrder(c) PROVE TypeOK'
  BY <1>2 DEF Procs, At, Job, Go, Stop, Idle, Places, Notes, InsertOrder, Statuses, Cas
<1>3. ASSUME NEW c \in Clients, InstallChallenge(c) PROVE TypeOK'
  <2>1. CASE Go(c, "mailing")
    BY <1>3, <2>1 DEF Procs, At, Job, Go, Places, InstallChallenge, Statuses, Cas
  <2>2. CASE Stop(c)
    BY <1>3, <2>2 DEF Procs, At, Job, Stop, Idle, Places, Notes, InstallChallenge, Statuses, Cas
  <2> QED BY <1>3, <2>1, <2>2 DEF InstallChallenge
<1>4. ASSUME NEW c \in Clients, SendCode(c) PROVE TypeOK'
  BY <1>4 DEF Procs, At, Job, Go, Stop, Idle, Places, Notes, SendCode, Statuses, Cas
<1>5. ASSUME NEW c \in Clients, NEW o \in Orders, NEW k \in Keys, ClaimAttempt(c, o, k) PROVE TypeOK'
  <2>1. challenge' \in [Orders -> [attempts : 0..MaxAttempts, consumed : BOOLEAN, lapsed : BOOLEAN]]
    BY <1>5, WithdrawalAssumption DEF ClaimAttempt
  <2>2. ASSUME proc' = [proc EXCEPT ![c] = [pc |-> "verifying", order |-> o, note |-> k]]
        PROVE ProcTyped'
    BY <2>2 DEF ProcTyped, Procs, Places, Notes
  <2>3. ProcTyped'
    BY <1>5, <2>2 DEF ClaimAttempt, ProcTyped
  <2> QED BY <1>5, <2>1, <2>3 DEF ClaimAttempt, ProcTyped
<1>6. ASSUME NEW w \in Workers, NEW o \in Orders, BeginSubmit(w, o) PROVE TypeOK'
  BY <1>6 DEF Procs, At, Job, Go, Stop, Idle, Places, Notes, BeginSubmit, Start
<1>7. ASSUME NEW w \in Workers, NEW why \in {"authorization_not_proven", "fee_changed"}, HoldForReview(w, why) PROVE TypeOK'
  BY <1>7 DEF Procs, At, Job, Go, Stop, Idle, Places, Notes, HoldForReview, Statuses, Reasons, Cas
<1>8. ASSUME NEW w \in Workers, ClaimOrder(w) PROVE TypeOK'
  <2>1. CASE Cas(Job(w), {"reserved"}, "submitting") /\ Go(w, "claimed")
    BY <1>8, <2>1 DEF Procs, At, Job, Go, Places, ClaimOrder, Statuses, Cas
  <2>2. CASE UNCHANGED status /\ Stop(w)
    BY <1>8, <2>2 DEF Procs, Stop, Idle, Places, Notes, ClaimOrder
  <2> QED BY <1>8, <2>1, <2>2 DEF ClaimOrder
<1>9. ASSUME NEW w \in Workers, CreatePayout(w) PROVE TypeOK'
  BY <1>9 DEF Procs, At, Job, Go, Stop, Idle, Places, Notes, CreatePayout
<1>10. ASSUME NEW w \in Workers, ReceiveReply(w) PROVE TypeOK'
  <2>1. ASSUME NEW at \in {"accepted", "refused", "unresolved"}, Go(w, at) PROVE TypeOK'
    BY <1>10, <2>1 DEF Procs, At, Go, Places, ReceiveReply
  <2> QED BY <1>10, <2>1 DEF ReceiveReply
<1>11. ASSUME NEW w \in Workers, PersistIds(w) PROVE TypeOK'
  <2>1. Job(w) \in Orders
    BY <1>11 DEF PersistIds, At, Job, Procs
  <2>2. status' \in [Orders -> Statuses] /\ providerId' \in [Orders -> Orders \cup {None}]
    <3>1. CASE UNCHANGED <<status, providerId>>
      BY <3>1
    <3>2. ASSUME Cas(Job(w), {"submitting"}, "verification_pending")
          PROVE  status' \in [Orders -> Statuses]
      BY <3>2 DEF Cas, Statuses
    <3>3. ASSUME providerId' = IF status[Job(w)] = "submitting"
                               THEN [providerId EXCEPT ![Job(w)] = Job(w)] ELSE providerId
          PROVE  providerId' \in [Orders -> Orders \cup {None}]
      BY <2>1, <3>3
    <3> QED BY <1>11, <3>1, <3>2, <3>3 DEF PersistIds
  <2>3. ASSUME NEW at \in {"authenticating", "unresolved"}, Go(w, at) PROVE ProcTyped'
    BY <1>11, <2>3 DEF PersistIds, ProcTyped, Procs, At, Go, Places
  <2>4. ProcTyped'
    BY <1>11, <2>3 DEF PersistIds
  <2> QED BY <1>11, <2>2, <2>4 DEF PersistIds, ProcTyped
<1>12. ASSUME NEW w \in Workers, VerifyPayout(w) PROVE TypeOK'
  <2>1. payout' \in [Orders -> PayoutStatuses]
    BY <1>12 DEF VerifyPayout, Authenticate, PayoutStatuses
  <2>2. ASSUME NEW at \in {"verified", "refused", "unresolved"}, Go(w, at) PROVE ProcTyped'
    BY <1>12, <2>2 DEF Procs, At, Go, Places, ProcTyped, VerifyPayout
  <2>3. ProcTyped'
    BY <1>12, <2>2 DEF VerifyPayout
  <2> QED BY <1>12, <2>1, <2>3 DEF VerifyPayout, ProcTyped
<1>13. ASSUME NEW w \in Workers, MarkProcessing(w) PROVE TypeOK'
  BY <1>13 DEF Procs, At, Job, Go, Stop, Idle, Places, Notes, MarkProcessing, Statuses, Cas
<1>14. ASSUME NEW w \in Workers, MarkUncertain(w) PROVE TypeOK'
  BY <1>14 DEF Procs, At, Job, Go, Stop, Idle, Places, Notes, MarkUncertain, Statuses, Cas
<1>15. ASSUME NEW r \in Reconcilers, NEW o \in Orders, BeginReconcile(r, o) PROVE TypeOK'
  BY <1>15 DEF Procs, At, Job, Go, Stop, Idle, Places, Notes, BeginReconcile
<1>16. ASSUME NEW r \in Reconcilers, QueryPayout(r) PROVE TypeOK'
  <2>1. CASE Go(r, "reverifying")
    BY <1>16, <2>1 DEF Procs, At, Go, Places, QueryPayout
  <2>2. ASSUME NEW found \in Terminal, proc' = [proc EXCEPT ![r].pc = "settling", ![r].note = found]
        PROVE TypeOK'
    BY <1>16, <2>2 DEF Procs, At, Places, Notes, QueryPayout
  <2>3. CASE Stop(r)
    BY <1>16, <2>3 DEF Procs, Stop, Idle, Places, Notes, QueryPayout
  <2> QED BY <1>16, <2>1, <2>2, <2>3 DEF QueryPayout
<1>17. ASSUME NEW r \in Reconcilers, RepeatVerification(r) PROVE TypeOK'
  BY <1>17 DEF Procs, At, Job, Go, Stop, Idle, Places, Notes, RepeatVerification, Authenticate, PayoutStatuses, Cas
<1>18. ASSUME NEW o \in Orders, ExpireVerification(o) PROVE TypeOK'
  BY <1>18 DEF ExpireVerification, Statuses, Cas
<1>19. ASSUME NEW o \in Orders, SubmissionTimedOut(o) PROVE TypeOK'
  BY <1>19 DEF SubmissionTimedOut, Statuses, Cas
<1>20. ASSUME NEW r \in proposals, ResolveUncertain(r) PROVE TypeOK'
  BY <1>20 DEF ResolveUncertain
<1>21. ASSUME NEW o \in Orders, Approve(o) PROVE TypeOK'
  BY <1>21 DEF Approve, Statuses
<1>22. ASSUME NEW o \in Orders, NEW p \in Orders, ProposeProviderId(o, p) PROVE TypeOK'
  BY <1>22 DEF ProposeProviderId
<1>23. ASSUME NEW p \in Procs, Abandon(p) PROVE TypeOK'
  BY <1>23 DEF Procs, At, Job, Go, Stop, Idle, Places, Notes, Abandon
<1>24. ASSUME NEW o \in Orders, ChallengeLapses(o) PROVE TypeOK'
  BY <1>24 DEF ChallengeLapses
<1>25. ASSUME NEW o \in Orders, ProviderAnswers(o) PROVE TypeOK'
  <2>1. /\ verdict' \in [Orders -> {"none", "inflight", "created", "refused"}]
        /\ payouts' \in [Orders -> Nat]
        /\ payout' \in [Orders -> PayoutStatuses]
    <3>1. CASE /\ verdict' = [verdict EXCEPT ![o] = "created"]
               /\ payouts' = [payouts EXCEPT ![o] = @ + 1]
               /\ payout' = [payout EXCEPT ![o] = "waiting"]
      BY <3>1 DEF PayoutStatuses
    <3>2. CASE verdict' = [verdict EXCEPT ![o] = "refused"] /\ UNCHANGED <<payouts, payout>>
      BY <3>2
    <3> QED BY <1>25, <3>1, <3>2 DEF ProviderAnswers
  <2> QED BY <1>25, <2>1 DEF ProviderAnswers
<1>26. ASSUME NEW o \in Orders, ProviderDecides(o) PROVE TypeOK'
  <2>1. payout' \in [Orders -> PayoutStatuses]
    BY <1>26 DEF ProviderDecides, PayoutStatuses, Terminal
  <2> QED BY <1>26, <2>1 DEF ProviderDecides
<1> QED BY <1>1, <1>2, <1>3, <1>4, <1>5, <1>6, <1>7, <1>8, <1>9, <1>10, <1>11, <1>12, <1>13, <1>14, <1>15, <1>16, <1>17, <1>18, <1>19, <1>20, <1>21, <1>22, <1>23, <1>24, <1>25, <1>26 DEF UnpostedStep, TickStep, EnvironmentStep

(* The four handler steps that post a journal do so as well. *)
LEMMA PostingTyped == TypeOK /\ PostingStep => TypeOK'
<1> SUFFICES ASSUME TypeOK, PostingStep PROVE TypeOK'
  OBVIOUS
<1> USE DEF TypeOK, requestVars, providerVars
<1>1. ASSUME NEW c \in Clients, VerifyWithdrawal(c) PROVE TypeOK'
  <2>1. Job(c) \in Orders /\ Owner[Job(c)] \in Users
    BY <1>1, WithdrawalAssumption DEF VerifyWithdrawal, At, Job, Procs
  <2>2. /\ journal' \subseteq Journals
        /\ account' \in [Accounts -> Int]
        /\ \A a \in Accounts : account'[a] >= 0
    BY <1>1, <2>1, PostTyped DEF VerifyWithdrawal, Journals
  <2>3. ProcTyped'
    BY <1>1 DEF VerifyWithdrawal, ProcTyped, Stop, Idle, Procs, Places, Notes
  <2>4. challenge' \in [Orders -> [attempts : 0..MaxAttempts, consumed : BOOLEAN, lapsed : BOOLEAN]]
    <3>1. challenge' = [challenge EXCEPT ![Job(c)].consumed = TRUE]
      BY <1>1 DEF VerifyWithdrawal
    <3> QED BY <2>1, <3>1
  <2>5. status' \in [Orders -> Statuses] /\ reason' \in [Orders -> Reasons]
    BY <1>1, <2>1 DEF VerifyWithdrawal, Statuses, Reasons
  <2>6. receipts' \subseteq [user : Users, key : Keys, order : Orders]
    <3>1. proc[c].note \in Keys
      BY <1>1 DEF VerifyWithdrawal, At, Procs
    <3> QED BY <1>1, <2>1, <3>1 DEF VerifyWithdrawal
  <2> QED BY <1>1, <2>2, <2>3, <2>4, <2>5, <2>6 DEF VerifyWithdrawal, ProcTyped
<1>2. ASSUME NEW w \in Workers, RefundRefused(w) PROVE TypeOK'
  <2>1. Job(w) \in Orders
    BY <1>2 DEF RefundRefused, At, Job, Procs
  <2>2. CASE Refundable(Job(w))
    <3>1. Post("provider-reject", Job(w), "available") /\ Stop(w)
      BY <1>2, <2>2 DEF RefundRefused
    <3>2. /\ journal' \subseteq Journals
          /\ account' \in [Accounts -> Int]
          /\ \A a \in Accounts : account'[a] >= 0
      BY <2>1, <3>1, PostTyped DEF Journals
    <3>3. status' \in [Orders -> Statuses]
      BY <1>2, <2>1, <2>2 DEF RefundRefused, Cas, Statuses
    <3>4. ProcTyped'
      BY <3>1 DEF ProcTyped, Stop, Idle, Procs, Places, Notes
    <3> QED BY <1>2, <3>2, <3>3, <3>4 DEF RefundRefused, ProcTyped
  <2>3. CASE ~Refundable(Job(w))
    <3>1. Go(w, "unresolved") /\ proc[w].pc # "idle"
      BY <1>2, <2>3 DEF RefundRefused, At
    <3>2. ProcTyped'
      BY <3>1 DEF ProcTyped, Go, Procs, Places
    <3> QED BY <1>2, <2>3, <3>2 DEF RefundRefused, ProcTyped, ledgerVars
  <2> QED BY <2>2, <2>3
<1>3. ASSUME NEW r \in Reconcilers, SettlePayout(r) PROVE TypeOK'
  <2> DEFINE to == IF proc[r].note = "finished" THEN "external" ELSE "available"
             next == IF proc[r].note = "finished" THEN "confirmed" ELSE "rejected"
  <2>1. Job(r) \in Orders
    BY <1>3 DEF SettlePayout, At, Job, Procs
  <2>2. ProcTyped'
    BY <1>3 DEF SettlePayout, ProcTyped, Stop, Idle, Procs, Places, Notes
  <2>3. CASE status[Job(r)] \in Settleable
    <3>1. Post("settle", Job(r), to) /\ Cas(Job(r), Settleable, next)
      BY <1>3, <2>3 DEF SettlePayout
    <3>2. /\ journal' \subseteq Journals
          /\ account' \in [Accounts -> Int]
          /\ \A a \in Accounts : account'[a] >= 0
      BY <2>1, <3>1, PostTyped DEF Journals
    <3>3. status' \in [Orders -> Statuses]
      BY <2>1, <3>1 DEF Cas, Statuses
    <3> QED BY <1>3, <2>2, <3>2, <3>3 DEF SettlePayout, ProcTyped
  <2>4. CASE status[Job(r)] \notin Settleable
    BY <1>3, <2>2, <2>4 DEF SettlePayout, ProcTyped, ledgerVars
  <2> QED BY <2>3, <2>4
<1>4. ASSUME NEW o \in Orders, Reject(o) PROVE TypeOK'
  <2>1. /\ journal' \subseteq Journals
        /\ account' \in [Accounts -> Int]
        /\ \A a \in Accounts : account'[a] >= 0
    BY <1>4, PostTyped DEF Reject, Journals
  <2> QED BY <1>4, <2>1 DEF Reject, Statuses
<1> QED BY <1>1, <1>2, <1>3, <1>4 DEF PostingStep

(* Every variable keeps its type and no balance becomes negative. *)
THEOREM TypeCorrect == Spec => []TypeOK
<1>1. TypeOK /\ [Next]_vars => TypeOK'
  <2>1. ASSUME TypeOK, UNCHANGED vars PROVE TypeOK'
    BY <2>1 DEF TypeOK, vars, requestVars, ledgerVars, providerVars
  <2> QED BY <2>1, UnpostedTyped, PostingTyped, NextCases
<1> QED BY InitTyped, <1>1, PTL DEF Spec

-----------------------------------------------------------------------------
(* Safety. *)

(* After a post the journal is there, and nothing else is new. *)
LEMMA PostEffect ==
    ASSUME NEW op, NEW o, NEW to, Post(op, o, to)
    PROVE  /\ [op |-> op, order |-> o, to |-> to] \in journal'
           /\ journal \subseteq journal'
           /\ \A j \in journal' : j \in journal \/ j = [op |-> op, order |-> o, to |-> to]
BY DEF Post, ledgerVars

(* Closing a held order by one release journal, when its payout allows it. *)
LEMMA ReleaseKeepsSafe ==
    ASSUME IInv, TypeOK', NEW o \in Orders, NEW op, NEW to, op # "reserve", Post(op, o, to),
           status[o] \in Held, status'[o] \in {"confirmed", "rejected"},
           \A p \in Orders \ {o} : status'[p] = status[p],
           UNCHANGED <<receipts, payout, verdict>>,
           to = "available" => payout[o] \in {"none", "rejected"} /\ verdict[o] # "inflight",
           to = "external" => payout[o] = "finished"
    PROVE  ReserveInv' /\ ReleaseInv' /\ ReturnedIsNotPaid' /\ PaidIsDelivered'
<1> USE DEF IInv, SafeInv
<1>1. \A j \in journal : ~Releases(j, o)
  BY DEF ReleaseInv, Held
<1>2. /\ journal \subseteq journal'
      /\ \A j \in journal' : j \in journal \/ j = [op |-> op, order |-> o, to |-> to]
  BY PostEffect
<1>3. ReserveInv'
  BY <1>2 DEF ReserveInv, AuthorizationProven, Posted
<1>4. ReleaseInv'
  BY <1>1, <1>2 DEF ReleaseInv, Releases
<1>5. ReturnedIsNotPaid' /\ PaidIsDelivered'
  BY <1>1, <1>2 DEF ReturnedIsNotPaid, PaidIsDelivered, Returned, Paid, Releases
<1> QED BY <1>3, <1>4, <1>5

(* A claim stays exclusive while nobody enters the part of the code behind it
   and no claimed order goes back to the queue. *)
LEMMA ClaimStays ==
    ASSUME ClaimInv,
           \A v \in Procs : proc'[v].pc \in Inside =>
               proc[v].pc \in Inside /\ proc'[v].order = proc[v].order,
           \A v \in Procs : proc[v].pc \in Inside => proc[v].order \in Orders,
           \A o \in Orders : status[o] \in Sent => status'[o] \in Sent
    PROVE  ClaimInv'
  BY DEF ClaimInv

(* The invariant holds before the first request. *)
LEMMA InitSafe == Init => SafeInv
BY DEF Init, SafeInv, ReserveInv, ReleaseInv, ProviderInv, ClaimInv, WorkerInv, ReconcilerInv,
       ReturnedIsNotPaid, PaidIsDelivered, ChangedFeeIsNeverSent, Idle, Held, Inside, Returned, Paid, Releases

(* The invariant survives the requests of the players: only VerifyWithdrawal
   reserves, and it makes the receipt and the journal in one transaction. *)
LEMMA ClientSafe ==
    ASSUME IInv, TypeOK', NEW c \in Clients, ClientStep(c)
    PROVE  SafeInv'
<1> USE DEF IInv, SafeInv, TypeOK, requestVars, ledgerVars, providerVars, Procs, At, Job, Go, Stop, Idle
<1>1. ASSUME NEW o \in Orders, RequestWithdrawal(c, o) PROVE SafeInv'
  <2> USE <1>1 DEF RequestWithdrawal, Start
  <2>1. ReserveInv' BY DEF ReserveInv, AuthorizationProven, Posted, Held
  <2>2. ReleaseInv' BY DEF ReleaseInv, Releases
  <2>3. ProviderInv' BY DEF ProviderInv, Sent
  <2>4. ClaimInv' BY DEF ClaimInv, Inside, Sent
  <2>5. WorkerInv' BY DEF WorkerInv
  <2>6. ReconcilerInv' BY DEF ReconcilerInv, Terminal
  <2>7. ReturnedIsNotPaid' BY DEF ReturnedIsNotPaid, Returned, Releases
  <2>8. PaidIsDelivered' BY DEF PaidIsDelivered, Paid, Releases
  <2>9. ChangedFeeIsNeverSent' BY DEF ChangedFeeIsNeverSent
  <2> HIDE DEF RequestWithdrawal, IInv, TypeOK
  <2> QED BY <2>1, <2>2, <2>3, <2>4, <2>5, <2>6, <2>7, <2>8, <2>9
<1>2. ASSUME InsertOrder(c) PROVE SafeInv'
  <2> USE <1>2 DEF InsertOrder, Cas
  <2>1. ReserveInv' BY DEF ReserveInv, AuthorizationProven, Posted, Held
  <2>2. ReleaseInv' BY DEF ReleaseInv, Releases
  <2>3. ProviderInv' BY DEF ProviderInv, Sent
  <2>4. ClaimInv' BY DEF ClaimInv, Inside, Sent
  <2>5. WorkerInv' BY DEF WorkerInv
  <2>6. ReconcilerInv' BY DEF ReconcilerInv, Terminal
  <2>7. ReturnedIsNotPaid' BY DEF ReturnedIsNotPaid, Returned, Releases
  <2>8. PaidIsDelivered' BY DEF PaidIsDelivered, Paid, Releases
  <2>9. ChangedFeeIsNeverSent' BY DEF ChangedFeeIsNeverSent
  <2> HIDE DEF InsertOrder, IInv, TypeOK
  <2> QED BY <2>1, <2>2, <2>3, <2>4, <2>5, <2>6, <2>7, <2>8, <2>9
<1>3. ASSUME InstallChallenge(c) PROVE SafeInv'
  <2> USE <1>3 DEF InstallChallenge, Cas
  <2>1. ReserveInv' BY DEF ReserveInv, AuthorizationProven, Posted, Held
  <2>2. ReleaseInv' BY DEF ReleaseInv, Releases
  <2>3. ProviderInv' BY DEF ProviderInv, Sent
  <2>4. ClaimInv'
    <3>1. CASE Go(c, "mailing") BY <3>1 DEF ClaimInv, Inside, Sent
    <3>2. CASE Stop(c) BY <3>2 DEF ClaimInv, Inside, Sent
    <3> QED BY <3>1, <3>2
  <2>5. WorkerInv'
    <3>1. CASE Go(c, "mailing") BY <3>1 DEF WorkerInv
    <3>2. CASE Stop(c) BY <3>2 DEF WorkerInv
    <3> QED BY <3>1, <3>2
  <2>6. ReconcilerInv'
    <3>1. CASE Go(c, "mailing") BY <3>1 DEF ReconcilerInv, Terminal
    <3>2. CASE Stop(c) BY <3>2 DEF ReconcilerInv, Terminal
    <3> QED BY <3>1, <3>2
  <2>7. ReturnedIsNotPaid' BY DEF ReturnedIsNotPaid, Returned, Releases
  <2>8. PaidIsDelivered' BY DEF PaidIsDelivered, Paid, Releases
  <2>9. ChangedFeeIsNeverSent' BY DEF ChangedFeeIsNeverSent
  <2> HIDE DEF InstallChallenge, IInv, TypeOK
  <2> QED BY <2>1, <2>2, <2>3, <2>4, <2>5, <2>6, <2>7, <2>8, <2>9
<1>4. ASSUME SendCode(c) PROVE SafeInv'
  <2> USE <1>4 DEF SendCode, Cas
  <2>1. ReserveInv' BY DEF ReserveInv, AuthorizationProven, Posted, Held
  <2>2. ReleaseInv' BY DEF ReleaseInv, Releases
  <2>3. ProviderInv' BY DEF ProviderInv, Sent
  <2>4. ClaimInv' BY DEF ClaimInv, Inside, Sent
  <2>5. WorkerInv' BY DEF WorkerInv
  <2>6. ReconcilerInv' BY DEF ReconcilerInv, Terminal
  <2>7. ReturnedIsNotPaid' BY DEF ReturnedIsNotPaid, Returned, Releases
  <2>8. PaidIsDelivered' BY DEF PaidIsDelivered, Paid, Releases
  <2>9. ChangedFeeIsNeverSent' BY DEF ChangedFeeIsNeverSent
  <2> HIDE DEF SendCode, IInv, TypeOK
  <2> QED BY <2>1, <2>2, <2>3, <2>4, <2>5, <2>6, <2>7, <2>8, <2>9
<1>5. ASSUME NEW o \in Orders, NEW k \in Keys, ClaimAttempt(c, o, k) PROVE SafeInv'
  <2> USE <1>5 DEF ClaimAttempt
  <2>1. ReserveInv' BY DEF ReserveInv, AuthorizationProven, Posted, Held
  <2>2. ReleaseInv' BY DEF ReleaseInv, Releases
  <2>3. ProviderInv' BY DEF ProviderInv, Sent
  <2>4. ClaimInv'
    <3>1. CASE UNCHANGED proc BY <3>1 DEF ClaimInv, Inside
    <3>2. CASE proc' = [proc EXCEPT ![c] = [pc |-> "verifying", order |-> o, note |-> k]]
      BY <3>2 DEF ClaimInv, Inside
    <3> QED BY <3>1, <3>2
  <2>5. WorkerInv'
    <3>1. CASE UNCHANGED proc BY <3>1 DEF WorkerInv
    <3>2. CASE proc' = [proc EXCEPT ![c] = [pc |-> "verifying", order |-> o, note |-> k]]
      BY <3>2 DEF WorkerInv
    <3> QED BY <3>1, <3>2
  <2>6. ReconcilerInv' BY DEF ReconcilerInv, Terminal
  <2>7. ReturnedIsNotPaid' BY DEF ReturnedIsNotPaid, Returned, Releases
  <2>8. PaidIsDelivered' BY DEF PaidIsDelivered, Paid, Releases
  <2>9. ChangedFeeIsNeverSent' BY DEF ChangedFeeIsNeverSent
  <2> HIDE DEF ClaimAttempt, IInv, TypeOK
  <2> QED BY <2>1, <2>2, <2>3, <2>4, <2>5, <2>6, <2>7, <2>8, <2>9
<1>6. ASSUME VerifyWithdrawal(c) PROVE SafeInv'
  <2> USE <1>6 DEF VerifyWithdrawal
  <2> DEFINE o == Job(c)
  <2>a. /\ o \in Orders /\ status[o] = "pending_verify" /\ status'[o] \in {"review", "reserved"}
        /\ status' \in [Orders -> Statuses] /\ \A p \in Orders \ {o} : status'[p] = status[p]
        /\ UNCHANGED <<payout, verdict>> /\ Stop(c)
    OBVIOUS
  <2>b. /\ journal \subseteq journal'
        /\ [op |-> "reserve", order |-> o, to |-> "withdrawals"] \in journal'
        /\ \A j \in journal' : j \in journal \/ j.op = "reserve"
    BY PostEffect
  <2>c. receipts \subseteq receipts' /\ \E r \in receipts' : r.order = o
    <3> DEFINE r == [user |-> Owner[o], key |-> proc[c].note, order |-> o]
    <3> HIDE DEF IInv, SafeInv, TypeOK
    <3>1. receipts' = receipts \cup {r}
      OBVIOUS
    <3>2. r.order = o
      OBVIOUS
    <3> HIDE <1>6 DEF VerifyWithdrawal, o, r
    <3> QED BY <3>1, <3>2
  <2>1. ReserveInv'
    <3>1. ReserveInv /\ \A p \in Orders \ {o} : status'[p] = status[p]
      BY <2>a
    <3> HIDE <1>6 DEF VerifyWithdrawal, IInv, SafeInv, TypeOK, o
    <3>2. \A p \in Orders : p = o => AuthorizationProven(p)'
      BY <2>b, <2>c DEF AuthorizationProven, Posted
    <3>3. \A p \in Orders : AuthorizationProven(p) => AuthorizationProven(p)'
      BY <2>b, <2>c DEF AuthorizationProven, Posted
    <3> QED BY <3>1, <3>2, <3>3 DEF ReserveInv
  <2>2. ReleaseInv'
    <3> HIDE DEF VerifyWithdrawal
    <3>1. \A j \in journal : ~Releases(j, o)
      BY <2>a DEF ReleaseInv
    <3> QED BY <3>1, <2>a, <2>b DEF ReleaseInv, Releases
  <2>3. ProviderInv' BY DEF ProviderInv, Sent
  <2>4. ClaimInv'
    <3> HIDE DEF VerifyWithdrawal
    <3> QED BY <2>a DEF ClaimInv, Inside, Sent
  <2>5. WorkerInv' BY DEF WorkerInv
  <2>6. ReconcilerInv' BY DEF ReconcilerInv, Terminal
  <2>7. ReturnedIsNotPaid'
    <3> HIDE DEF VerifyWithdrawal
    <3> QED BY <2>a, <2>b DEF ReturnedIsNotPaid, Returned, Releases
  <2>8. PaidIsDelivered'
    <3> HIDE DEF VerifyWithdrawal
    <3> QED BY <2>a, <2>b DEF PaidIsDelivered, Paid, Releases
  <2>9. ChangedFeeIsNeverSent' BY DEF ChangedFeeIsNeverSent
  <2> HIDE DEF VerifyWithdrawal, IInv, TypeOK
  <2> QED BY <2>1, <2>2, <2>3, <2>4, <2>5, <2>6, <2>7, <2>8, <2>9
<1> HIDE DEF IInv, SafeInv, TypeOK
<1> QED BY <1>1, <1>2, <1>3, <1>4, <1>5, <1>6 DEF ClientStep

(* The invariant survives a submission: the claim lets one worker pass, and
   a refund needs an order that is still submitting and has no payout. *)
LEMMA WorkerSafe ==
    ASSUME IInv, TypeOK', NEW w \in Workers, WorkerStep(w)
    PROVE  SafeInv'
<1> USE DEF IInv, SafeInv, TypeOK, requestVars, ledgerVars, providerVars, Procs, At, Job, Go, Stop, Idle
<1>1. ASSUME NEW o \in Orders, BeginSubmit(w, o) PROVE SafeInv'
  <2> USE <1>1 DEF BeginSubmit, Start
  <2>1. ReserveInv' BY DEF ReserveInv, AuthorizationProven, Posted, Held
  <2>2. ReleaseInv' BY DEF ReleaseInv, Releases
  <2>3. ProviderInv' BY DEF ProviderInv, Sent
  <2>4. ClaimInv' BY DEF ClaimInv, Inside, Sent
  <2>5. WorkerInv' BY DEF WorkerInv
  <2>6. ReconcilerInv' BY DEF ReconcilerInv, Terminal
  <2>7. ReturnedIsNotPaid' BY DEF ReturnedIsNotPaid, Returned, Releases
  <2>8. PaidIsDelivered' BY DEF PaidIsDelivered, Paid, Releases
  <2>9. ChangedFeeIsNeverSent' BY DEF ChangedFeeIsNeverSent
  <2> HIDE DEF BeginSubmit, IInv, TypeOK
  <2> QED BY <2>1, <2>2, <2>3, <2>4, <2>5, <2>6, <2>7, <2>8, <2>9
<1>2. ASSUME NEW why \in {"authorization_not_proven", "fee_changed"}, HoldForReview(w, why) PROVE SafeInv'
  <2> USE <1>2 DEF HoldForReview, Cas
  <2>1. ReserveInv' BY DEF ReserveInv, AuthorizationProven, Posted, Held
  <2>2. ReleaseInv' BY DEF ReleaseInv, Releases
  <2>3. ProviderInv' BY DEF ProviderInv, Sent
  <2>4. ClaimInv' BY DEF ClaimInv, Inside, Sent
  <2>5. WorkerInv' BY DEF WorkerInv
  <2>6. ReconcilerInv' BY DEF ReconcilerInv, Terminal
  <2>7. ReturnedIsNotPaid' BY DEF ReturnedIsNotPaid, Returned, Releases
  <2>8. PaidIsDelivered' BY DEF PaidIsDelivered, Paid, Releases
  <2>9. ChangedFeeIsNeverSent' BY DEF ChangedFeeIsNeverSent, ProviderInv, Sent
  <2> HIDE DEF HoldForReview, IInv, TypeOK
  <2> QED BY <2>1, <2>2, <2>3, <2>4, <2>5, <2>6, <2>7, <2>8, <2>9
<1>3. ASSUME ClaimOrder(w) PROVE SafeInv'
  <2> USE <1>3 DEF ClaimOrder, Cas
  <2>1. ReserveInv' BY DEF ReserveInv, AuthorizationProven, Posted, Held
  <2>2. ReleaseInv' BY DEF ReleaseInv, Releases
  <2>3. ProviderInv' BY DEF ProviderInv, Sent
  <2>4. ClaimInv'
    <3>1. CASE status[Job(w)] = "reserved" /\ ReserveCovered(Job(w))
      <4>1. \A v \in Procs : proc[v].pc \in Inside => proc[v].order # Job(w)
        BY <3>1 DEF ClaimInv, Sent
      <4>2. /\ status' = [status EXCEPT ![Job(w)] = "submitting"]
            /\ proc' = [proc EXCEPT ![w].pc = "claimed"]
        BY <3>1
      <4> HIDE DEF ClaimOrder
      <4> QED BY <3>1, <4>1, <4>2 DEF ClaimInv, Inside, Sent
    <3>2. CASE UNCHANGED status /\ Stop(w)
      BY <3>2 DEF ClaimInv, Inside
    <3> QED BY <3>1, <3>2
  <2>5. WorkerInv'
    <3>1. CASE status[Job(w)] = "reserved" /\ ReserveCovered(Job(w))
      BY <3>1 DEF WorkerInv, ClaimInv, ProviderInv, Inside, Sent
    <3>2. CASE UNCHANGED status /\ Stop(w)
      BY <3>2 DEF WorkerInv
    <3> QED BY <3>1, <3>2
  <2>6. ReconcilerInv' BY DEF ReconcilerInv, Terminal
  <2>7. ReturnedIsNotPaid' BY DEF ReturnedIsNotPaid, Returned, Releases
  <2>8. PaidIsDelivered' BY DEF PaidIsDelivered, Paid, Releases
  <2>9. ChangedFeeIsNeverSent' BY DEF ChangedFeeIsNeverSent
  <2> HIDE DEF ClaimOrder, IInv, TypeOK
  <2> QED BY <2>1, <2>2, <2>3, <2>4, <2>5, <2>6, <2>7, <2>8, <2>9
<1>4. ASSUME CreatePayout(w) PROVE SafeInv'
  <2> USE <1>4 DEF CreatePayout
  <2>1. ReserveInv' BY DEF ReserveInv, AuthorizationProven, Posted, Held
  <2>2. ReleaseInv' BY DEF ReleaseInv, Releases
  <2>3. ProviderInv' BY DEF ProviderInv, WorkerInv, Sent
  <2>4. ClaimInv' BY DEF ClaimInv, Inside, Sent
  <2>5. WorkerInv' BY DEF WorkerInv, ClaimInv, Inside
  <2>6. ReconcilerInv' BY DEF ReconcilerInv, Terminal
  <2>7. ReturnedIsNotPaid' BY DEF WorkerInv, ReleaseInv, ReturnedIsNotPaid, Returned
  <2>8. PaidIsDelivered' BY DEF PaidIsDelivered, Paid, Releases
  <2>9. ChangedFeeIsNeverSent' BY DEF ChangedFeeIsNeverSent, WorkerInv
  <2> HIDE DEF CreatePayout, IInv, TypeOK
  <2> QED BY <2>1, <2>2, <2>3, <2>4, <2>5, <2>6, <2>7, <2>8, <2>9
<1>5. ASSUME ReceiveReply(w) PROVE SafeInv'
  <2> USE <1>5 DEF ReceiveReply
  <2>1. ReserveInv' BY DEF ReserveInv, AuthorizationProven, Posted, Held
  <2>2. ReleaseInv' BY DEF ReleaseInv, Releases
  <2>3. ProviderInv' BY DEF ProviderInv, Sent
  <2>4. ClaimInv' BY DEF ClaimInv, Inside, Sent
  <2>5. WorkerInv'
    <3>1. CASE verdict[Job(w)] = "created" /\ Go(w, "accepted") BY <3>1 DEF WorkerInv
    <3>2. CASE verdict[Job(w)] = "refused" /\ Go(w, "refused") BY <3>2 DEF WorkerInv
    <3>3. CASE Go(w, "unresolved") BY <3>3 DEF WorkerInv
    <3> QED BY <3>1, <3>2, <3>3
  <2>6. ReconcilerInv' BY DEF ReconcilerInv, Terminal
  <2>7. ReturnedIsNotPaid' BY DEF ReturnedIsNotPaid, Returned, Releases
  <2>8. PaidIsDelivered' BY DEF PaidIsDelivered, Paid, Releases
  <2>9. ChangedFeeIsNeverSent' BY DEF ChangedFeeIsNeverSent
  <2> HIDE DEF ReceiveReply, IInv, TypeOK
  <2> QED BY <2>1, <2>2, <2>3, <2>4, <2>5, <2>6, <2>7, <2>8, <2>9
<1>6. ASSUME PersistIds(w) PROVE SafeInv'
  <2> USE <1>6 DEF PersistIds, Cas
  <2>1. ReserveInv' BY DEF ReserveInv, AuthorizationProven, Posted, Held
  <2>a. journal' = journal /\ \A o \in Orders : status[o] \in {"confirmed", "rejected"} => status'[o] = status[o]
    OBVIOUS
  <2>2. ReleaseInv'
    <3> HIDE <1>6 DEF PersistIds, Cas
    <3> QED BY <2>a DEF ReleaseInv, Releases
  <2>3. ProviderInv' BY DEF ProviderInv, WorkerInv, Sent
  <2>4. ClaimInv'
    <3>1. /\ \A v \in Procs : proc'[v].pc \in Inside => proc[v].pc \in Inside
          /\ \A v \in Procs : proc'[v].order = proc[v].order
      BY DEF Inside
    <3>2. \A o \in Orders : status[o] \in Sent => status'[o] \in Sent
      BY DEF Sent
    <3>3. \A v \in Procs : proc[v].pc \in Inside => proc[v].order \in Orders
      BY DEF Inside
    <3> HIDE <1>6 DEF PersistIds, Cas, IInv, SafeInv, TypeOK
    <3>4. ClaimInv
      BY DEF IInv, SafeInv
    <3> QED BY <3>1, <3>2, <3>3, <3>4 DEF ClaimInv
  <2>5. WorkerInv' BY DEF WorkerInv
  <2>6. ReconcilerInv' BY DEF ReconcilerInv, Terminal
  <2>7. ReturnedIsNotPaid' BY DEF ReturnedIsNotPaid, Returned, Releases
  <2>8. PaidIsDelivered' BY DEF PaidIsDelivered, Paid, Releases
  <2>9. ChangedFeeIsNeverSent' BY DEF ChangedFeeIsNeverSent
  <2> HIDE DEF PersistIds, IInv, TypeOK
  <2> QED BY <2>1, <2>2, <2>3, <2>4, <2>5, <2>6, <2>7, <2>8, <2>9
<1>7. ASSUME VerifyPayout(w) PROVE SafeInv'
  <2> USE <1>7 DEF VerifyPayout, Authenticate
  <2>1. ReserveInv' BY DEF ReserveInv, AuthorizationProven, Posted, Held
  <2>2. ReleaseInv' BY DEF ReleaseInv, Releases
  <2>3. ProviderInv' BY DEF ProviderInv, Sent
  <2>4. ClaimInv'
    <3>1. /\ \A v \in Procs : proc'[v].pc \in Inside => proc[v].pc \in Inside
          /\ \A v \in Procs : proc'[v].order = proc[v].order
      BY DEF Inside
    <3>2. \A o \in Orders : status[o] \in Sent => status'[o] \in Sent
      BY DEF Sent
    <3>3. \A v \in Procs : proc[v].pc \in Inside => proc[v].order \in Orders
      BY DEF Inside
    <3> HIDE <1>7 DEF VerifyPayout, Authenticate, IInv, SafeInv, TypeOK
    <3>4. ClaimInv
      BY DEF IInv, SafeInv
    <3> QED BY <3>1, <3>2, <3>3, <3>4 DEF ClaimInv
  <2>5. WorkerInv'
    <3>1. ASSUME NEW at \in {"verified", "refused", "unresolved"}, Go(w, at) PROVE WorkerInv'
      BY <3>1 DEF WorkerInv
    <3> QED BY <3>1
  <2>6. ReconcilerInv' BY DEF ReconcilerInv, Terminal
  <2>7. ReturnedIsNotPaid' BY DEF ReturnedIsNotPaid, Returned, Releases
  <2>8. PaidIsDelivered' BY DEF PaidIsDelivered, Paid, Releases
  <2>9. ChangedFeeIsNeverSent' BY DEF ChangedFeeIsNeverSent
  <2> HIDE DEF VerifyPayout, IInv, TypeOK
  <2> QED BY <2>1, <2>2, <2>3, <2>4, <2>5, <2>6, <2>7, <2>8, <2>9
<1>8. ASSUME MarkProcessing(w) PROVE SafeInv'
  <2> USE <1>8 DEF MarkProcessing, Cas
  <2>1. ReserveInv' BY DEF ReserveInv, AuthorizationProven, Posted, Held
  <2>2. ReleaseInv' BY DEF ReleaseInv, Releases
  <2>3. ProviderInv' BY DEF ProviderInv, Sent
  <2>4. ClaimInv' BY DEF ClaimInv, Inside, Sent
  <2>5. WorkerInv' BY DEF WorkerInv
  <2>6. ReconcilerInv' BY DEF ReconcilerInv, Terminal
  <2>7. ReturnedIsNotPaid' BY DEF ReturnedIsNotPaid, Returned, Releases
  <2>8. PaidIsDelivered' BY DEF PaidIsDelivered, Paid, Releases
  <2>9. ChangedFeeIsNeverSent' BY DEF ChangedFeeIsNeverSent
  <2> HIDE DEF MarkProcessing, IInv, TypeOK
  <2> QED BY <2>1, <2>2, <2>3, <2>4, <2>5, <2>6, <2>7, <2>8, <2>9
<1>9. ASSUME RefundRefused(w) PROVE SafeInv'
  <2> USE <1>9 DEF RefundRefused, Cas
  <2> DEFINE o == Job(w)
  <2>a. o \in Orders
    OBVIOUS
  <2>b. ReserveInv' /\ ReleaseInv' /\ ReturnedIsNotPaid' /\ PaidIsDelivered'
    <3>1. CASE Refundable(o)
      <4>1. status[o] = "submitting" /\ verdict[o] = "refused"
        BY <3>1 DEF Refundable, WorkerInv
      <4>2. payout[o] = "none"
        BY <4>1, <2>a DEF ProviderInv
      <4>3. Post("provider-reject", o, "available") /\ Cas(o, {"submitting"}, "rejected")
        BY <3>1
      <4>4. UNCHANGED <<receipts, payout, verdict>>
        OBVIOUS
      <4> HIDE DEF RefundRefused, IInv, o
      <4> QED BY <2>a, <4>1, <4>2, <4>3, <4>4, ReleaseKeepsSafe DEF Cas, Held
    <3>2. CASE ~Refundable(o)
      <4>1. UNCHANGED <<journal, status, receipts, payout, verdict>>
        BY <3>2
      <4> HIDE DEF RefundRefused
      <4> QED BY <4>1 DEF ReserveInv, ReleaseInv, ReturnedIsNotPaid, PaidIsDelivered,
                          AuthorizationProven, Posted, Held, Returned, Paid, Releases
    <3> QED BY <3>1, <3>2
  <2>1. ProviderInv' BY DEF ProviderInv, Sent
  <2>2. ClaimInv'
    <3>1. UNCHANGED status \/ status' = [status EXCEPT ![Job(w)] = IF @ \in {"submitting"} THEN "rejected" ELSE @]
      OBVIOUS
    <3>2. ClaimInv /\ proc[w].pc = "refused" /\ status \in [Orders -> Statuses]
      OBVIOUS
    <3>a. \A v \in Procs : proc[v].pc \in Inside => proc[v].order \in Orders
      BY DEF Inside
    <3>3. Stop(w) \/ Go(w, "unresolved")
      OBVIOUS
    <3>4. proc \in [Procs -> [pc : Places, order : Orders \cup {None}, note : Notes]]
      OBVIOUS
    <3> HIDE <1>9 DEF RefundRefused, IInv, SafeInv, TypeOK
    <3>5. \A v \in Procs : proc'[v].pc \in Inside =>
             proc[v].pc \in Inside /\ proc'[v].order = proc[v].order
      <4>1. CASE Stop(w) BY <3>4, <4>1 DEF Inside
      <4>2. CASE Go(w, "unresolved") BY <3>2, <3>4, <4>2 DEF Inside
      <4> QED BY <3>3, <4>1, <4>2
    <3>6. \A p \in Orders : status[p] \in Sent => status'[p] \in Sent
      BY <3>1, <3>2 DEF Sent
    <3> QED BY <3>2, <3>5, <3>6, <3>a, ClaimStays
  <2>3. WorkerInv' BY DEF WorkerInv
  <2>4. ReconcilerInv' BY DEF ReconcilerInv, Terminal
  <2>5. ChangedFeeIsNeverSent' BY DEF ChangedFeeIsNeverSent
  <2> HIDE DEF RefundRefused, IInv, TypeOK
  <2> QED BY <2>b, <2>1, <2>2, <2>3, <2>4, <2>5
<1>10. ASSUME MarkUncertain(w) PROVE SafeInv'
  <2> USE <1>10 DEF MarkUncertain, Cas
  <2>1. ReserveInv' BY DEF ReserveInv, AuthorizationProven, Posted, Held
  <2>2. ReleaseInv' BY DEF ReleaseInv, Releases
  <2>3. ProviderInv' BY DEF ProviderInv, Sent
  <2>4. ClaimInv' BY DEF ClaimInv, Inside, Sent
  <2>5. WorkerInv' BY DEF WorkerInv
  <2>6. ReconcilerInv' BY DEF ReconcilerInv, Terminal
  <2>7. ReturnedIsNotPaid' BY DEF ReturnedIsNotPaid, Returned, Releases
  <2>8. PaidIsDelivered' BY DEF PaidIsDelivered, Paid, Releases
  <2>9. ChangedFeeIsNeverSent' BY DEF ChangedFeeIsNeverSent
  <2> HIDE DEF MarkUncertain, IInv, TypeOK
  <2> QED BY <2>1, <2>2, <2>3, <2>4, <2>5, <2>6, <2>7, <2>8, <2>9
<1> HIDE DEF IInv, SafeInv, TypeOK
<1> QED BY <1>1, <1>2, <1>3, <1>4, <1>5, <1>6, <1>7, <1>8, <1>9, <1>10 DEF WorkerStep

(* The invariant survives a reconciliation: the status a reconciler read is
   final, however old it is, and it is the status of the own payout. *)
LEMMA ReconcilerSafe ==
    ASSUME IInv, TypeOK', NEW r \in Reconcilers, ReconcilerStep(r)
    PROVE  SafeInv'
<1> USE DEF IInv, SafeInv, TypeOK, requestVars, ledgerVars, providerVars, Procs, At, Job, Go, Stop, Idle
<1>1. ASSUME NEW o \in Orders, BeginReconcile(r, o) PROVE SafeInv'
  <2> USE <1>1 DEF BeginReconcile
  <2>1. ReserveInv' BY DEF ReserveInv, AuthorizationProven, Posted, Held
  <2>2. ReleaseInv' BY DEF ReleaseInv, Releases
  <2>3. ProviderInv' BY DEF ProviderInv, Sent
  <2>4. ClaimInv' BY DEF ClaimInv, Inside, Sent
  <2>5. WorkerInv' BY DEF WorkerInv
  <2>6. ReconcilerInv' BY DEF ReconcilerInv, ProviderInv
  <2>7. ReturnedIsNotPaid' BY DEF ReturnedIsNotPaid, Returned, Releases
  <2>8. PaidIsDelivered' BY DEF PaidIsDelivered, Paid, Releases
  <2>9. ChangedFeeIsNeverSent' BY DEF ChangedFeeIsNeverSent
  <2> HIDE DEF BeginReconcile, IInv, TypeOK
  <2> QED BY <2>1, <2>2, <2>3, <2>4, <2>5, <2>6, <2>7, <2>8, <2>9
<1>2. ASSUME QueryPayout(r) PROVE SafeInv'
  <2> USE <1>2 DEF QueryPayout
  <2>1. ReserveInv' BY DEF ReserveInv, AuthorizationProven, Posted, Held
  <2>2. ReleaseInv' BY DEF ReleaseInv, Releases
  <2>3. ProviderInv' BY DEF ProviderInv, Sent
  <2>4. ClaimInv'
    <3>1. CASE Go(r, "reverifying") BY <3>1 DEF ClaimInv, Inside
    <3>2. ASSUME NEW found \in Terminal, proc' = [proc EXCEPT ![r].pc = "settling", ![r].note = found]
          PROVE ClaimInv'
      BY <3>2 DEF ClaimInv, Inside
    <3>3. CASE Stop(r) BY <3>3 DEF ClaimInv, Inside
    <3> QED BY <3>1, <3>2, <3>3
  <2>5. WorkerInv'
    <3>1. CASE Go(r, "reverifying") BY <3>1 DEF WorkerInv
    <3>2. ASSUME NEW found \in Terminal, proc' = [proc EXCEPT ![r].pc = "settling", ![r].note = found]
          PROVE WorkerInv'
      BY <3>2 DEF WorkerInv
    <3>3. CASE Stop(r) BY <3>3 DEF WorkerInv
    <3> QED BY <3>1, <3>2, <3>3
  <2>6. ReconcilerInv' BY DEF ReconcilerInv, Terminal
  <2>7. ReturnedIsNotPaid' BY DEF ReturnedIsNotPaid, Returned, Releases
  <2>8. PaidIsDelivered' BY DEF PaidIsDelivered, Paid, Releases
  <2>9. ChangedFeeIsNeverSent' BY DEF ChangedFeeIsNeverSent
  <2> HIDE DEF QueryPayout, IInv, TypeOK
  <2> QED BY <2>1, <2>2, <2>3, <2>4, <2>5, <2>6, <2>7, <2>8, <2>9
<1>3. ASSUME RepeatVerification(r) PROVE SafeInv'
  <2> USE <1>3 DEF RepeatVerification, Authenticate
  <2>1. ReserveInv' BY DEF ReserveInv, AuthorizationProven, Posted, Held
  <2>2. ReleaseInv' BY DEF ReleaseInv, Releases
  <2>3. ProviderInv' BY DEF ProviderInv, Sent
  <2>4. ClaimInv' BY DEF ClaimInv, Inside, Sent
  <2>5. WorkerInv' BY DEF WorkerInv
  <2>6. ReconcilerInv' BY DEF ReconcilerInv, Terminal
  <2>7. ReturnedIsNotPaid' BY DEF ReturnedIsNotPaid, Returned, Releases
  <2>8. PaidIsDelivered' BY DEF PaidIsDelivered, Paid, Releases
  <2>9. ChangedFeeIsNeverSent' BY DEF ChangedFeeIsNeverSent
  <2> HIDE DEF RepeatVerification, IInv, TypeOK
  <2> QED BY <2>1, <2>2, <2>3, <2>4, <2>5, <2>6, <2>7, <2>8, <2>9
<1>4. ASSUME SettlePayout(r) PROVE SafeInv'
  <2> USE <1>4 DEF SettlePayout, Cas
  <2> DEFINE o == Job(r)
             paid == proc[r].note = "finished"
  <2>a. o \in Orders /\ proc[r].note \in Terminal /\ payout[o] = proc[r].note /\ verdict[o] = "created"
    BY WithdrawalAssumption DEF ReconcilerInv, ProviderInv
  <2>b. ReserveInv' /\ ReleaseInv' /\ ReturnedIsNotPaid' /\ PaidIsDelivered'
    <3>1. CASE status[o] \in Settleable
      <4>1. /\ Post("settle", o, IF paid THEN "external" ELSE "available")
            /\ Cas(o, Settleable, IF paid THEN "confirmed" ELSE "rejected")
        BY <3>1
      <4>2. UNCHANGED <<receipts, payout, verdict>>
        OBVIOUS
      <4>3. status[o] \in Held /\ status'[o] \in {"confirmed", "rejected"}
            /\ \A p \in Orders \ {o} : status'[p] = status[p]
        BY <2>a, <3>1, <4>1 DEF Held, Settleable
      <4> HIDE DEF SettlePayout, IInv, o
      <4>4. CASE paid
        BY <2>a, <4>1, <4>2, <4>3, <4>4, ReleaseKeepsSafe
      <4>5. CASE ~paid
        <5>1. payout[o] = "rejected"
          BY <2>a, <4>5 DEF Terminal
        <5> QED BY <2>a, <4>1, <4>2, <4>3, <4>5, <5>1, ReleaseKeepsSafe
      <4> QED BY <4>4, <4>5
    <3>2. CASE status[o] \notin Settleable
      <4>1. UNCHANGED <<journal, status, receipts, payout, verdict>>
        BY <3>2
      <4> HIDE DEF SettlePayout
      <4> QED BY <4>1 DEF ReserveInv, ReleaseInv, ReturnedIsNotPaid, PaidIsDelivered,
                          AuthorizationProven, Posted, Held, Returned, Paid, Releases
    <3> QED BY <3>1, <3>2
  <2>1. ProviderInv' BY DEF ProviderInv, Sent
  <2>2. ClaimInv'
    <3>1. /\ status \in [Orders -> Statuses]
          /\ \/ UNCHANGED status
             \/ \E to \in Sent : status' = [status EXCEPT ![Job(r)] = IF @ \in Settleable THEN to ELSE @]
      BY DEF Sent
    <3>2. ClaimInv /\ Stop(r)
      OBVIOUS
    <3>a. \A v \in Procs : proc[v].pc \in Inside => proc[v].order \in Orders
      BY DEF Inside
    <3>3. proc \in [Procs -> [pc : Places, order : Orders \cup {None}, note : Notes]]
      OBVIOUS
    <3> HIDE DEF SettlePayout, IInv, SafeInv, TypeOK
    <3>4. \A v \in Procs : proc'[v].pc \in Inside =>
             proc[v].pc \in Inside /\ proc'[v].order = proc[v].order
      BY <3>2, <3>3 DEF Inside
    <3>5. \A p \in Orders : status[p] \in Sent => status'[p] \in Sent
      BY <3>1
    <3> QED BY <3>2, <3>4, <3>5, <3>a, ClaimStays
  <2>3. WorkerInv'
    <3>1. status[o] # "submitting" => status'[o] # "submitting"
      BY <2>a DEF Settleable
    <3>2. status'[o] = status[o] \/ verdict[o] = "created"
      BY <2>a
    <3>3. status' \in [Orders -> Statuses] /\ \A p \in Orders \ {o} : status'[p] = status[p]
      BY <2>a
    <3>4. Stop(r) /\ UNCHANGED verdict
      OBVIOUS
    <3> HIDE DEF SettlePayout, o
    <3> QED BY <2>a, <3>1, <3>2, <3>3, <3>4 DEF WorkerInv
  <2>4. ReconcilerInv' BY DEF ReconcilerInv, Terminal
  <2>5. ChangedFeeIsNeverSent' BY <2>a DEF ChangedFeeIsNeverSent
  <2> HIDE DEF SettlePayout, IInv, TypeOK
  <2> QED BY <2>b, <2>1, <2>2, <2>3, <2>4, <2>5
<1> HIDE DEF IInv, SafeInv, TypeOK
<1> QED BY <1>1, <1>2, <1>3, <1>4 DEF ReconcilerStep

(* The invariant survives the tick: a payout is bound to an order only when
   it is the payout created for that order. *)
LEMMA TickSafe ==
    ASSUME IInv, TypeOK', TickStep
    PROVE  SafeInv'
<1> USE DEF IInv, SafeInv, TypeOK, requestVars, ledgerVars, providerVars, Procs, At, Job, Go, Stop, Idle
<1>1. ASSUME NEW o \in Orders, ExpireVerification(o) PROVE SafeInv'
  <2> USE <1>1 DEF ExpireVerification, Cas
  <2>1. ReserveInv' BY DEF ReserveInv, AuthorizationProven, Posted, Held
  <2>2. ReleaseInv' BY DEF ReleaseInv, Releases
  <2>3. ProviderInv' BY DEF ProviderInv, Sent
  <2>4. ClaimInv' BY DEF ClaimInv, Inside, Sent
  <2>5. WorkerInv' BY DEF WorkerInv
  <2>6. ReconcilerInv' BY DEF ReconcilerInv, Terminal
  <2>7. ReturnedIsNotPaid' BY DEF ReturnedIsNotPaid, Returned, Releases
  <2>8. PaidIsDelivered' BY DEF PaidIsDelivered, Paid, Releases
  <2>9. ChangedFeeIsNeverSent' BY DEF ChangedFeeIsNeverSent
  <2> HIDE DEF ExpireVerification, IInv, TypeOK
  <2> QED BY <2>1, <2>2, <2>3, <2>4, <2>5, <2>6, <2>7, <2>8, <2>9
<1>2. ASSUME NEW o \in Orders, SubmissionTimedOut(o) PROVE SafeInv'
  <2> USE <1>2 DEF SubmissionTimedOut, Cas
  <2>1. ReserveInv' BY DEF ReserveInv, AuthorizationProven, Posted, Held
  <2>2. ReleaseInv' BY DEF ReleaseInv, Releases
  <2>3. ProviderInv' BY DEF ProviderInv, Sent
  <2>4. ClaimInv' BY DEF ClaimInv, Inside, Sent
  <2>5. WorkerInv' BY DEF WorkerInv
  <2>6. ReconcilerInv' BY DEF ReconcilerInv, Terminal
  <2>7. ReturnedIsNotPaid' BY DEF ReturnedIsNotPaid, Returned, Releases
  <2>8. PaidIsDelivered' BY DEF PaidIsDelivered, Paid, Releases
  <2>9. ChangedFeeIsNeverSent' BY DEF ChangedFeeIsNeverSent
  <2> HIDE DEF SubmissionTimedOut, IInv, TypeOK
  <2> QED BY <2>1, <2>2, <2>3, <2>4, <2>5, <2>6, <2>7, <2>8, <2>9
<1>3. ASSUME NEW r \in proposals, ResolveUncertain(r) PROVE SafeInv'
  <2> USE <1>3 DEF ResolveUncertain
  <2>a. /\ providerId' \in [Orders -> Orders \cup {None}]
        /\ \A o \in Orders :
             \/ providerId'[o] = providerId[o]
             \/ providerId[o] = None /\ providerId'[o] = o /\ payout[o] # "none"
    <3>1. r.order \in Orders /\ r.provider \in Orders
      OBVIOUS
    <3>2. CASE /\ providerId[r.order] = None /\ payout[r.provider] # "none" /\ r.provider = r.order
               /\ providerId' = [providerId EXCEPT ![r.order] = r.provider]
      BY <3>1, <3>2
    <3>3. CASE UNCHANGED providerId
      BY <3>3
    <3> QED BY <3>2, <3>3 DEF IdentityMatches
  <2>1. ReserveInv' BY DEF ReserveInv, AuthorizationProven, Posted, Held
  <2>2. ReleaseInv' BY DEF ReleaseInv, Releases
  <2>3. ProviderInv' BY <2>a DEF ProviderInv, Sent
  <2>4. ClaimInv' BY DEF ClaimInv, Inside, Sent
  <2>5. WorkerInv' BY DEF WorkerInv
  <2>6. ReconcilerInv'
    <3> HIDE DEF ResolveUncertain
    <3>1. UNCHANGED <<proc, payout>> BY DEF ResolveUncertain
    <3> QED BY <2>a, <3>1, WithdrawalAssumption DEF ReconcilerInv, Terminal
  <2>7. ReturnedIsNotPaid' BY DEF ReturnedIsNotPaid, Returned, Releases
  <2>8. PaidIsDelivered' BY DEF PaidIsDelivered, Paid, Releases
  <2>9. ChangedFeeIsNeverSent' BY DEF ChangedFeeIsNeverSent
  <2> HIDE DEF ResolveUncertain, IInv, TypeOK
  <2> QED BY <2>1, <2>2, <2>3, <2>4, <2>5, <2>6, <2>7, <2>8, <2>9
<1> HIDE DEF IInv, SafeInv, TypeOK
<1> QED BY <1>1, <1>2, <1>3 DEF TickStep

(* The invariant survives the decisions of the administrators: what they
   send again or close was never claimed. *)
LEMMA AdminSafe ==
    ASSUME IInv, TypeOK', AdminStep
    PROVE  SafeInv'
<1> USE DEF IInv, SafeInv, TypeOK, requestVars, ledgerVars, providerVars, Procs, At, Job, Go, Stop, Idle
<1>1. ASSUME NEW o \in Orders, Approve(o) PROVE SafeInv'
  <2> USE <1>1 DEF Approve
  <2>1. ReserveInv' BY DEF ReserveInv, AuthorizationProven, Posted, Held
  <2>2. ReleaseInv' BY DEF ReleaseInv, Releases
  <2>3. ProviderInv' BY DEF ProviderInv, Sent
  <2>4. ClaimInv' BY DEF ClaimInv, Inside, Sent
  <2>5. WorkerInv' BY DEF WorkerInv
  <2>6. ReconcilerInv' BY DEF ReconcilerInv, Terminal
  <2>7. ReturnedIsNotPaid' BY DEF ReturnedIsNotPaid, Returned, Releases
  <2>8. PaidIsDelivered' BY DEF PaidIsDelivered, Paid, Releases
  <2>9. ChangedFeeIsNeverSent' BY DEF ChangedFeeIsNeverSent
  <2> HIDE DEF Approve, IInv, TypeOK
  <2> QED BY <2>1, <2>2, <2>3, <2>4, <2>5, <2>6, <2>7, <2>8, <2>9
<1>2. ASSUME NEW o \in Orders, Reject(o) PROVE SafeInv'
  <2> USE <1>2 DEF Reject
  <2>b. ReserveInv' /\ ReleaseInv' /\ ReturnedIsNotPaid' /\ PaidIsDelivered'
    <3>1. verdict[o] = "none" /\ payout[o] = "none"
      BY DEF ProviderInv, Sent
    <3>2. /\ Post("reject", o, "available") /\ UNCHANGED <<receipts, payout, verdict>>
          /\ status[o] \in Held /\ status'[o] \in {"confirmed", "rejected"}
          /\ \A p \in Orders \ {o} : status'[p] = status[p]
      BY DEF Held
    <3> HIDE DEF Reject, IInv
    <3> QED BY <3>1, <3>2, ReleaseKeepsSafe
  <2>1. ProviderInv' BY DEF ProviderInv, Sent
  <2>2. ClaimInv' BY DEF ClaimInv, Inside, Sent
  <2>3. WorkerInv' BY DEF WorkerInv
  <2>4. ReconcilerInv' BY DEF ReconcilerInv, Terminal
  <2>5. ChangedFeeIsNeverSent' BY DEF ChangedFeeIsNeverSent
  <2> HIDE DEF Reject, IInv, TypeOK
  <2> QED BY <2>b, <2>1, <2>2, <2>3, <2>4, <2>5
<1>3. ASSUME NEW o \in Orders, NEW p \in Orders, ProposeProviderId(o, p) PROVE SafeInv'
  <2> USE <1>3 DEF ProposeProviderId
  <2>1. ReserveInv' BY DEF ReserveInv, AuthorizationProven, Posted, Held
  <2>2. ReleaseInv' BY DEF ReleaseInv, Releases
  <2>3. ProviderInv' BY DEF ProviderInv, Sent
  <2>4. ClaimInv' BY DEF ClaimInv, Inside, Sent
  <2>5. WorkerInv' BY DEF WorkerInv
  <2>6. ReconcilerInv' BY DEF ReconcilerInv, Terminal
  <2>7. ReturnedIsNotPaid' BY DEF ReturnedIsNotPaid, Returned, Releases
  <2>8. PaidIsDelivered' BY DEF PaidIsDelivered, Paid, Releases
  <2>9. ChangedFeeIsNeverSent' BY DEF ChangedFeeIsNeverSent
  <2> HIDE DEF ProposeProviderId, IInv, TypeOK
  <2> QED BY <2>1, <2>2, <2>3, <2>4, <2>5, <2>6, <2>7, <2>8, <2>9
<1> HIDE DEF IInv, SafeInv, TypeOK
<1> QED BY <1>1, <1>2, <1>3 DEF AdminStep

(* The invariant survives crashes, passing time and what the provider does. *)
LEMMA EnvironmentSafe ==
    ASSUME IInv, TypeOK', EnvironmentStep
    PROVE  SafeInv'
<1> USE DEF IInv, SafeInv, TypeOK, requestVars, ledgerVars, providerVars, Procs, At, Job, Go, Stop, Idle
<1>1. ASSUME NEW p \in Procs, Abandon(p) PROVE SafeInv'
  <2> USE <1>1 DEF Abandon
  <2>1. ReserveInv' BY DEF ReserveInv, AuthorizationProven, Posted, Held
  <2>2. ReleaseInv' BY DEF ReleaseInv, Releases
  <2>3. ProviderInv' BY DEF ProviderInv, Sent
  <2>4. ClaimInv' BY DEF ClaimInv, Inside, Sent
  <2>5. WorkerInv' BY DEF WorkerInv
  <2>6. ReconcilerInv' BY DEF ReconcilerInv, Terminal
  <2>7. ReturnedIsNotPaid' BY DEF ReturnedIsNotPaid, Returned, Releases
  <2>8. PaidIsDelivered' BY DEF PaidIsDelivered, Paid, Releases
  <2>9. ChangedFeeIsNeverSent' BY DEF ChangedFeeIsNeverSent
  <2> HIDE DEF Abandon, IInv, TypeOK
  <2> QED BY <2>1, <2>2, <2>3, <2>4, <2>5, <2>6, <2>7, <2>8, <2>9
<1>2. ASSUME NEW o \in Orders, ChallengeLapses(o) PROVE SafeInv'
  <2> USE <1>2 DEF ChallengeLapses
  <2>1. ReserveInv' BY DEF ReserveInv, AuthorizationProven, Posted, Held
  <2>2. ReleaseInv' BY DEF ReleaseInv, Releases
  <2>3. ProviderInv' BY DEF ProviderInv, Sent
  <2>4. ClaimInv' BY DEF ClaimInv, Inside, Sent
  <2>5. WorkerInv' BY DEF WorkerInv
  <2>6. ReconcilerInv' BY DEF ReconcilerInv, Terminal
  <2>7. ReturnedIsNotPaid' BY DEF ReturnedIsNotPaid, Returned, Releases
  <2>8. PaidIsDelivered' BY DEF PaidIsDelivered, Paid, Releases
  <2>9. ChangedFeeIsNeverSent' BY DEF ChangedFeeIsNeverSent
  <2> HIDE DEF ChallengeLapses, IInv, TypeOK
  <2> QED BY <2>1, <2>2, <2>3, <2>4, <2>5, <2>6, <2>7, <2>8, <2>9
<1>3. ASSUME NEW o \in Orders, ProviderAnswers(o) PROVE SafeInv'
  <2> USE <1>3 DEF ProviderAnswers
  <2>a. \A p \in Orders : p # o => verdict'[p] = verdict[p] /\ payout'[p] = payout[p]
    OBVIOUS
  <2>1. ReserveInv' BY DEF ReserveInv, AuthorizationProven, Posted, Held
  <2>2. ReleaseInv' BY DEF ReleaseInv, Releases
  <2>3. ProviderInv' BY DEF ProviderInv, Sent
  <2>4. ClaimInv' BY DEF ClaimInv, Inside, Sent
  <2>5. WorkerInv' BY DEF WorkerInv
  <2>6. ReconcilerInv'
    <3>1. \A r \in Procs : proc[r].pc = "settling" => proc[r].order # o
      BY WithdrawalAssumption DEF ReconcilerInv, ProviderInv
    <3> QED BY <2>a, <3>1 DEF ReconcilerInv
  <2>7. ReturnedIsNotPaid'
    <3>1. ~Returned(o)
      BY DEF ReturnedIsNotPaid
    <3> QED BY <2>a, <3>1 DEF ReturnedIsNotPaid, Returned, Releases
  <2>8. PaidIsDelivered'
    <3>1. ~Paid(o)
      BY DEF PaidIsDelivered, ProviderInv
    <3> QED BY <2>a, <3>1 DEF PaidIsDelivered, Paid, Releases
  <2>9. ChangedFeeIsNeverSent' BY DEF ChangedFeeIsNeverSent
  <2> HIDE DEF ProviderAnswers, IInv, TypeOK
  <2> QED BY <2>1, <2>2, <2>3, <2>4, <2>5, <2>6, <2>7, <2>8, <2>9
<1>4. ASSUME NEW o \in Orders, ProviderDecides(o) PROVE SafeInv'
  <2> USE <1>4 DEF ProviderDecides
  <2>1. ReserveInv' BY DEF ReserveInv, AuthorizationProven, Posted, Held
  <2>2. ReleaseInv' BY DEF ReleaseInv, Releases
  <2>3. ProviderInv' BY DEF ProviderInv, Sent, Terminal
  <2>4. ClaimInv' BY DEF ClaimInv, Inside, Sent
  <2>5. WorkerInv' BY DEF WorkerInv
  <2>6. ReconcilerInv' BY DEF ReconcilerInv, Terminal
  <2>7. ReturnedIsNotPaid' BY DEF ReturnedIsNotPaid, Returned, Releases
  <2>8. PaidIsDelivered' BY DEF PaidIsDelivered, Paid, Releases
  <2>9. ChangedFeeIsNeverSent' BY DEF ChangedFeeIsNeverSent
  <2> HIDE DEF ProviderDecides, IInv, TypeOK
  <2> QED BY <2>1, <2>2, <2>3, <2>4, <2>5, <2>6, <2>7, <2>8, <2>9
<1> HIDE DEF IInv, SafeInv, TypeOK
<1> QED BY <1>1, <1>2, <1>3, <1>4 DEF EnvironmentStep

(* The inductive invariant holds in every state. *)
THEOREM Invariance == Spec => []IInv
<1>1. Init => IInv
  BY InitTyped, InitSafe DEF IInv
<1>2. IInv /\ [Next]_vars => IInv'
  <2> SUFFICES ASSUME IInv, [Next]_vars PROVE IInv'
    OBVIOUS
  <2>1. TypeOK'
    <3>1. CASE UNCHANGED vars
      BY <3>1 DEF IInv, TypeOK, vars, requestVars, ledgerVars, providerVars
    <3> QED BY <3>1, UnpostedTyped, PostingTyped, NextCases DEF IInv
  <2>2. CASE UNCHANGED vars
    BY <2>2 DEF IInv, SafeInv, TypeOK, vars, requestVars, ledgerVars, providerVars, ReserveInv, ReleaseInv,
                ProviderInv, ClaimInv, WorkerInv, ReconcilerInv, ReturnedIsNotPaid, PaidIsDelivered,
                ChangedFeeIsNeverSent, AuthorizationProven, Posted, Returned, Paid, Releases
  <2>3. CASE Next
    BY <2>1, <2>3, ClientSafe, WorkerSafe, ReconcilerSafe, TickSafe, AdminSafe, EnvironmentSafe
       DEF Next, IInv
  <2> QED BY <2>1, <2>2, <2>3 DEF IInv
<1> QED BY <1>1, <1>2, PTL DEF Spec
-----------------------------------------------------------------------------
(* The properties. *)

(* No order has two payouts at the provider. *)
THEOREM PayoutCreatedOnceHolds == Spec => []PayoutCreatedOnce
<1>1. IInv => PayoutCreatedOnce
  BY DEF IInv, SafeInv, TypeOK, ProviderInv, PayoutCreatedOnce
<1> QED BY <1>1, Invariance, PTL

(* A reserve that was taken leaves the reserve account at most once. *)
THEOREM ReleasedOnceHolds == Spec => []ReleasedOnce
<1>1. IInv => ReleasedOnce
  BY DEF IInv, SafeInv, ReserveInv, ReleaseInv, ReleasedOnce, AuthorizationProven, Returned, Paid, Releases
<1> QED BY <1>1, Invariance, PTL

(* Money returned to the player is never also sent to the player's address. *)
THEOREM ReturnedIsNotPaidHolds == Spec => []ReturnedIsNotPaid
BY Invariance, PTL DEF IInv, SafeInv

(* What the books call paid was delivered by the provider. *)
THEOREM PaidIsDeliveredHolds == Spec => []PaidIsDelivered
BY Invariance, PTL DEF IInv, SafeInv

(* Only orders with a verified code and a taken reserve reach the provider. *)
THEOREM OnlyAuthorizedIsSentHolds == Spec => []OnlyAuthorizedIsSent
<1>1. IInv => OnlyAuthorizedIsSent
  BY DEF IInv, SafeInv, ReserveInv, ProviderInv, OnlyAuthorizedIsSent, Held, Sent
<1> QED BY <1>1, Invariance, PTL

(* An order whose fee changed is never sent. *)
THEOREM ChangedFeeIsNeverSentHolds == Spec => []ChangedFeeIsNeverSent
BY Invariance, PTL DEF IInv, SafeInv

(* No step changes the status or the provider id of a closed order. *)
LEMMA ClosedStep == TypeOK /\ [Next]_vars => [ClosedUnchanged]_vars
<1> SUFFICES ASSUME TypeOK, Next, NEW o \in Orders, status[o] \in Closed
             PROVE  status'[o] = status[o] /\ providerId'[o] = providerId[o]
  BY DEF ClosedUnchanged
<1> USE DEF Closed
<1>1. ASSUME NEW c \in Clients, ClientStep(c) PROVE status'[o] = status[o] /\ providerId'[o] = providerId[o]
  BY <1>1 DEF TypeOK, ClientStep, RequestWithdrawal, InsertOrder, InstallChallenge, SendCode, ClaimAttempt,
              VerifyWithdrawal, Cas
<1>2. ASSUME NEW w \in Workers, WorkerStep(w) PROVE status'[o] = status[o] /\ providerId'[o] = providerId[o]
  BY <1>2 DEF TypeOK, WorkerStep, BeginSubmit, HoldForReview, ClaimOrder, CreatePayout, ReceiveReply, PersistIds,
              VerifyPayout, MarkProcessing, RefundRefused, MarkUncertain, Cas
<1>3. ASSUME NEW r \in Reconcilers, ReconcilerStep(r) PROVE status'[o] = status[o] /\ providerId'[o] = providerId[o]
  BY <1>3 DEF TypeOK, ReconcilerStep, BeginReconcile, QueryPayout, RepeatVerification, SettlePayout, Settleable, Cas
<1>4. CASE TickStep
  BY <1>4 DEF TypeOK, TickStep, ExpireVerification, SubmissionTimedOut, ResolveUncertain, IdentityMatches, Cas
<1>5. CASE AdminStep
  BY <1>5 DEF TypeOK, AdminStep, Approve, Reject, ProposeProviderId
<1>6. CASE EnvironmentStep
  BY <1>6 DEF TypeOK, EnvironmentStep, Abandon, ChallengeLapses, ProviderAnswers, ProviderDecides
<1> QED BY <1>1, <1>2, <1>3, <1>4, <1>5, <1>6 DEF Next

(* A closed order never changes again. *)
THEOREM ClosedStaysClosedHolds == Spec => ClosedStaysClosed
BY ClosedStep, TypeCorrect, PTL DEF Spec, ClosedStaysClosed

-----------------------------------------------------------------------------
(* The books and the limits of the withdrawals. *)

(* The orders a player's reserve holds, those that were paid, and what a journal means
   for the order it is about. *)
HeldOf(u)   == {o \in Orders : Owner[o] = u /\ status[o] \in Held}
Confirmed   == {o \in Orders : status[o] = "confirmed"}
Reserved    == Held \cup {"confirmed", "rejected"}
JournalInv  == \A j \in journal : status[j.order] \in Reserved
FiniteInv   == IsFiniteSet({o \in Orders : status[o] # "absent"})
LimitInv    == JournalInv /\ FiniteInv /\ BooksMatchOrders /\ UnreviewedWithinLimits

(* The sums are over finite sets of amounts. *)
LEMMA BookSums ==
    ASSUME TypeOK, FiniteInv, NEW S, S \subseteq {o \in Orders : status[o] # "absent"}
    PROVE  /\ IsFiniteSet(S) /\ \A o \in S : Amount[o] \in Int /\ Amount[o] \in Nat
           /\ SumFunctionOnSet(Amount, S) \in Int
<1>1. IsFiniteSet(S)
  BY FS_Subset DEF FiniteInv
<1>2. \A o \in S : Amount[o] \in Int /\ Amount[o] \in Nat
  BY WithdrawalAssumption
<1> QED
  BY <1>1, <1>2, SumRemove

(* What a first post of an operation does to the reserve of a player and to the
   provider's account. *)
LEMMA PostMoves ==
    ASSUME TypeOK, NEW o \in Orders, NEW op, NEW to, Post(op, o, to), ~Posted(op, o),
           op = "reserve" <=> to = "withdrawals", to \in {"withdrawals", "available", "external"}
    PROVE  /\ \A u \in Users :
                account'[Reserve(u)] =
                  IF u # Owner[o] THEN account[Reserve(u)]
                  ELSE IF op = "reserve" THEN account[Reserve(u)] + Amount[o]
                  ELSE account[Reserve(u)] - Amount[o]
           /\ account'[External] = IF to = "external" THEN account[External] + Amount[o]
                                   ELSE account[External]
<1> DEFINE j == [op |-> op, order |-> o, to |-> to]
<1>1. Amount[o] \in Nat /\ Owner[o] \in Users /\ account \in [Accounts -> Int]
  BY WithdrawalAssumption DEF TypeOK
<1>2. /\ Debited(j) = IF op = "reserve" THEN Available(Owner[o]) ELSE Reserve(Owner[o])
      /\ Credited(j) = IF op = "reserve" THEN Reserve(Owner[o])
                       ELSE IF to = "external" THEN External ELSE Available(Owner[o])
  BY DEF Debited, Credited, Reserve, Available
<1>3. account' = [account EXCEPT ![Debited(j)] = @ - Amount[o], ![Credited(j)] = @ + Amount[o]]
  BY DEF Post
<1>4. \A u \in Users : Available(u) \in Accounts /\ Reserve(u) \in Accounts
  BY DEF Accounts
<1>5. /\ External \in Accounts
      /\ \A u \in Users : Reserve(u) # External /\ Available(u) # External
  BY DEF Accounts, External, Reserve, Available
<1>6. \A u, v \in Users : Reserve(u) # Available(v) /\ (Reserve(u) = Reserve(v) => u = v)
  BY DEF Reserve, Available
<1> HIDE DEF j
<1>7. CASE op = "reserve"
  <2>1. account' = [account EXCEPT ![Available(Owner[o])] = @ - Amount[o], ![Reserve(Owner[o])] = @ + Amount[o]]
    BY <1>2, <1>3, <1>7
  <2> QED
    BY <1>1, <1>4, <1>5, <1>6, <1>7, <2>1
<1>8. CASE op # "reserve" /\ to = "external"
  <2>1. account' = [account EXCEPT ![Reserve(Owner[o])] = @ - Amount[o], ![External] = @ + Amount[o]]
    BY <1>2, <1>3, <1>8
  <2> QED
    BY <1>1, <1>4, <1>5, <1>6, <1>8, <2>1
<1>9. CASE op # "reserve" /\ to = "available"
  <2>1. account' = [account EXCEPT ![Reserve(Owner[o])] = @ - Amount[o], ![Available(Owner[o])] = @ + Amount[o]]
    BY <1>2, <1>3, <1>9
  <2> QED
    BY <1>1, <1>4, <1>5, <1>6, <1>9, <2>1
<1> QED
  BY <1>7, <1>8, <1>9

(* Reserving an order adds it to what its owner's reserve holds. *)
LEMMA ReserveBooks ==
    ASSUME TypeOK, JournalInv, FiniteInv, BooksMatchOrders,
           NEW o \in Orders, status[o] \notin Reserved, status[o] # "absent",
           Post("reserve", o, "withdrawals"),
           NEW next \in Held, status' = [status EXCEPT ![o] = next]
    PROVE  BooksMatchOrders'
<1>1. ~Posted("reserve", o)
  BY DEF JournalInv, Posted
<1>2. /\ \A u \in Users : account'[Reserve(u)] =
           IF u # Owner[o] THEN account[Reserve(u)] ELSE account[Reserve(u)] + Amount[o]
      /\ account'[External] = account[External]
  BY <1>1, PostMoves
<1>3. status'[o] = next /\ \A p \in Orders \ {o} : status'[p] = status[p]
  BY DEF TypeOK
<1>4. Confirmed' = Confirmed
  BY <1>3 DEF Confirmed, Held, Reserved
<1>5. \A u \in Users : HeldOf(u)' = IF u = Owner[o] THEN HeldOf(u) \cup {o} ELSE HeldOf(u)
  BY <1>3 DEF HeldOf, Reserved
<1>6. ASSUME NEW u \in Users
      PROVE  account'[Reserve(u)] = SumFunctionOnSet(Amount, HeldOf(u)')
  <2>1. account[Reserve(u)] = SumFunctionOnSet(Amount, HeldOf(u))
    BY DEF BooksMatchOrders, HeldOf
  <2>2. IsFiniteSet(HeldOf(u)) /\ (\A p \in HeldOf(u) : Amount[p] \in Int) /\ o \notin HeldOf(u)
    BY BookSums DEF HeldOf, Held, Reserved
  <2>3. Amount[o] \in Int
    BY WithdrawalAssumption
  <2>4. SumFunctionOnSet(Amount, HeldOf(u) \cup {o}) = SumFunctionOnSet(Amount, HeldOf(u)) + Amount[o]
    BY <2>2, <2>3, SumAdd
  <2> QED
    BY <1>2, <1>5, <2>1, <2>4
<1>7. account'[External] = SumFunctionOnSet(Amount, Confirmed')
  BY <1>2, <1>4 DEF BooksMatchOrders, Confirmed
<1> QED
  BY <1>6, <1>7 DEF BooksMatchOrders, HeldOf, Confirmed

(* Releasing a held order takes it out of its owner's reserve; if it was paid,
   it is what the provider's account has more. *)
LEMMA ReleaseBooks ==
    ASSUME IInv, FiniteInv, BooksMatchOrders,
           NEW o \in Orders, status[o] \in Held,
           NEW op, op # "reserve", NEW to \in {"available", "external"}, Post(op, o, to),
           status' = [status EXCEPT ![o] = IF to = "external" THEN "confirmed" ELSE "rejected"]
    PROVE  BooksMatchOrders'
<1>1. TypeOK /\ ~Posted(op, o)
  BY DEF IInv, SafeInv, ReleaseInv, Posted, Releases, Held
<1>2. /\ \A u \in Users : account'[Reserve(u)] =
           IF u # Owner[o] THEN account[Reserve(u)] ELSE account[Reserve(u)] - Amount[o]
      /\ account'[External] = IF to = "external" THEN account[External] + Amount[o]
                              ELSE account[External]
  BY <1>1, PostMoves
<1>3. /\ status'[o] = IF to = "external" THEN "confirmed" ELSE "rejected"
      /\ \A p \in Orders \ {o} : status'[p] = status[p]
  BY <1>1 DEF TypeOK
<1>4. Confirmed' = IF to = "external" THEN Confirmed \cup {o} ELSE Confirmed
  BY <1>3 DEF Confirmed, Held
<1>5. \A u \in Users : HeldOf(u)' = HeldOf(u) \ {o}
  BY <1>3 DEF HeldOf, Held
<1>6. Amount[o] \in Int
  BY WithdrawalAssumption
<1>7. ASSUME NEW u \in Users
      PROVE  account'[Reserve(u)] = SumFunctionOnSet(Amount, HeldOf(u)')
  <2>1. account[Reserve(u)] = SumFunctionOnSet(Amount, HeldOf(u))
    BY DEF BooksMatchOrders, HeldOf
  <2>2. IsFiniteSet(HeldOf(u)) /\ (\A p \in HeldOf(u) : Amount[p] \in Int)
        /\ SumFunctionOnSet(Amount, HeldOf(u) \ {o}) \in Int
    BY <1>1, BookSums DEF HeldOf, Held
  <2>3. CASE u = Owner[o]
    <3>1. o \in HeldOf(u)
      BY <2>3 DEF HeldOf
    <3>2. SumFunctionOnSet(Amount, HeldOf(u)) = Amount[o] + SumFunctionOnSet(Amount, HeldOf(u) \ {o})
      BY <2>2, <3>1, SumRemove
    <3> DEFINE rest == SumFunctionOnSet(Amount, HeldOf(u) \ {o})
    <3>3. account[Reserve(u)] = Amount[o] + rest /\ rest \in Int
      BY <2>1, <2>2, <3>2
    <3>4. account'[Reserve(u)] = account[Reserve(u)] - Amount[o]
      BY <1>2, <2>3
    <3> HIDE DEF rest
    <3>5. account'[Reserve(u)] = rest
      BY <1>6, <3>3, <3>4
    <3> QED
      BY <1>5, <3>5 DEF rest
  <2>4. CASE u # Owner[o]
    <3>1. HeldOf(u) \ {o} = HeldOf(u)
      BY <2>4 DEF HeldOf
    <3> QED
      BY <1>2, <1>5, <2>1, <2>4, <3>1
  <2> QED
    BY <2>3, <2>4
<1>8. account'[External] = SumFunctionOnSet(Amount, Confirmed')
  <2>1. account[External] = SumFunctionOnSet(Amount, Confirmed)
    BY DEF BooksMatchOrders, Confirmed
  <2>2. IsFiniteSet(Confirmed) /\ (\A p \in Confirmed : Amount[p] \in Int) /\ o \notin Confirmed
    BY <1>1, BookSums DEF Confirmed, Held
  <2>3. SumFunctionOnSet(Amount, Confirmed \cup {o}) = SumFunctionOnSet(Amount, Confirmed) + Amount[o]
    BY <1>6, <2>2, SumAdd
  <2> QED
    BY <1>2, <1>4, <2>1, <2>3
<1> QED
  BY <1>7, <1>8 DEF BooksMatchOrders, HeldOf, Confirmed

(* What is let through stays under the limits when none is added to it. *)
LEMMA LimitsKept ==
    ASSUME TypeOK, FiniteInv, UnreviewedWithinLimits, \A u \in Users : Unreviewed(u)' \subseteq Unreviewed(u)
    PROVE  UnreviewedWithinLimits'
<1> SUFFICES ASSUME NEW u \in Users
             PROVE  /\ SumFunctionOnSet(Amount, Unreviewed(u)') <= DailyLimit
                    /\ \A o \in Unreviewed(u)' : Amount[o] <= SingleLimit
  BY DEF UnreviewedWithinLimits
<1>1. SumFunctionOnSet(Amount, Unreviewed(u)) <= DailyLimit
      /\ \A o \in Unreviewed(u) : Amount[o] <= SingleLimit
  BY DEF UnreviewedWithinLimits
<1>2. IsFiniteSet(Unreviewed(u)) /\ \A o \in Unreviewed(u) : Amount[o] \in Nat
  BY BookSums DEF Unreviewed, Held
<1>3. \A o \in Unreviewed(u) : Amount[o] <= Amount[o]
  BY <1>2
<1>4. /\ SumFunctionOnSet(Amount, Unreviewed(u)') <= SumFunctionOnSet(Amount, Unreviewed(u))
      /\ SumFunctionOnSet(Amount, Unreviewed(u)') \in Nat /\ SumFunctionOnSet(Amount, Unreviewed(u)) \in Nat
  BY <1>2, <1>3, SumGrows
<1> QED
  BY <1>1, <1>4, WithdrawalAssumption

(* What a step may do to the orders that no journal is posted for. *)
Calm ==
    /\ \A o \in Orders :
         /\ status'[o] \in Held <=> status[o] \in Held
         /\ status'[o] = "confirmed" <=> status[o] = "confirmed"
         /\ status'[o] = "rejected" <=> status[o] = "rejected"
         /\ reason'[o] = "none" => reason[o] = "none"
    /\ UNCHANGED ledgerVars
    /\ \E n : \A o \in Orders : status'[o] # "absent" => status[o] # "absent" \/ o = n

LEMMA CalmKeeps ==
    ASSUME IInv, LimitInv, Calm
    PROVE  LimitInv'
<1>1. TypeOK /\ JournalInv /\ FiniteInv /\ BooksMatchOrders /\ UnreviewedWithinLimits
  BY DEF IInv, LimitInv
<1>2. journal' = journal /\ account' = account
  BY DEF Calm, ledgerVars
<1>3. JournalInv'
  <2>1. \A j \in journal : j.order \in Orders
    BY <1>1 DEF TypeOK, Journals
  <2> QED
    BY <1>1, <1>2, <2>1 DEF JournalInv, Calm, Reserved
<1>4. FiniteInv'
  <2>1. PICK n : \A o \in Orders : status'[o] # "absent" => status[o] # "absent" \/ o = n
    BY DEF Calm
  <2>2. IsFiniteSet({o \in Orders : status[o] # "absent"} \cup {n})
    BY <1>1, FS_AddElement DEF FiniteInv
  <2>3. {o \in Orders : status'[o] # "absent"} \subseteq {o \in Orders : status[o] # "absent"} \cup {n}
    BY <2>1
  <2> QED
    BY <2>2, <2>3, FS_Subset DEF FiniteInv
<1>5. BooksMatchOrders'
  <2>1. \A u \in Users : HeldOf(u)' = HeldOf(u)
    BY DEF Calm, HeldOf
  <2>2. Confirmed' = Confirmed
    BY DEF Calm, Confirmed
  <2> QED
    BY <1>1, <1>2, <2>1, <2>2 DEF BooksMatchOrders, HeldOf, Confirmed
<1>6. UnreviewedWithinLimits'
  <2>1. \A u \in Users : Unreviewed(u)' \subseteq Unreviewed(u)
    BY DEF Calm, Unreviewed
  <2> QED
    BY <1>1, <2>1, LimitsKept
<1> QED
  BY <1>3, <1>4, <1>5, <1>6 DEF LimitInv

(* A handler step that posts no journal leaves the held and the closed orders so. *)
LEMMA UnpostedCalm == IInv /\ UnpostedStep => Calm
<1> SUFFICES ASSUME IInv, UnpostedStep PROVE Calm
  OBVIOUS
<1>0. TypeOK /\ ProviderInv /\ ClaimInv /\ WorkerInv
  BY DEF IInv, SafeInv
<1> USE <1>0 DEF TypeOK, requestVars, ledgerVars, providerVars, Cas, At, Job, Calm, Held
<1>1. ASSUME NEW c \in Clients, NEW o \in Orders, RequestWithdrawal(c, o) PROVE Calm
  BY <1>1 DEF RequestWithdrawal
<1>2. ASSUME NEW c \in Clients, InsertOrder(c) PROVE Calm
  <2>1. \A o \in Orders : status'[o] # "absent" => status[o] # "absent" \/ o = proc[c].order
    BY <1>2 DEF InsertOrder
  <2>2. \A o \in Orders : status'[o] = status[o] \/ (status[o] = "absent" /\ status'[o] = "created")
    BY <1>2 DEF InsertOrder
  <2> QED BY <1>2, <2>1, <2>2 DEF InsertOrder
<1>3. ASSUME NEW c \in Clients, InstallChallenge(c) PROVE Calm
  <2>2. \A o \in Orders : status'[o] = status[o] \/ (status[o] = "created" /\ status'[o] = "pending_verify")
    BY <1>3 DEF InstallChallenge
  <2> QED BY <1>3, <2>2 DEF InstallChallenge
<1>4. ASSUME NEW c \in Clients, SendCode(c) PROVE Calm
  <2>2. \A o \in Orders : status'[o] = status[o] \/ (status[o] = "pending_verify" /\ status'[o] = "verification_delivery_failed")
    BY <1>4 DEF SendCode
  <2> QED BY <1>4, <2>2 DEF SendCode
<1>5. ASSUME NEW c \in Clients, NEW o \in Orders, NEW k \in Keys, ClaimAttempt(c, o, k) PROVE Calm
  BY <1>5 DEF ClaimAttempt
<1>6. ASSUME NEW w \in Workers, NEW o \in Orders, BeginSubmit(w, o) PROVE Calm
  BY <1>6 DEF BeginSubmit
<1>7. ASSUME NEW w \in Workers, NEW why \in {"authorization_not_proven", "fee_changed"}, HoldForReview(w, why) PROVE Calm
  <2>1. \A o \in Orders : status'[o] = status[o] \/ (status[o] = "reserved" /\ status'[o] = "review")
    BY <1>7 DEF HoldForReview
  <2>2. \A o \in Orders : reason'[o] = "none" => reason[o] = "none"
    BY <1>7 DEF HoldForReview
  <2> QED BY <1>7, <2>1, <2>2 DEF HoldForReview
<1>8. ASSUME NEW w \in Workers, ClaimOrder(w) PROVE Calm
  <2>1. \A o \in Orders : status'[o] = status[o] \/ (status[o] = "reserved" /\ status'[o] = "submitting")
    BY <1>8 DEF ClaimOrder
  <2> QED BY <1>8, <2>1 DEF ClaimOrder
<1>9. ASSUME NEW w \in Workers, CreatePayout(w) \/ ReceiveReply(w) \/ VerifyPayout(w) PROVE Calm
  BY <1>9 DEF CreatePayout, ReceiveReply, VerifyPayout
<1>10. ASSUME NEW w \in Workers, PersistIds(w) PROVE Calm
  <2>1. \A o \in Orders : status'[o] = status[o] \/ (status[o] = "submitting" /\ status'[o] = "verification_pending")
    BY <1>10 DEF PersistIds
  <2> QED BY <1>10, <2>1 DEF PersistIds
<1>11. ASSUME NEW w \in Workers, MarkProcessing(w) PROVE Calm
  <2>1. \A o \in Orders : status'[o] = status[o] \/ (status[o] = "verification_pending" /\ status'[o] = "processing")
    BY <1>11 DEF MarkProcessing
  <2> QED BY <1>11, <2>1 DEF MarkProcessing
<1>12. ASSUME NEW w \in Workers, MarkUncertain(w) PROVE Calm
  <2>1. \A o \in Orders : status'[o] = status[o] \/ (status[o] = "submitting" /\ status'[o] = "uncertain")
    BY <1>12 DEF MarkUncertain
  <2> QED BY <1>12, <2>1 DEF MarkUncertain
<1>13. ASSUME NEW r \in Reconcilers,
              (\E o \in Orders : BeginReconcile(r, o)) \/ QueryPayout(r) \/ RepeatVerification(r)
       PROVE Calm
  BY <1>13 DEF BeginReconcile, QueryPayout, RepeatVerification
<1>14. ASSUME NEW o \in Orders, ExpireVerification(o) PROVE Calm
  <2>1. \A p \in Orders : status'[p] = status[p] \/ (status[p] = "pending_verify" /\ status'[p] = "expired")
    BY <1>14 DEF ExpireVerification
  <2> QED BY <1>14, <2>1 DEF ExpireVerification
<1>15. ASSUME NEW o \in Orders, SubmissionTimedOut(o) PROVE Calm
  <2>1. \A p \in Orders : status'[p] = status[p] \/ (status[p] \in Held /\ status'[p] = "uncertain")
    BY <1>15 DEF SubmissionTimedOut
  <2> QED BY <1>15, <2>1 DEF SubmissionTimedOut
<1>16. ASSUME NEW r \in proposals, ResolveUncertain(r) PROVE Calm
  BY <1>16 DEF ResolveUncertain
<1>17. ASSUME NEW o \in Orders, Approve(o) PROVE Calm
  <2>1. \A p \in Orders : status'[p] = status[p] \/ (status[p] = "review" /\ status'[p] = "reserved")
    BY <1>17 DEF Approve
  <2> QED BY <1>17, <2>1 DEF Approve
<1>18. ASSUME NEW o \in Orders, NEW p \in Orders, ProposeProviderId(o, p) PROVE Calm
  BY <1>18 DEF ProposeProviderId
<1>19. CASE EnvironmentStep
  BY <1>19 DEF EnvironmentStep, Abandon, ChallengeLapses, ProviderAnswers, ProviderDecides
<1> QED
  BY <1>1, <1>2, <1>3, <1>4, <1>5, <1>6, <1>7, <1>8, <1>9, <1>10, <1>11, <1>12, <1>13, <1>14, <1>15, <1>16,
     <1>17, <1>18, <1>19 DEF UnpostedStep, TickStep

(* A verification that asks for no review keeps to the limits: what it counts
   includes everything that was let through. *)
LEMMA VerifiedWithinLimits ==
    ASSUME TypeOK, FiniteInv, UnreviewedWithinLimits, NEW o \in Orders, status[o] = "pending_verify",
           ~ReviewRequired(o, FALSE), UNCHANGED reason, status' = [status EXCEPT ![o] = "reserved"]
    PROVE  UnreviewedWithinLimits'
<1> SUFFICES ASSUME NEW u \in Users
             PROVE  /\ SumFunctionOnSet(Amount, Unreviewed(u)') <= DailyLimit
                    /\ \A p \in Unreviewed(u)' : Amount[p] <= SingleLimit
  BY DEF UnreviewedWithinLimits
<1>1. \A p \in Orders \ {o} : status'[p] = status[p]
  BY DEF TypeOK
<1>2. SumFunctionOnSet(Amount, Unreviewed(u)) <= DailyLimit
      /\ \A p \in Unreviewed(u) : Amount[p] <= SingleLimit
  BY DEF UnreviewedWithinLimits
<1>3. CASE u # Owner[o]
  <2>1. Unreviewed(u)' = Unreviewed(u)
    BY <1>1, <1>3 DEF Unreviewed
  <2> QED
    BY <1>2, <2>1
<1>4. CASE u = Owner[o]
  <2>1. Unreviewed(u)' \subseteq Counted(u) \cup {o} /\ Unreviewed(u)' \subseteq Unreviewed(u) \cup {o}
    BY <1>1 DEF Unreviewed, Counted
  <2>2. /\ IsFiniteSet(Counted(u)) /\ \A p \in Counted(u) : Amount[p] \in Int /\ Amount[p] \in Nat
        /\ SumFunctionOnSet(Amount, Counted(u)) \in Int
    BY BookSums DEF Counted, Held
  <2>3. Amount[o] \in Nat /\ o \notin Counted(u) /\ SingleLimit \in Nat /\ DailyLimit \in Nat
    BY WithdrawalAssumption DEF Counted, Held
  <2>4. Amount[o] <= SingleLimit /\ SumFunctionOnSet(Amount, Counted(u)) + Amount[o] <= DailyLimit
    BY <1>4, <2>2, <2>3 DEF ReviewRequired
  <2> DEFINE S == Counted(u) \cup {o}
  <2>5. IsFiniteSet(S) /\ SumFunctionOnSet(Amount, S) = SumFunctionOnSet(Amount, Counted(u)) + Amount[o]
    BY <2>2, <2>3, SumAdd
  <2>6. \A p \in S : Amount[p] \in Nat /\ Amount[p] <= Amount[p]
    BY <2>2, <2>3
  <2>7. SumFunctionOnSet(Amount, S) <= DailyLimit
    BY <2>4, <2>5
  <2> HIDE DEF S
  <2>8. Unreviewed(u)' \subseteq S
    BY <2>1 DEF S
  <2>9. /\ SumFunctionOnSet(Amount, Unreviewed(u)') <= SumFunctionOnSet(Amount, S)
        /\ SumFunctionOnSet(Amount, Unreviewed(u)') \in Nat /\ SumFunctionOnSet(Amount, S) \in Nat
    BY <2>5, <2>6, <2>8, SumGrows
  <2>10. SumFunctionOnSet(Amount, Unreviewed(u)') <= DailyLimit
    BY <2>3, <2>7, <2>9
  <2> QED
    BY <1>2, <2>1, <2>4, <2>10
<1> QED
  BY <1>3, <1>4

(* The status of one order moves on, to one that is held or closed. *)
LEMMA MovedKeeps ==
    ASSUME TypeOK, JournalInv, FiniteInv, NEW o \in Orders, status[o] # "absent", NEW next \in Reserved,
           status' = [status EXCEPT ![o] = next], NEW op, NEW to, Post(op, o, to)
    PROVE  JournalInv' /\ FiniteInv'
<1>1. status'[o] = next /\ \A p \in Orders \ {o} : status'[p] = status[p]
  BY DEF TypeOK
<1>2. {p \in Orders : status'[p] # "absent"} = {p \in Orders : status[p] # "absent"}
  BY <1>1 DEF Reserved, Held
<1>3. \A j \in journal' : j \in journal \/ j.order = o
  <2>1. \A j \in journal' : j \in journal \/ j = [op |-> op, order |-> o, to |-> to]
    BY PostEffect
  <2> QED
    BY <2>1
<1>4. \A j \in journal : j.order \in Orders
  BY DEF TypeOK, Journals
<1>5. FiniteInv'
  BY <1>2 DEF FiniteInv
<1>6. ASSUME NEW j \in journal'
      PROVE  status'[j.order] \in Reserved
  <2>1. CASE j.order = o
    BY <1>1, <2>1
  <2>2. CASE j.order # o
    BY <1>1, <1>3, <1>4, <2>2 DEF JournalInv
  <2> QED
    BY <2>1, <2>2
<1> QED
  BY <1>5, <1>6 DEF JournalInv

(* A release keeps the books and the limits. *)
LEMMA ReleaseKeepsLimits ==
    ASSUME IInv, LimitInv, NEW o \in Orders, status[o] \in Held,
           NEW op, op # "reserve", NEW to \in {"available", "external"}, Post(op, o, to), UNCHANGED reason,
           status' = [status EXCEPT ![o] = IF to = "external" THEN "confirmed" ELSE "rejected"]
    PROVE  LimitInv'
<1>1. TypeOK /\ JournalInv /\ FiniteInv /\ BooksMatchOrders /\ UnreviewedWithinLimits
  BY DEF IInv, LimitInv
<1>2. BooksMatchOrders'
  BY <1>1, ReleaseBooks
<1>3. JournalInv' /\ FiniteInv'
  <2> DEFINE next == IF to = "external" THEN "confirmed" ELSE "rejected"
  <2>1. next \in Reserved /\ status[o] # "absent"
    BY DEF Reserved, Held
  <2> HIDE DEF next
  <2>2. status' = [status EXCEPT ![o] = next]
    BY DEF next
  <2> QED
    BY <1>1, <2>1, <2>2, MovedKeeps
<1>4. \A u \in Users : Unreviewed(u)' \subseteq Unreviewed(u)
  BY <1>1 DEF Unreviewed, TypeOK, Held
<1> QED
  BY <1>1, <1>2, <1>3, <1>4, LimitsKept DEF LimitInv

(* The four handler steps that post a journal keep the books and the limits. *)
LEMMA PostingLimits == IInv /\ LimitInv /\ PostingStep => LimitInv'
<1> SUFFICES ASSUME IInv, LimitInv, PostingStep PROVE LimitInv'
  OBVIOUS
<1>0. TypeOK /\ JournalInv /\ FiniteInv /\ BooksMatchOrders /\ UnreviewedWithinLimits
  BY DEF IInv, LimitInv
<1>1. ASSUME NEW c \in Clients, VerifyWithdrawal(c) PROVE LimitInv'
  <2> DEFINE o == Job(c)
  <2>1. o \in Orders
    BY <1>0, <1>1 DEF VerifyWithdrawal, TypeOK, At, Job, Procs
  <2>2. status[o] = "pending_verify" /\ Post("reserve", o, "withdrawals")
    BY <1>1 DEF VerifyWithdrawal
  <2>3. PICK risk \in BOOLEAN :
          IF ReviewRequired(o, risk)
          THEN /\ status' = [status EXCEPT ![o] = "review"]
               /\ reason' = [reason EXCEPT ![o] = "limit"]
          ELSE /\ status' = [status EXCEPT ![o] = "reserved"]
               /\ UNCHANGED reason
    BY <1>1 DEF VerifyWithdrawal
  <2> HIDE DEF o
  <2>4. \E next \in {"review", "reserved"} : status' = [status EXCEPT ![o] = next]
    BY <2>3
  <2>5. JournalInv' /\ FiniteInv' /\ BooksMatchOrders'
    <3>1. PICK next \in {"review", "reserved"} : status' = [status EXCEPT ![o] = next]
      BY <2>4
    <3>2. next \in Held /\ next \in Reserved /\ status[o] \notin Reserved /\ status[o] # "absent"
      BY <2>2 DEF Held, Reserved
    <3> QED
      BY <1>0, <2>1, <2>2, <3>1, <3>2, ReserveBooks, MovedKeeps
  <2>6. CASE ReviewRequired(o, risk)
    <3>1. \A u \in Users : Unreviewed(u)' \subseteq Unreviewed(u)
      BY <1>0, <2>1, <2>3, <2>6 DEF Unreviewed, TypeOK
    <3> QED
      BY <1>0, <2>5, <3>1, LimitsKept DEF LimitInv
  <2>7. CASE ~ReviewRequired(o, risk)
    <3>1. ~ReviewRequired(o, FALSE)
      BY <2>7 DEF ReviewRequired
    <3> QED
      BY <1>0, <2>1, <2>2, <2>3, <2>5, <2>7, <3>1, VerifiedWithinLimits DEF LimitInv
  <2> QED
    BY <2>6, <2>7
<1>2. ASSUME NEW w \in Workers, RefundRefused(w) PROVE LimitInv'
  <2> DEFINE o == Job(w)
  <2>1. o \in Orders
    BY <1>0, <1>2 DEF RefundRefused, TypeOK, At, Job, Procs
  <2> HIDE DEF o
  <2>2. CASE Refundable(o)
    <3>1. status[o] = "submitting" /\ Post("provider-reject", o, "available") /\ Cas(o, {"submitting"}, "rejected")
          /\ UNCHANGED reason
      BY <1>2, <2>2 DEF RefundRefused, Refundable, o
    <3>2. status' = [status EXCEPT ![o] = "rejected"]
      BY <2>1, <3>1 DEF Cas
    <3>3. status[o] \in Held
      BY <3>1 DEF Held
    <3> QED
      BY <2>1, <3>1, <3>2, <3>3, ReleaseKeepsLimits
  <2>3. CASE ~Refundable(o)
    <3>1. UNCHANGED <<ledgerVars, status, reason>>
      BY <1>2, <2>3 DEF RefundRefused, o
    <3>2. Calm
      BY <3>1 DEF Calm, ledgerVars
    <3> QED
      BY <3>2, CalmKeeps
  <2> QED
    BY <2>2, <2>3
<1>3. ASSUME NEW r \in Reconcilers, SettlePayout(r) PROVE LimitInv'
  <2> DEFINE o == Job(r)
             to == IF proc[r].note = "finished" THEN "external" ELSE "available"
             next == IF proc[r].note = "finished" THEN "confirmed" ELSE "rejected"
  <2>1. o \in Orders
    BY <1>0, <1>3 DEF SettlePayout, TypeOK, At, Job, Procs
  <2>2. CASE status[o] \in Settleable
    <3>1. Post("settle", o, to) /\ Cas(o, Settleable, next) /\ UNCHANGED reason
      BY <1>3, <2>2 DEF SettlePayout
    <3>2. next = (IF to = "external" THEN "confirmed" ELSE "rejected") /\ to \in {"available", "external"}
      OBVIOUS
    <3> HIDE DEF o, to, next
    <3>3. status' = [status EXCEPT ![o] = IF to = "external" THEN "confirmed" ELSE "rejected"]
      BY <2>1, <2>2, <3>1, <3>2 DEF Cas
    <3>4. status[o] \in Held
      BY <2>2 DEF Held, Settleable
    <3> QED
      BY <2>1, <3>1, <3>2, <3>3, <3>4, ReleaseKeepsLimits
  <2>3. CASE status[o] \notin Settleable
    <3>1. UNCHANGED <<ledgerVars, status, reason>>
      BY <1>3, <2>3 DEF SettlePayout
    <3>2. Calm
      BY <3>1 DEF Calm, ledgerVars
    <3> QED
      BY <3>2, CalmKeeps
  <2> QED
    BY <2>2, <2>3
<1>4. ASSUME NEW o \in Orders, Reject(o) PROVE LimitInv'
  <2>1. status[o] = "review" /\ Post("reject", o, "available") /\ UNCHANGED reason
        /\ status' = [status EXCEPT ![o] = "rejected"]
    BY <1>4 DEF Reject
  <2>2. status[o] \in Held
    BY <2>1 DEF Held
  <2> QED
    BY <2>1, <2>2, ReleaseKeepsLimits
<1> QED
  BY <1>1, <1>2, <1>3, <1>4 DEF PostingStep

(* The books and the limits are kept from the first request on. *)
THEOREM BooksInvariance == Spec => []LimitInv
<1>1. Init => LimitInv
  <2> SUFFICES ASSUME Init PROVE LimitInv
    OBVIOUS
  <2>1. \A o \in Orders : status[o] = "absent"
    BY DEF Init
  <2>2. {o \in Orders : status[o] # "absent"} = {} /\ Confirmed = {}
        /\ \A u \in Users : HeldOf(u) = {} /\ Unreviewed(u) = {}
    BY <2>1 DEF Confirmed, HeldOf, Unreviewed, Held
  <2>3. SumFunctionOnSet(Amount, {}) = 0
    BY SumNothing
  <2>4. account[External] = 0 /\ \A u \in Users : account[Reserve(u)] = 0
    BY DEF Init, Accounts, Available, Reserve, External
  <2>5. BooksMatchOrders
    BY <2>2, <2>3, <2>4 DEF BooksMatchOrders, Confirmed, HeldOf
  <2>6. UnreviewedWithinLimits
    BY <2>2, <2>3, WithdrawalAssumption DEF UnreviewedWithinLimits
  <2>7. JournalInv /\ FiniteInv
    BY <2>2, FS_EmptySet DEF Init, JournalInv, FiniteInv
  <2> QED
    BY <2>5, <2>6, <2>7 DEF LimitInv
<1>2. IInv /\ LimitInv /\ [Next]_vars => LimitInv'
  <2> SUFFICES ASSUME IInv, LimitInv, [Next]_vars PROVE LimitInv'
    OBVIOUS
  <2>1. CASE UNCHANGED vars
    <3>1. Calm
      BY <2>1 DEF Calm, vars, ledgerVars
    <3> QED
      BY <3>1, CalmKeeps
  <2>2. CASE Next
    BY <2>2, NextCases, UnpostedCalm, CalmKeeps, PostingLimits
  <2> QED
    BY <2>1, <2>2
<1> QED
  BY <1>1, <1>2, Invariance, PTL DEF Spec

(* The reserve account holds the held orders, the provider's account the confirmed ones. *)
THEOREM BooksMatchOrdersHolds == Spec => []BooksMatchOrders
BY BooksInvariance, PTL DEF LimitInv

(* What was let through without a review stays under both limits. *)
THEOREM UnreviewedWithinLimitsHolds == Spec => []UnreviewedWithinLimits
BY BooksInvariance, PTL DEF LimitInv

-----------------------------------------------------------------------------
(* Refinement. *)

(* Without a new journal or a delivery no order changes phase. *)
LEMMA PhaseKept ==
    ASSUME UNCHANGED journal,
           \A o \in Orders : (payout'[o] = "finished") <=> (payout[o] = "finished")
    PROVE  UNCHANGED phase
BY DEF phase, Returned, Paid, Releases, Posted

(* A held order that posts a release journal moves to returned or to paid. *)
LEMMA ReleaseMoves ==
    ASSUME IInv, NEW o \in Orders, NEW op, NEW to \in {"available", "external"}, op # "reserve",
           Post(op, o, to), status[o] \in Held, UNCHANGED payout,
           to = "available" => payout[o] # "finished",
           to = "external" => payout[o] = "finished"
    PROVE  Contract!Return(o) \/ Contract!Pay(o)
<1> DEFINE j == [op |-> op, order |-> o, to |-> to]
<1>1. \A k \in journal : ~Releases(k, o)
  BY DEF IInv, SafeInv, ReleaseInv, Held
<1>2. Posted("reserve", o)
  BY DEF IInv, SafeInv, ReserveInv, AuthorizationProven
<1>3. j \in journal' /\ journal \subseteq journal' /\ \A k \in journal' : k \in journal \/ k = j
  BY PostEffect
<1>4. phase[o] = IF to = "available" THEN "held" ELSE "delivered"
  BY <1>1, <1>2 DEF phase, Returned, Paid
<1>5. phase' = [phase EXCEPT ![o] = IF to = "available" THEN "returned" ELSE "paid"]
  <2>1. ASSUME NEW p \in Orders \ {o} PROVE phase'[p] = phase[p]
    <3>1. \A k \in journal' : k.order = p => k \in journal
      BY <1>3
    <3> QED BY <1>3, <3>1 DEF phase, Returned, Paid, Releases, Posted
  <2>2. phase'[o] = IF to = "available" THEN "returned" ELSE "paid"
    <3>1. \A k \in journal' : Releases(k, o) => k = j
      BY <1>1, <1>3 DEF Releases
    <3>2. Releases(j, o)
      BY DEF Releases
    <3>3. CASE to = "available"
      BY <1>3, <3>1, <3>2, <3>3 DEF phase, Returned
    <3>4. CASE to = "external"
      BY <1>3, <3>1, <3>2, <3>4 DEF phase, Returned, Paid
    <3> QED BY <3>3, <3>4
  <2> QED BY <2>1, <2>2 DEF phase
<1> QED BY <1>4, <1>5 DEF Contract!Return, Contract!Pay, Contract!Move

(* Without a journal an order moves at most from held to delivered. *)
LEMMA UnpostedRefines == IInv /\ UnpostedStep => [Contract!Next]_phase
<1> SUFFICES ASSUME IInv, UnpostedStep PROVE [Contract!Next]_phase
  OBVIOUS
<1> USE DEF IInv, SafeInv, TypeOK, ledgerVars, providerVars
<1>1. UNCHANGED journal
  BY DEF UnpostedStep, RequestWithdrawal, InsertOrder, InstallChallenge, SendCode, ClaimAttempt,
         BeginSubmit, HoldForReview, ClaimOrder, CreatePayout, ReceiveReply, PersistIds, VerifyPayout,
         MarkProcessing, MarkUncertain, BeginReconcile, QueryPayout, RepeatVerification, TickStep,
         ExpireVerification, SubmissionTimedOut, ResolveUncertain, Approve, ProposeProviderId,
         EnvironmentStep, Abandon, ChallengeLapses, ProviderAnswers, ProviderDecides
<1>2. ASSUME NEW o \in Orders, payout' = [payout EXCEPT ![o] = "finished"], payout[o] = "processing"
      PROVE  Contract!Next
  <2>1. Posted("reserve", o)
    BY <1>2 DEF ProviderInv, ReserveInv, AuthorizationProven, Sent, Held
  <2>2. ~Returned(o) /\ ~Paid(o)
    BY <1>2 DEF ReturnedIsNotPaid, PaidIsDelivered
  <2>3. phase[o] = "held" /\ phase' = [phase EXCEPT ![o] = "delivered"]
    BY <1>1, <1>2, <2>1, <2>2 DEF phase, Returned, Paid, Releases, Posted
  <2> QED BY <2>3 DEF Contract!Next, Contract!Deliver, Contract!Move
<1> DEFINE Kept == \A o \in Orders : (payout'[o] = "finished") <=> (payout[o] = "finished")
           Delivered == \E o \in Orders : payout[o] = "processing" /\ payout' = [payout EXCEPT ![o] = "finished"]
<1>3. Kept \/ Delivered
  <2>1. ASSUME NEW o \in Orders, ProviderAnswers(o) PROVE Kept
    BY <2>1 DEF ProviderAnswers, ProviderInv
  <2>2. ASSUME NEW o \in Orders, ProviderDecides(o) PROVE Kept \/ Delivered
    BY <2>2 DEF ProviderDecides, Terminal
  <2>3. ASSUME NEW o \in Orders, Authenticate(o) PROVE Kept
    BY <2>3 DEF Authenticate
  <2>4. ASSUME UNCHANGED payout PROVE Kept
    BY <2>4
  <2> DEFINE ProviderMoves == \E o \in Orders : ProviderAnswers(o) \/ ProviderDecides(o) \/ Authenticate(o)
  <2>5. UNCHANGED payout \/ ProviderMoves
    <3>1. ASSUME NEW w \in Workers, VerifyPayout(w) PROVE UNCHANGED payout \/ ProviderMoves
      BY <3>1 DEF VerifyPayout, At, Job, Procs
    <3>2. ASSUME NEW r \in Reconcilers, RepeatVerification(r) PROVE UNCHANGED payout \/ ProviderMoves
      BY <3>2, WithdrawalAssumption DEF RepeatVerification, At, Job, Procs, ReconcilerInv
    <3> QED BY <3>1, <3>2 DEF UnpostedStep, RequestWithdrawal, InsertOrder, InstallChallenge, SendCode,
               ClaimAttempt, BeginSubmit, HoldForReview, ClaimOrder, CreatePayout, ReceiveReply, PersistIds,
               MarkProcessing, MarkUncertain, BeginReconcile, QueryPayout, TickStep,
               ExpireVerification, SubmissionTimedOut, ResolveUncertain, Approve, ProposeProviderId,
               EnvironmentStep, Abandon, ChallengeLapses
  <2> QED BY <2>1, <2>2, <2>3, <2>4, <2>5
<1> QED BY <1>1, <1>2, <1>3, PhaseKept

(* A journal moves one order: to held, to paid or to returned. *)
LEMMA PostingRefines == IInv /\ PostingStep => [Contract!Next]_phase
<1> SUFFICES ASSUME IInv, PostingStep PROVE [Contract!Next]_phase
  OBVIOUS
<1> USE DEF providerVars, ledgerVars
<1>1. ASSUME NEW c \in Clients, VerifyWithdrawal(c) PROVE [Contract!Next]_phase
  <2>1. PICK o \in Orders : status[o] = "pending_verify" /\ Post("reserve", o, "withdrawals") /\ UNCHANGED payout
    BY <1>1 DEF VerifyWithdrawal, IInv, TypeOK, At, Job, Procs
  <2>2. CASE Posted("reserve", o)
    BY <2>1, <2>2, PhaseKept DEF Post
  <2>3. CASE ~Posted("reserve", o)
    <3>1. ~Returned(o) /\ ~Paid(o)
      BY <2>1 DEF IInv, SafeInv, ReleaseInv, Returned, Paid
    <3>2. payout[o] # "finished"
      BY <2>1 DEF IInv, SafeInv, TypeOK, ProviderInv, Sent
    <3>3. /\ [op |-> "reserve", order |-> o, to |-> "withdrawals"] \in journal'
          /\ journal \subseteq journal'
          /\ \A k \in journal' : k \in journal \/ k = [op |-> "reserve", order |-> o, to |-> "withdrawals"]
      BY <2>1, PostEffect
    <3>4. phase[o] = "open"
      BY <2>1, <2>3, <3>1, <3>2 DEF phase
    <3>5. phase' = [phase EXCEPT ![o] = "held"]
      <4>1. \A p \in Orders : /\ Returned(p)' <=> Returned(p)
                              /\ Paid(p)' <=> Paid(p)
        BY <3>3 DEF Returned, Paid, Releases
      <4>2. Posted("reserve", o)'
        BY <3>3 DEF Posted
      <4>3. ASSUME NEW p \in Orders, p # o PROVE Posted("reserve", p)' <=> Posted("reserve", p)
        BY <3>3, <4>3 DEF Posted
      <4>4. payout'[o] # "finished" /\ \A p \in Orders : payout'[p] = payout[p]
        BY <2>1, <3>2
      <4>5. phase'[o] = "held"
        BY <2>1, <3>1, <4>1, <4>2, <4>4 DEF phase
      <4>6. ASSUME NEW p \in Orders, p # o PROVE phase'[p] = phase[p]
        BY <4>1, <4>3, <4>4, <4>6 DEF phase
      <4> QED BY <2>1, <4>5, <4>6 DEF phase
    <3> QED BY <2>1, <3>4, <3>5 DEF Contract!Next, Contract!Hold, Contract!Move
  <2> QED BY <2>2, <2>3
<1>2. ASSUME NEW w \in Workers, RefundRefused(w) PROVE [Contract!Next]_phase
  <2>1. Job(w) \in Orders
    BY <1>2 DEF RefundRefused, IInv, TypeOK, At, Job, Procs
  <2>2. CASE Refundable(Job(w))
    <3>1. /\ Post("provider-reject", Job(w), "available") /\ status[Job(w)] \in Held
          /\ UNCHANGED payout
      BY <1>2, <2>2 DEF RefundRefused, Refundable, Held
    <3>2. payout[Job(w)] # "finished"
      BY <1>2, <2>1, <2>2 DEF RefundRefused, Refundable, At, Job, Procs, IInv, SafeInv, TypeOK, WorkerInv, ProviderInv
    <3> QED BY <2>1, <3>1, <3>2, ReleaseMoves DEF Contract!Next
  <2>3. CASE ~Refundable(Job(w))
    BY <1>2, <2>3, PhaseKept DEF RefundRefused
  <2> QED BY <2>2, <2>3
<1>3. ASSUME NEW r \in Reconcilers, SettlePayout(r) PROVE [Contract!Next]_phase
  <2> DEFINE to == IF proc[r].note = "finished" THEN "external" ELSE "available"
  <2>1. Job(r) \in Orders /\ payout[Job(r)] = proc[r].note
    BY <1>3 DEF SettlePayout, IInv, SafeInv, TypeOK, ReconcilerInv, At, Job, Procs
  <2>2. CASE status[Job(r)] \in Settleable
    <3>1. Post("settle", Job(r), to) /\ status[Job(r)] \in Held /\ UNCHANGED payout
      BY <1>3, <2>2 DEF SettlePayout, Settleable, Held
    <3> QED BY <2>1, <3>1, ReleaseMoves DEF Contract!Next
  <2>3. CASE status[Job(r)] \notin Settleable
    BY <1>3, <2>3, PhaseKept DEF SettlePayout
  <2> QED BY <2>2, <2>3
<1>4. ASSUME NEW o \in Orders, Reject(o) PROVE [Contract!Next]_phase
  <2>1. Post("reject", o, "available") /\ status[o] \in Held /\ UNCHANGED payout
    BY <1>4 DEF Reject, Held
  <2>2. payout[o] # "finished"
    BY <1>4 DEF Reject, IInv, SafeInv, TypeOK, ProviderInv, Sent
  <2> QED BY <2>1, <2>2, ReleaseMoves DEF Contract!Next
<1> QED BY <1>1, <1>2, <1>3, <1>4 DEF PostingStep

(* Every order keeps the contract: its money is returned or delivered, never both. *)
THEOREM Refinement == Spec => ImplementsContract
<1>1. Init => Contract!Init
  <2> SUFFICES ASSUME Init PROVE phase = [o \in Orders |-> "open"]
    BY DEF Contract!Init
  <2> QED BY DEF Init, phase, Returned, Paid, Posted
<1>2. IInv /\ [Next]_vars => [Contract!Next]_phase
  <2>1. ASSUME UNCHANGED vars PROVE UNCHANGED phase
    BY <2>1, PhaseKept DEF vars, ledgerVars, providerVars
  <2> QED BY <2>1, NextCases, UnpostedRefines, PostingRefines
<1> QED BY <1>1, <1>2, Invariance, PTL DEF Spec, ImplementsContract, Contract!Spec

-----------------------------------------------------------------------------
(* Deposits, for every set of orders and of reconcilers, every limit and every set of
   statuses that the payments pass through. *)

(* The sum is the same operator in both modules. *)
LEMMA OneSum == ASSUME NEW f, NEW S PROVE D!SumFunctionOnSet(f, S) = SumFunctionOnSet(f, S)
BY DEF D!SumFunctionOnSet, D!FoldFunctionOnSet, D!MapThenFoldSet,
       SumFunctionOnSet, FoldFunctionOnSet, MapThenFoldSet

-----------------------------------------------------------------------------
(* The inductive invariant of the deposits. *)

Payments        == {"waiting", "partially_paid", "confirming", "confirmed", "sending", "finished",
                    "expired", "failed", "refunded"}
DepositStatuses == {"absent", "created", "submitting", "uncertain", "rejected", "waiting", "partially_paid",
                    "confirming", "confirmed", "sending", "expired", "failed", "refunded"}
OrderTyped ==
    /\ dstatus \in [DepositOrders -> DepositStatuses]
    /\ dprovider \in [DepositOrders -> DepositOrders \cup {None}]
    /\ requests \subseteq [order : DepositOrders, total : Nat]
    /\ submit \in [DepositOrders -> {"idle", "claimed", "calling", "created", "refused", "unresolved"}]
    /\ dproposals \subseteq [order : DepositOrders, provider : DepositOrders]
MoneyTyped ==
    /\ credited \in [DepositOrders -> Nat]
    /\ djournal \subseteq DepositOrders /\ available \in Nat
RunTyped ==
    /\ inbox \subseteq DepositOrders \X Reports
    /\ run \in [DepositReconcilers ->
                  [pc : {"idle", "asking", "answered", "marking"}, order : DepositOrders \cup {None},
                   event : Reports \cup {"none"}, answer : Payments \cup {"none"}]]
    /\ \A r \in DepositReconcilers : run[r].pc # "idle" => run[r].order \in DepositOrders
ProviderTyped ==
    /\ call \in [DepositOrders -> {"none", "inflight", "created", "refused"}]
    /\ created \in [DepositOrders -> Nat]
    /\ payment \in [DepositOrders -> Payments \cup {"none"}]
    /\ settled \in [DepositOrders -> Nat]
DepositTyped == OrderTyped /\ MoneyTyped /\ RunTyped /\ ProviderTyped

(* A call is made once, by the one submission of the order, and what became of the
   order and of its payment follow from it. *)
PaymentInv ==
    \A o \in DepositOrders :
        /\ dstatus[o] \in {"absent", "created"} => submit[o] = "idle" /\ call[o] = "none"
        /\ dstatus[o] = "rejected" => call[o] = "refused"
        /\ dstatus[o] \in D!Dead => payment[o] = dstatus[o]
        /\ submit[o] = "claimed" => call[o] = "none"
        /\ submit[o] = "refused" => call[o] = "refused"
        /\ created[o] = IF call[o] = "created" THEN 1 ELSE 0
        /\ payment[o] # "none" <=> call[o] = "created"
        /\ dprovider[o] \in {None, o}

(* An answer is of a payment that exists; if it is a last one, it still holds. *)
AnswerInv ==
    \A r \in DepositReconcilers : run[r].pc = "answered" =>
        /\ run[r].answer # "none" /\ payment[run[r].order] # "none"
        /\ run[r].answer \in D!Dead \cup {"finished"} => payment[run[r].order] = run[r].answer

(* The journals are those of the confirmed orders, and their sum was credited. *)
LedgerInv ==
    /\ djournal = {o \in DepositOrders : dstatus[o] = "confirmed"}
    /\ \A o \in djournal : payment[o] = "finished" /\ credited[o] = settled[o] /\ settled[o] > 0
    /\ available = SumFunctionOnSet(settled, djournal) /\ recharged = available

(* What an open request read is no less than what is asked for until it ends. *)
Asked  == {o \in DepositOrders : dstatus[o] # "absent"}
Live   == {o \in D!Counted : payment[o] \notin D!Dead}
RequestInv ==
    /\ IsFiniteSet(Asked)
    /\ \A t1, t2 \in requests : t1 = t2
    /\ \A t \in requests : SumFunctionOnSet(DepositAmount, Live) <= t.total
    /\ SumFunctionOnSet(DepositAmount, Live) <= Limit

DepositInv == DepositTyped /\ PaymentInv /\ AnswerInv /\ LedgerInv /\ RequestInv

-----------------------------------------------------------------------------
(* The statuses of a payment. *)
LEMMA Ranks == DOMAIN D!Rank = Payments
BY DEF D!Rank, Payments

(* The amounts asked for are natural numbers, and so is their sum. *)
LEMMA LiveSum ==
    ASSUME D!DepositAssumption, RequestInv
    PROVE  /\ \A o \in DepositOrders : DepositAmount[o] \in Nat /\ DepositAmount[o] \in Int
           /\ IsFiniteSet(D!Counted) /\ IsFiniteSet(Live) /\ Live \subseteq D!Counted /\ Live \subseteq Asked
           /\ SumFunctionOnSet(DepositAmount, Live) \in Nat
<1>1. \A o \in DepositOrders : DepositAmount[o] \in Nat /\ DepositAmount[o] \in Int
                               /\ DepositAmount[o] <= DepositAmount[o]
  BY DEF D!DepositAssumption
<1>2. Live \subseteq D!Counted /\ Live \subseteq Asked /\ D!Counted \subseteq Asked /\ Live \subseteq DepositOrders
  BY DEF Live, Asked, D!Counted, D!Dropped
<1>3. IsFiniteSet(D!Counted) /\ IsFiniteSet(Live)
  BY <1>2, FS_Subset DEF RequestInv
<1>4. SumFunctionOnSet(DepositAmount, Live) \in Nat
  <2>1. \A o \in Live : DepositAmount[o] \in Nat /\ DepositAmount[o] <= DepositAmount[o]
    BY <1>1, <1>2
  <2> QED
    BY <1>3, <2>1, SumGrows
<1> QED
  BY <1>1, <1>2, <1>3, <1>4

(* A step that credits nothing, opens and ends no request, and neither brings back
   what does not count any more nor touches a payment that was credited. *)
Steady ==
    /\ \A o \in DepositOrders :
         /\ dstatus'[o] = "confirmed" <=> dstatus[o] = "confirmed"
         /\ dstatus'[o] # "absent" => dstatus[o] # "absent"
         /\ o \in Live' => o \in Live
         /\ o \in djournal => payment'[o] = payment[o] /\ settled'[o] = settled[o]
    /\ UNCHANGED <<credited, djournal, available, recharged, requests>>

LEMMA SteadyKeeps ==
    ASSUME D!DepositAssumption, DepositInv, Steady
    PROVE  LedgerInv' /\ RequestInv'
<1>1. DepositTyped /\ LedgerInv /\ RequestInv
  BY DEF DepositInv
<1>2. LedgerInv'
  <2>1. djournal' = {o \in DepositOrders : dstatus'[o] = "confirmed"}
    BY <1>1 DEF LedgerInv, Steady
  <2>2. djournal \subseteq DepositOrders /\ \A o \in djournal : settled[o] \in Int
    BY <1>1 DEF DepositTyped, MoneyTyped, ProviderTyped
  <2>3. \A o \in djournal : payment'[o] = payment[o] /\ settled'[o] = settled[o]
    BY <2>2 DEF Steady
  <2>4. IsFiniteSet(djournal)
    <3>1. djournal \subseteq Asked
      BY <1>1 DEF LedgerInv, Asked
    <3> QED
      BY <1>1, <3>1, FS_Subset DEF RequestInv
  <2>5. SumFunctionOnSet(settled', djournal) = SumFunctionOnSet(settled, djournal)
    BY <2>2, <2>3, <2>4, SumSame
  <2> QED
    BY <1>1, <2>1, <2>3, <2>5 DEF LedgerInv, Steady
<1>3. RequestInv'
  <2>1. Asked' \subseteq Asked /\ Live' \subseteq Live
    BY DEF Steady, Asked, Live, D!Counted
  <2>2. IsFiniteSet(Asked')
    BY <1>1, <2>1, FS_Subset DEF RequestInv
  <2>3. \A o \in Live : DepositAmount[o] \in Nat /\ DepositAmount[o] <= DepositAmount[o]
    BY <1>1, LiveSum DEF Live, D!Counted
  <2>4. /\ SumFunctionOnSet(DepositAmount, Live') \in Nat /\ SumFunctionOnSet(DepositAmount, Live) \in Nat
        /\ SumFunctionOnSet(DepositAmount, Live') <= SumFunctionOnSet(DepositAmount, Live)
    BY <1>1, <2>1, <2>3, LiveSum, SumGrows
  <2>5. ASSUME NEW n \in Nat, SumFunctionOnSet(DepositAmount, Live) <= n
        PROVE  SumFunctionOnSet(DepositAmount, Live') <= n
    BY <2>4, <2>5
  <2>6. Limit \in Nat /\ \A t \in requests : t.total \in Nat
    BY <1>1 DEF D!DepositAssumption, DepositTyped, OrderTyped
  <2>7. requests' = requests
    BY DEF Steady
  <2> QED
    BY <1>1, <2>2, <2>5, <2>6, <2>7 DEF RequestInv
<1> QED
  BY <1>2, <1>3

-----------------------------------------------------------------------------
(* The requests of the player. *)

(* The request reads no less than what is asked for. *)
LEMMA RequestBegins ==
    ASSUME D!DepositAssumption, DepositInv, NEW o \in DepositOrders, D!BeginRequest(o)
    PROVE  DepositInv'
<1>0. DepositTyped /\ PaymentInv /\ AnswerInv /\ LedgerInv /\ RequestInv
  BY DEF DepositInv
<1> DEFINE total == SumFunctionOnSet(D!charge, D!Counted)
<1>1. requests' = {[order |-> o, total |-> total]}
  BY OneSum DEF D!BeginRequest
<1>2. UNCHANGED <<dstatus, dprovider, submit, dproposals, inbox, run, credited, djournal, available, recharged,
                  call, created, payment, settled>>
  BY DEF D!BeginRequest, D!ipnVars, D!moneyVars, D!providerVars
<1>3. total \in Nat /\ SumFunctionOnSet(DepositAmount, Live) <= total
  <2>1. \A p \in D!Counted : /\ D!charge[p] \in Nat /\ DepositAmount[p] \in Nat
                             /\ DepositAmount[p] <= D!charge[p]
    <3> SUFFICES ASSUME NEW p \in D!Counted
                 PROVE  D!charge[p] \in Nat /\ DepositAmount[p] \in Nat /\ DepositAmount[p] <= D!charge[p]
      OBVIOUS
    <3>1. p \in DepositOrders /\ credited[p] \in Nat /\ DepositAmount[p] \in Nat
      BY <1>0, LiveSum DEF D!Counted, DepositTyped, MoneyTyped
    <3>2. D!charge[p] = IF DepositAmount[p] > credited[p] THEN DepositAmount[p] ELSE credited[p]
      BY <3>1 DEF D!charge, D!Larger
    <3> QED
      BY <3>1, <3>2
  <2>2. IsFiniteSet(D!Counted) /\ Live \subseteq D!Counted
    BY <1>0, LiveSum
  <2> HIDE DEF total
  <2>3. /\ SumFunctionOnSet(D!charge, D!Counted) \in Nat
        /\ SumFunctionOnSet(DepositAmount, Live) <= SumFunctionOnSet(D!charge, D!Counted)
    BY <2>1, <2>2, SumGrows
  <2> QED
    BY <2>3 DEF total
<1> HIDE DEF total
<1>4. DepositTyped'
  BY <1>0, <1>1, <1>2, <1>3 DEF DepositTyped, OrderTyped, MoneyTyped, RunTyped, ProviderTyped
<1>5. PaymentInv' /\ AnswerInv' /\ LedgerInv'
  BY <1>0, <1>2 DEF PaymentInv, AnswerInv, LedgerInv
<1>6. RequestInv'
  <2>1. Live' = Live /\ Asked' = Asked
    BY <1>2 DEF Live, Asked, D!Counted
  <2> QED
    BY <1>0, <1>1, <1>3, <2>1 DEF RequestInv
<1> QED
  BY <1>4, <1>5, <1>6 DEF DepositInv

(* The request that is open is the only one, and it keeps to the limit. *)
LEMMA RequestEnds ==
    ASSUME D!DepositAssumption, DepositInv, NEW t \in requests, D!EndRequest(t)
    PROVE  DepositInv'
<1>0. DepositTyped /\ PaymentInv /\ AnswerInv /\ LedgerInv /\ RequestInv
  BY DEF DepositInv
<1>1. requests' = {}
  BY <1>0 DEF D!EndRequest, RequestInv
<1>2. UNCHANGED <<dprovider, submit, dproposals, inbox, run, credited, djournal, available, recharged,
                  call, created, payment, settled>>
  BY DEF D!EndRequest, D!ipnVars, D!moneyVars, D!providerVars
<1>3. t.order \in DepositOrders /\ t.total \in Nat /\ SumFunctionOnSet(DepositAmount, Live) <= t.total
  BY <1>0 DEF DepositTyped, OrderTyped, RequestInv
<1> DEFINE o == t.order
           adds == t.total + DepositAmount[o] <= Limit /\ dstatus[o] = "absent"
                   /\ dstatus' = [dstatus EXCEPT ![o] = "created"]
<1>4. adds \/ dstatus' = dstatus
  BY <1>0, <1>3 DEF D!EndRequest, D!Cas, DepositTyped, OrderTyped
<1>5. CASE dstatus' = dstatus
  <2>1. Live' = Live /\ Asked' = Asked
    BY <1>2, <1>5 DEF Live, Asked, D!Counted
  <2>2. DepositTyped' /\ PaymentInv' /\ AnswerInv' /\ LedgerInv'
    BY <1>0, <1>1, <1>2, <1>5 DEF DepositTyped, OrderTyped, MoneyTyped, RunTyped, ProviderTyped,
       PaymentInv, AnswerInv, LedgerInv
  <2>3. RequestInv'
    BY <1>0, <1>1, <2>1 DEF RequestInv
  <2> QED
    BY <2>2, <2>3 DEF DepositInv
<1>6. CASE adds
  <2>1. dstatus'[o] = "created" /\ \A p \in DepositOrders \ {o} : dstatus'[p] = dstatus[p]
    BY <1>0, <1>3, <1>6 DEF DepositTyped, OrderTyped
  <2>2. DepositTyped'
    BY <1>0, <1>1, <1>2, <1>6 DEF DepositTyped, OrderTyped, MoneyTyped, RunTyped, ProviderTyped, DepositStatuses
  <2>3. PaymentInv' /\ AnswerInv'
    BY <1>0, <1>2, <1>3, <1>6, <2>1 DEF PaymentInv, AnswerInv, D!Dead
  <2>4. LedgerInv'
    <3>1. {p \in DepositOrders : dstatus'[p] = "confirmed"} = {p \in DepositOrders : dstatus[p] = "confirmed"}
      BY <1>3, <1>6, <2>1
    <3> QED
      BY <1>0, <1>2, <3>1 DEF LedgerInv
  <2>5. RequestInv'
    <3>1. Asked' = Asked \cup {o} /\ o \notin Asked
      BY <1>3, <1>6, <2>1 DEF Asked
    <3>2. Live' = Live \cup {o} /\ o \notin Live
      <4>1. payment[o] \notin D!Dead
        BY <1>0, <1>3, <1>6 DEF PaymentInv, D!Dead
      <4> QED
        BY <1>2, <1>3, <1>6, <2>1, <4>1 DEF Live, D!Counted, D!Dropped
    <3>3. IsFiniteSet(Asked')
      BY <1>0, <3>1, FS_AddElement DEF RequestInv
    <3>4. /\ IsFiniteSet(Live) /\ \A p \in Live : DepositAmount[p] \in Int
          /\ SumFunctionOnSet(DepositAmount, Live) \in Nat /\ DepositAmount[o] \in Nat /\ DepositAmount[o] \in Int
      BY <1>0, <1>3, LiveSum DEF Live, D!Counted
    <3>5. SumFunctionOnSet(DepositAmount, Live') = SumFunctionOnSet(DepositAmount, Live) + DepositAmount[o]
      BY <3>2, <3>4, SumAdd
    <3>6. SumFunctionOnSet(DepositAmount, Live') <= Limit
      <4>1. Limit \in Nat /\ t.total + DepositAmount[o] <= Limit
        BY <1>6 DEF D!DepositAssumption
      <4> HIDE DEF o, adds
      <4> QED
        BY <1>3, <3>4, <3>5, <4>1
    <3> QED
      BY <1>1, <3>3, <3>6 DEF RequestInv
  <2> QED
    BY <2>2, <2>3, <2>4, <2>5 DEF DepositInv
<1> QED
  BY <1>4, <1>5, <1>6

-----------------------------------------------------------------------------
(* The submission of an order. *)
Kept == DepositTyped' /\ PaymentInv' /\ AnswerInv' /\ Steady

(* A step that moves the status of one order to one that counts or not as before. *)
LEMMA StatusSteady ==
    ASSUME NEW o, UNCHANGED <<requests, credited, djournal, available, recharged, payment, settled>>,
           \A p \in DepositOrders \ {o} : dstatus'[p] = dstatus[p],
           o \in DepositOrders =>
             \/ dstatus'[o] = dstatus[o]
             \/ /\ dstatus[o] \notin {"absent", "confirmed"} \cup D!Dropped /\ dstatus'[o] # "confirmed"
    PROVE  Steady
BY DEF Steady, Live, D!Counted, D!Dropped

LEMMA SubmitKeeps ==
    ASSUME D!DepositAssumption, DepositInv, NEW o \in DepositOrders, D!SubmitStep(o)
    PROVE  Kept
<1>0. DepositTyped /\ PaymentInv /\ AnswerInv /\ LedgerInv /\ RequestInv
  BY DEF DepositInv
<1> USE DEF D!ipnVars, D!moneyVars, D!providerVars, DepositTyped, D!Cas
<1>1. CASE D!ClaimDeposit(o)
  <2>1. DepositTyped'
    BY <1>0, <1>1 DEF D!ClaimDeposit, OrderTyped, MoneyTyped, RunTyped, ProviderTyped, DepositStatuses
  <2>2. PaymentInv' /\ AnswerInv'
    BY <1>0, <1>1 DEF D!ClaimDeposit, PaymentInv, AnswerInv, OrderTyped, D!Dead
  <2>3. Steady
    BY <1>0, <1>1, StatusSteady DEF D!ClaimDeposit, OrderTyped, D!Dropped
  <2> QED BY <2>1, <2>2, <2>3 DEF Kept
<1>2. CASE D!CreateDeposit(o)
  <2>1. DepositTyped'
    BY <1>0, <1>2 DEF D!CreateDeposit, OrderTyped, MoneyTyped, RunTyped, ProviderTyped
  <2>2. PaymentInv' /\ AnswerInv'
    BY <1>0, <1>2 DEF D!CreateDeposit, PaymentInv, AnswerInv, OrderTyped, ProviderTyped
  <2>3. Steady
    BY <1>2, StatusSteady DEF D!CreateDeposit
  <2> QED BY <2>1, <2>2, <2>3 DEF Kept
<1>3. CASE D!ReceiveReply(o)
  <2>1. DepositTyped'
    BY <1>0, <1>3 DEF D!ReceiveReply, OrderTyped, MoneyTyped, RunTyped, ProviderTyped
  <2>2. PaymentInv' /\ AnswerInv'
    BY <1>0, <1>3 DEF D!ReceiveReply, PaymentInv, AnswerInv, OrderTyped
  <2>3. Steady
    BY <1>3, StatusSteady DEF D!ReceiveReply
  <2> QED BY <2>1, <2>2, <2>3 DEF Kept
<1>4. CASE D!StorePayment(o)
  <2>1. DepositTyped'
    BY <1>0, <1>4 DEF D!StorePayment, OrderTyped, MoneyTyped, RunTyped, ProviderTyped, DepositStatuses
  <2>2. PaymentInv' /\ AnswerInv'
    BY <1>0, <1>4 DEF D!StorePayment, PaymentInv, AnswerInv, OrderTyped, D!Dead
  <2>3. Steady
    BY <1>0, <1>4, StatusSteady DEF D!StorePayment, OrderTyped, D!Dropped
  <2> QED BY <2>1, <2>2, <2>3 DEF Kept
<1>5. CASE D!CloseSubmission(o)
  <2>1. DepositTyped'
    BY <1>0, <1>5 DEF D!CloseSubmission, OrderTyped, MoneyTyped, RunTyped, ProviderTyped, DepositStatuses
  <2>2. PaymentInv' /\ AnswerInv'
    BY <1>0, <1>5 DEF D!CloseSubmission, PaymentInv, AnswerInv, OrderTyped, D!Dead
  <2>3. Steady
    BY <1>0, <1>5, StatusSteady DEF D!CloseSubmission, OrderTyped, D!Dropped
  <2> QED BY <2>1, <2>2, <2>3 DEF Kept
<1>6. CASE D!WorkerDies(o)
  <2>1. DepositTyped'
    BY <1>0, <1>6 DEF D!WorkerDies, OrderTyped, MoneyTyped, RunTyped, ProviderTyped
  <2>2. PaymentInv' /\ AnswerInv'
    BY <1>0, <1>6 DEF D!WorkerDies, PaymentInv, AnswerInv, OrderTyped
  <2>3. Steady
    BY <1>6, StatusSteady DEF D!WorkerDies
  <2> QED BY <2>1, <2>2, <2>3 DEF Kept
<1> QED
  BY <1>1, <1>2, <1>3, <1>4, <1>5, <1>6 DEF D!SubmitStep

-----------------------------------------------------------------------------
(* The tick, the administration and the provider. *)
LEMMA TickKeeps ==
    ASSUME D!DepositAssumption, DepositInv, D!TickStep
    PROVE  Kept
<1>0. DepositTyped /\ PaymentInv /\ AnswerInv /\ LedgerInv /\ RequestInv
  BY DEF DepositInv
<1> USE DEF D!ipnVars, D!moneyVars, D!providerVars, DepositTyped
<1>1. ASSUME NEW o \in DepositOrders, D!SubmissionTimedOut(o) PROVE Kept
  <2>1. DepositTyped'
    BY <1>0, <1>1 DEF D!SubmissionTimedOut, OrderTyped, MoneyTyped, RunTyped, ProviderTyped, DepositStatuses, D!Cas
  <2>2. PaymentInv' /\ AnswerInv'
    BY <1>0, <1>1 DEF D!SubmissionTimedOut, PaymentInv, AnswerInv, OrderTyped, D!Dead, D!Cas
  <2>3. Steady
    BY <1>0, <1>1, StatusSteady DEF D!SubmissionTimedOut, OrderTyped, D!Dropped, D!Cas
  <2> QED BY <2>1, <2>2, <2>3 DEF Kept
<1>2. ASSUME NEW q \in dproposals, D!ResolveUncertain(q) PROVE Kept
  <2>1. q.order \in DepositOrders /\ q.provider \in DepositOrders
    BY <1>0 DEF OrderTyped
  <2>2. \/ dprovider' = dprovider
        \/ dprovider' = [dprovider EXCEPT ![q.order] = q.order]
    BY <1>2 DEF D!ResolveUncertain, D!IdentityMatches
  <2>3. UNCHANGED <<dstatus, requests, submit, inbox, run, credited, djournal, available, recharged,
                    call, created, payment, settled>> /\ dproposals' \subseteq dproposals
    BY <1>2 DEF D!ResolveUncertain
  <2>4. DepositTyped'
    BY <1>0, <2>1, <2>2, <2>3 DEF OrderTyped, MoneyTyped, RunTyped, ProviderTyped
  <2>5. PaymentInv' /\ AnswerInv'
    BY <1>0, <2>1, <2>2, <2>3 DEF PaymentInv, AnswerInv, OrderTyped
  <2>6. Steady
    BY <2>3, StatusSteady
  <2> QED BY <2>4, <2>5, <2>6 DEF Kept
<1> QED
  BY <1>1, <1>2 DEF D!TickStep

LEMMA OutsideKeeps ==
    ASSUME D!DepositAssumption, DepositInv, D!OutsideStep
    PROVE  Kept
<1>0. DepositTyped /\ PaymentInv /\ AnswerInv /\ LedgerInv /\ RequestInv
  BY DEF DepositInv
<1> USE DEF D!ipnVars, D!moneyVars, D!providerVars, DepositTyped
<1>1. ASSUME NEW o \in DepositOrders, NEW p \in DepositOrders, D!ProposeProviderId(o, p) PROVE Kept
  <2>1. DepositTyped'
    BY <1>0, <1>1 DEF D!ProposeProviderId, OrderTyped, MoneyTyped, RunTyped, ProviderTyped
  <2>2. PaymentInv' /\ AnswerInv'
    BY <1>0, <1>1 DEF D!ProposeProviderId, PaymentInv, AnswerInv
  <2>3. Steady
    BY <1>1, StatusSteady DEF D!ProposeProviderId
  <2> QED BY <2>1, <2>2, <2>3 DEF Kept
<1>2. ASSUME NEW o \in DepositOrders, D!ProviderAnswers(o) PROVE Kept
  <2>1. payment[o] = "none" /\ created[o] = 0
    BY <1>0, <1>2 DEF D!ProviderAnswers, PaymentInv
  <2>2. UNCHANGED <<dstatus, dprovider, requests, submit, dproposals, inbox, run, credited, djournal, available,
                    recharged, settled>>
    BY <1>2 DEF D!ProviderAnswers
  <2>3. \/ /\ call' = [call EXCEPT ![o] = "created"]
           /\ created' = [created EXCEPT ![o] = 1]
           /\ payment' = [payment EXCEPT ![o] = "waiting"]
        \/ call' = [call EXCEPT ![o] = "refused"] /\ UNCHANGED <<created, payment>>
    BY <1>0, <1>2, <2>1 DEF D!ProviderAnswers, ProviderTyped
  <2>4. DepositTyped'
    BY <1>0, <2>2, <2>3 DEF OrderTyped, MoneyTyped, RunTyped, ProviderTyped, Payments
  <2>5. call[o] = "inflight"
    BY <1>2 DEF D!ProviderAnswers
  <2>6. PaymentInv'
    BY <1>0, <2>1, <2>2, <2>3, <2>5 DEF PaymentInv, ProviderTyped, D!Dead
  <2>7. AnswerInv'
    BY <1>0, <2>1, <2>2, <2>3 DEF AnswerInv, ProviderTyped, RunTyped, D!Dead
  <2>8. Steady
    <3>1. \A p \in DepositOrders : payment'[p] = payment[p] \/ (p = o /\ payment[p] = "none")
      BY <1>0, <2>1, <2>3 DEF ProviderTyped
    <3>2. o \notin djournal
      BY <1>0, <2>1 DEF LedgerInv
    <3> QED
      BY <2>2, <3>1, <3>2 DEF Steady, Live, D!Counted, D!Dead
  <2> QED BY <2>4, <2>6, <2>7, <2>8 DEF Kept
<1>3. ASSUME NEW o \in DepositOrders, D!PaymentMoves(o) PROVE Kept
  <2>1. payment[o] \notin D!Dead \cup {"none", "finished"}
    BY <1>3 DEF D!PaymentMoves, D!Final
  <2>2. UNCHANGED <<dstatus, dprovider, requests, submit, dproposals, inbox, run, credited, djournal, available,
                    recharged, call, created>>
    BY <1>3 DEF D!PaymentMoves
  <2>3. PICK s \in Reports : payment' = [payment EXCEPT ![o] = s]
                             /\ (settled' = settled \/ \E amount \in Outcomes : settled' = [settled EXCEPT ![o] = amount])
    BY <1>3 DEF D!PaymentMoves
  <2>4. s \in Payments /\ Outcomes \subseteq Nat
    BY Ranks DEF D!DepositAssumption
  <2>5. payment'[o] = s /\ \A p \in DepositOrders \ {o} : payment'[p] = payment[p] /\ settled'[p] = settled[p]
    BY <1>0, <2>3 DEF ProviderTyped
  <2>6. DepositTyped'
    <3>1. ProviderTyped'
      BY <1>0, <2>2, <2>3, <2>4 DEF ProviderTyped
    <3> QED
      BY <1>0, <2>2, <3>1 DEF OrderTyped, MoneyTyped, RunTyped
  <2>7. PaymentInv'
    BY <1>0, <2>1, <2>2, <2>4, <2>5 DEF PaymentInv, Payments, D!Dead
  <2>8. AnswerInv'
    <3>1. s # "none"
      BY <2>4 DEF Payments
    <3> QED
      BY <1>0, <2>1, <2>2, <2>5, <3>1 DEF AnswerInv, RunTyped
  <2>9. Steady
    <3>1. o \notin djournal
      BY <1>0, <2>1 DEF LedgerInv
    <3>2. \A p \in DepositOrders : p \in Live' => p \in Live
      BY <2>1, <2>2, <2>5 DEF Live, D!Counted
    <3> QED
      BY <2>2, <2>5, <3>1, <3>2 DEF Steady
  <2> QED BY <2>6, <2>7, <2>8, <2>9 DEF Kept
<1>4. ASSUME NEW o \in DepositOrders, D!ReceiveIpn(o) PROVE Kept
  <2>1. DepositTyped'
    BY <1>0, <1>4 DEF D!ReceiveIpn, OrderTyped, MoneyTyped, RunTyped, ProviderTyped
  <2>2. PaymentInv' /\ AnswerInv'
    BY <1>0, <1>4 DEF D!ReceiveIpn, PaymentInv, AnswerInv
  <2>3. Steady
    BY <1>4, StatusSteady DEF D!ReceiveIpn
  <2> QED BY <2>1, <2>2, <2>3 DEF Kept
<1> QED
  BY <1>1, <1>2, <1>3, <1>4 DEF D!OutsideStep

-----------------------------------------------------------------------------
(* The runs of reconcileDeposit. *)

(* A step of the run alone, which answers nothing new. *)
LEMMA RunKeeps ==
    ASSUME DepositInv, RunTyped', NEW r \in DepositReconcilers,
           UNCHANGED <<dstatus, dprovider, requests, submit, dproposals, credited, djournal, available,
                       recharged, call, created, payment, settled>>,
           run'[r].pc # "answered",
           \A q \in DepositReconcilers \ {r} : run'[q] = run[q]
    PROVE  Kept
<1>0. DepositTyped /\ PaymentInv /\ AnswerInv
  BY DEF DepositInv
<1>1. DepositTyped' /\ PaymentInv'
  BY <1>0 DEF DepositTyped, OrderTyped, MoneyTyped, ProviderTyped, PaymentInv
<1>2. AnswerInv'
  BY <1>0 DEF AnswerInv
<1>3. Steady
  BY StatusSteady
<1> QED BY <1>1, <1>2, <1>3 DEF Kept

LEMMA RecordKeeps ==
    ASSUME D!DepositAssumption, DepositInv, NEW r \in DepositReconcilers, D!RecordStatus(r)
    PROVE  Kept
<1>0. DepositTyped /\ PaymentInv /\ AnswerInv /\ LedgerInv /\ RequestInv
  BY DEF DepositInv
<1> DEFINE o == run[r].order
           s == run[r].answer
           next == IF s = "confirmed" THEN "confirming" ELSE s
<1>1. /\ run[r].pc = "answered" /\ s # "finished"
      /\ \/ /\ dstatus[o] # "confirmed"
            /\ dstatus' = [dstatus EXCEPT ![o] = next]
            /\ dprovider' = [dprovider EXCEPT ![o] = o]
         \/ UNCHANGED <<dstatus, dprovider>>
      /\ UNCHANGED <<requests, submit, dproposals, inbox, credited, djournal, available, recharged,
                     call, created, payment, settled>>
  BY DEF D!RecordStatus, D!ipnVars, D!moneyVars, D!providerVars
<1>2. run' = [run EXCEPT ![r] = IF @.event = "none" THEN D!Resting ELSE [@ EXCEPT !.pc = "marking"]]
  BY DEF D!RecordStatus, D!Reconciled
<1>3. /\ o \in DepositOrders /\ s \in Payments /\ payment[o] # "none"
      /\ s \in D!Dead => payment[o] = s
  BY <1>0, <1>1 DEF DepositTyped, RunTyped, AnswerInv
<1>4. /\ next \in DepositStatuses \ {"absent", "created", "rejected", "confirmed"}
      /\ next \in D!Dead => payment[o] = next
  BY <1>1, <1>3 DEF Payments, DepositStatuses, D!Dead
<1>5. call[o] = "created" /\ dstatus[o] \notin {"absent", "created", "rejected"}
      /\ (dstatus[o] \in D!Dead => payment[o] = dstatus[o])
  BY <1>0, <1>3 DEF PaymentInv
<1> HIDE DEF o, s, next
<1>6. RunTyped'
  BY <1>0, <1>1, <1>2 DEF DepositTyped, RunTyped, D!Resting
<1>7. AnswerInv'
  BY <1>0, <1>1, <1>2 DEF AnswerInv, DepositTyped, RunTyped, D!Resting
<1>8. DepositTyped'
  BY <1>0, <1>1, <1>3, <1>4, <1>6 DEF DepositTyped, OrderTyped, MoneyTyped, ProviderTyped
<1>9. \/ UNCHANGED <<dstatus, dprovider>>
      \/ /\ dstatus[o] # "confirmed"
         /\ dstatus'[o] = next /\ \A p \in DepositOrders \ {o} : dstatus'[p] = dstatus[p]
         /\ dprovider'[o] = o /\ \A p \in DepositOrders \ {o} : dprovider'[p] = dprovider[p]
  BY <1>0, <1>1, <1>3 DEF DepositTyped, OrderTyped
<1>10. PaymentInv'
  <2>1. CASE UNCHANGED <<dstatus, dprovider>>
    BY <1>0, <1>1, <2>1 DEF PaymentInv
  <2>2. CASE /\ dstatus'[o] = next /\ \A p \in DepositOrders \ {o} : dstatus'[p] = dstatus[p]
             /\ dprovider'[o] = o /\ \A p \in DepositOrders \ {o} : dprovider'[p] = dprovider[p]
    BY <1>0, <1>1, <1>4, <1>5, <2>2 DEF PaymentInv
  <2> QED BY <1>9, <2>1, <2>2
<1>11. Steady
  <2>1. CASE UNCHANGED <<dstatus, dprovider>>
    BY <1>1, <2>1, StatusSteady
  <2>2. CASE /\ dstatus[o] # "confirmed"
             /\ dstatus'[o] = next /\ \A p \in DepositOrders \ {o} : dstatus'[p] = dstatus[p]
    <3>1. o \in Live' => o \in Live
      BY <1>1, <1>3, <1>4, <1>5, <2>2 DEF Live, D!Counted, D!Dropped, D!Dead
    <3>2. \A p \in DepositOrders \ {o} : p \in Live' => p \in Live
      BY <1>1, <2>2 DEF Live, D!Counted
    <3> QED
      BY <1>1, <1>3, <1>4, <1>5, <2>2, <3>1, <3>2 DEF Steady
  <2> QED BY <1>9, <2>1, <2>2
<1> QED
  BY <1>7, <1>8, <1>10, <1>11 DEF Kept

(* A credit confirms an order that was not confirmed, so it has no journal yet, and the
   amount it adds to the account is the one its journal adds to the sum. *)
LEMMA CreditKeeps ==
    ASSUME D!DepositAssumption, DepositInv, NEW r \in DepositReconcilers, D!Credit(r)
    PROVE  DepositInv'
<1>0. DepositTyped /\ PaymentInv /\ AnswerInv /\ LedgerInv /\ RequestInv
  BY DEF DepositInv
<1> DEFINE o == run[r].order
<1>1. /\ run[r].pc = "answered" /\ run[r].answer = "finished" /\ settled[o] > 0
      /\ UNCHANGED <<requests, submit, dproposals, inbox, call, created, payment, settled>>
      /\ run' = [run EXCEPT ![r] = IF @.event = "none" THEN D!Resting ELSE [@ EXCEPT !.pc = "marking"]]
  BY DEF D!Credit, D!ipnVars, D!providerVars, D!Reconciled
<1>2. o \in DepositOrders /\ payment[o] = "finished"
  BY <1>0, <1>1 DEF DepositTyped, RunTyped, AnswerInv
<1>3. settled[o] \in Nat
  BY <1>0, <1>2 DEF DepositTyped, ProviderTyped
<1>4. RunTyped'
  BY <1>0, <1>1 DEF DepositTyped, RunTyped, D!Resting
<1>5. AnswerInv'
  BY <1>0, <1>1 DEF AnswerInv, DepositTyped, RunTyped, D!Resting
<1>6. CASE dstatus[o] = "confirmed"
  <2>1. UNCHANGED <<credited, djournal, available, recharged, dstatus, dprovider>>
    BY <1>6 DEF D!Credit, D!moneyVars
  <2>2. run'[r].pc # "answered" /\ \A q \in DepositReconcilers \ {r} : run'[q] = run[q]
    BY <1>0, <1>1 DEF DepositTyped, RunTyped, D!Resting
  <2>3. Kept
    BY <1>1, <1>4, <2>1, <2>2, RunKeeps
  <2> QED
    BY <2>3, SteadyKeeps DEF Kept, DepositInv
<1>7. CASE dstatus[o] # "confirmed"
  <2>1. o \notin djournal
    BY <1>0, <1>7 DEF LedgerInv
  <2>2. /\ djournal' = djournal \cup {o} /\ available' = available + settled[o]
        /\ recharged' = recharged + settled[o]
        /\ credited' = [credited EXCEPT ![o] = settled[o]]
        /\ dstatus' = [dstatus EXCEPT ![o] = "confirmed"]
        /\ dprovider' = [dprovider EXCEPT ![o] = o]
    BY <1>7, <2>1 DEF D!Credit, D!PostDeposit
  <2>3. call[o] = "created" /\ dstatus[o] \notin {"absent", "created"} \cup D!Dropped
    BY <1>0, <1>2 DEF PaymentInv, D!Dead, D!Dropped
  <2> HIDE DEF o
  <2>4. /\ dstatus'[o] = "confirmed" /\ \A p \in DepositOrders \ {o} : dstatus'[p] = dstatus[p]
        /\ dprovider'[o] = o /\ \A p \in DepositOrders \ {o} : dprovider'[p] = dprovider[p]
        /\ credited'[o] = settled[o] /\ \A p \in DepositOrders \ {o} : credited'[p] = credited[p]
    BY <1>0, <1>2, <2>2 DEF DepositTyped, OrderTyped, MoneyTyped
  <2>5. DepositTyped'
    BY <1>0, <1>1, <1>2, <1>3, <1>4, <2>2
       DEF DepositTyped, OrderTyped, MoneyTyped, ProviderTyped, DepositStatuses
  <2>6. PaymentInv'
    BY <1>0, <1>1, <2>3, <2>4 DEF PaymentInv, D!Dead
  <2>7. LedgerInv'
    <3>1. djournal' = {p \in DepositOrders : dstatus'[p] = "confirmed"}
      BY <1>0, <1>2, <2>2, <2>4 DEF LedgerInv
    <3>2. \A p \in djournal' : payment'[p] = "finished" /\ credited'[p] = settled'[p] /\ settled'[p] > 0
      BY <1>0, <1>1, <1>2, <2>2, <2>4 DEF LedgerInv, o
    <3>3. IsFiniteSet(djournal) /\ \A p \in djournal : settled[p] \in Int
      <4>1. djournal \subseteq Asked /\ djournal \subseteq DepositOrders
        BY <1>0 DEF LedgerInv, Asked
      <4>2. IsFiniteSet(djournal)
        BY <1>0, <4>1, FS_Subset DEF RequestInv
      <4> QED
        BY <1>0, <4>1, <4>2 DEF DepositTyped, ProviderTyped
    <3>4. SumFunctionOnSet(settled, djournal \cup {o}) = SumFunctionOnSet(settled, djournal) + settled[o]
      BY <1>3, <2>1, <3>3, SumAdd DEF o
    <3>5. available = SumFunctionOnSet(settled, djournal) /\ recharged = available
      BY <1>0 DEF LedgerInv
    <3>6. available' = SumFunctionOnSet(settled', djournal')
      BY <1>1, <2>2, <3>4, <3>5 DEF o
    <3>7. recharged' = available'
      BY <2>2, <3>5
    <3> QED
      BY <3>1, <3>2, <3>6, <3>7 DEF LedgerInv
  <2>8. RequestInv'
    <3>1. Asked' = Asked
      BY <1>2, <2>3, <2>4 DEF Asked
    <3>2. Live' = Live
      BY <1>1, <1>2, <2>3, <2>4 DEF Live, D!Counted, D!Dropped
    <3> QED
      BY <1>0, <1>1, <3>1, <3>2 DEF RequestInv
  <2> QED
    BY <1>5, <2>5, <2>6, <2>7, <2>8 DEF DepositInv
<1> QED
  BY <1>6, <1>7

LEMMA ReconcilerKeeps ==
    ASSUME D!DepositAssumption, DepositInv, NEW r \in DepositReconcilers, D!ReconcilerStep(r)
    PROVE  DepositInv'
<1>0. DepositTyped /\ PaymentInv /\ AnswerInv /\ LedgerInv /\ RequestInv
  BY DEF DepositInv
<1>1. SUFFICES ASSUME ~D!Credit(r) PROVE Kept
  BY CreditKeeps, SteadyKeeps DEF Kept, DepositInv
<1> USE DEF D!ipnVars, D!moneyVars, D!providerVars, DepositTyped
<1>2. ASSUME NEW e \in inbox, D!BeginEvent(r, e[1], e[2]) PROVE Kept
  <2>1. e[1] \in DepositOrders /\ e[2] \in Reports
    BY <1>0 DEF RunTyped
  <2>2. run' = [run EXCEPT ![r] = [pc |-> "asking", order |-> e[1], event |-> e[2], answer |-> "none"]]
    BY <1>2 DEF D!BeginEvent, D!Asking
  <2>3. RunTyped'
    BY <1>0, <1>2, <2>1, <2>2 DEF RunTyped, D!BeginEvent
  <2>4. run'[r].pc # "answered" /\ \A q \in DepositReconcilers \ {r} : run'[q] = run[q]
    BY <1>0, <2>2 DEF RunTyped
  <2> QED BY <1>2, <2>3, <2>4, RunKeeps DEF D!BeginEvent
<1>3. ASSUME NEW o \in DepositOrders, D!BeginPoll(r, o) PROVE Kept
  <2>2. run' = [run EXCEPT ![r] = [pc |-> "asking", order |-> o, event |-> "none", answer |-> "none"]]
    BY <1>3 DEF D!BeginPoll, D!Asking
  <2>3. RunTyped'
    BY <1>0, <1>3, <2>2 DEF RunTyped, D!BeginPoll
  <2>4. run'[r].pc # "answered" /\ \A q \in DepositReconcilers \ {r} : run'[q] = run[q]
    BY <1>0, <2>2 DEF RunTyped
  <2> QED BY <1>3, <2>3, <2>4, RunKeeps DEF D!BeginPoll
<1>4. CASE D!AskProvider(r)
  <2> DEFINE found == payment[run[r].order]
  <2>1. run[r].pc = "asking" /\ found # "none"
        /\ UNCHANGED <<dstatus, dprovider, requests, submit, dproposals, inbox, credited, djournal, available,
                       recharged, call, created, payment, settled>>
    BY <1>4 DEF D!AskProvider
  <2>2. run' = [run EXCEPT ![r].pc = "answered", ![r].answer = found]
    BY <1>4 DEF D!AskProvider
  <2>3. run[r].order \in DepositOrders /\ found \in Payments \cup {"none"}
    BY <1>0, <2>1 DEF RunTyped, ProviderTyped
  <2>4. /\ run'[r].pc = "answered" /\ run'[r].answer = found /\ run'[r].order = run[r].order
        /\ \A q \in DepositReconcilers \ {r} : run'[q] = run[q]
    BY <1>0, <2>2 DEF RunTyped
  <2>5. RunTyped'
    <3> HIDE DEF found
    <3> QED BY <1>0, <2>1, <2>2, <2>3 DEF RunTyped
  <2>6. DepositTyped' /\ PaymentInv'
    BY <1>0, <2>1, <2>5 DEF OrderTyped, MoneyTyped, ProviderTyped, PaymentInv
  <2>7. AnswerInv'
    BY <1>0, <2>1, <2>4 DEF AnswerInv
  <2>8. Steady
    BY <2>1, StatusSteady
  <2> QED BY <2>6, <2>7, <2>8 DEF Kept
<1>5. CASE D!RecordStatus(r)
  BY <1>5, RecordKeeps
<1>6. CASE D!MarkProcessed(r)
  <2>1. RunTyped'
    BY <1>0, <1>6 DEF RunTyped, D!MarkProcessed, D!Resting
  <2>2. run'[r].pc # "answered" /\ \A q \in DepositReconcilers \ {r} : run'[q] = run[q]
    BY <1>0, <1>6 DEF RunTyped, D!MarkProcessed, D!Resting
  <2> QED BY <1>6, <2>1, <2>2, RunKeeps DEF D!MarkProcessed
<1>7. CASE D!Abandon(r)
  <2>1. RunTyped'
    BY <1>0, <1>7 DEF RunTyped, D!Abandon, D!Resting
  <2>2. run'[r].pc # "answered" /\ \A q \in DepositReconcilers \ {r} : run'[q] = run[q]
    BY <1>0, <1>7 DEF RunTyped, D!Abandon, D!Resting
  <2> QED BY <1>7, <2>1, <2>2, RunKeeps DEF D!Abandon
<1> QED
  BY <1>1, <1>2, <1>3, <1>4, <1>5, <1>6, <1>7 DEF D!ReconcilerStep

-----------------------------------------------------------------------------
(* The invariant and the properties. *)

(* The invariant of the deposits holds in every state. *)
THEOREM DepositInvariance == ASSUME D!DepositAssumption PROVE D!Spec => []DepositInv
<1>1. D!Init => DepositInv
  <2> SUFFICES ASSUME D!Init PROVE DepositInv
    OBVIOUS
  <2>1. DepositTyped
    BY DEF D!Init, D!Resting, DepositTyped, OrderTyped, MoneyTyped, RunTyped, ProviderTyped, DepositStatuses
  <2>2. PaymentInv /\ AnswerInv
    BY DEF D!Init, D!Resting, PaymentInv, AnswerInv, D!Dead
  <2>3. LedgerInv
    BY SumNothing DEF D!Init, LedgerInv
  <2>4. Asked = {} /\ Live = {} /\ requests = {}
    BY DEF D!Init, Asked, Live, D!Counted
  <2>5. RequestInv
    BY <2>4, SumNothing, FS_EmptySet DEF RequestInv, D!DepositAssumption
  <2> QED BY <2>1, <2>2, <2>3, <2>5 DEF DepositInv
<1>2. DepositInv /\ [D!Next]_D!vars => DepositInv'
  <2> SUFFICES ASSUME DepositInv, [D!Next]_D!vars PROVE DepositInv'
    OBVIOUS
  <2>1. Kept => DepositInv'
    BY SteadyKeeps DEF Kept, DepositInv
  <2>2. CASE UNCHANGED D!vars
    <3>1. UNCHANGED <<dstatus, dprovider, requests, submit, dproposals, inbox, run, credited, djournal, available,
                      recharged, call, created, payment, settled>>
      BY <2>2 DEF D!vars, D!ipnVars, D!moneyVars, D!providerVars
    <3>2. Live' = Live /\ Asked' = Asked
      BY <3>1 DEF Live, Asked, D!Counted
    <3> QED
      BY <3>1, <3>2 DEF DepositInv, DepositTyped, OrderTyped, MoneyTyped, RunTyped, ProviderTyped, PaymentInv,
         AnswerInv, LedgerInv, RequestInv
  <2>3. CASE D!Next
    BY <2>1, <2>3, RequestBegins, RequestEnds, SubmitKeeps, TickKeeps, ReconcilerKeeps, OutsideKeeps
       DEF D!Next, D!RequestStep
  <2> QED BY <2>2, <2>3
<1> QED BY <1>1, <1>2, PTL DEF D!Spec

(* The deposits take no notice of the withdrawals beside them. *)
LEMMA DepositsAlone == PaymentsSpec => D!Spec
<1>1. [PaymentsNext]_PaymentsVars => [D!Next]_(D!vars)
  BY DEF PaymentsNext, PaymentsVars, dvars, D!vars, D!ipnVars, D!moneyVars, D!providerVars
<1> QED BY <1>1, PTL DEF PaymentsSpec, D!Spec

(* reconcileDeposit: every confirmed deposit was credited once, with what its one payment settled. *)
THEOREM DepositsBalanceHolds == PaymentsSpec => []DepositsBalance
<1>1. DepositInv => DepositsBalance
  <2> SUFFICES ASSUME DepositInv PROVE D!DepositsBalance
    BY DEF DepositsBalance
  <2>1. \A o \in DepositOrders : created[o] <= 1 /\ dprovider[o] \in {None, o}
    BY DEF DepositInv, PaymentInv
  <2> QED BY <2>1, OneSum DEF DepositInv, LedgerInv, D!DepositsBalance
<1> QED BY <1>1, DepositInvariance, DepositsAlone, DepositsAssumption, PTL

(* deposit: what is asked for in orders that may be paid never exceeds the limit. *)
THEOREM DepositsFitLimitHolds == PaymentsSpec => []DepositsFitLimit
<1>1. DepositInv => DepositsFitLimit
  BY OneSum DEF DepositInv, RequestInv, D!DepositsFitLimit, Live, DepositsFitLimit
<1> QED BY <1>1, DepositInvariance, DepositsAlone, DepositsAssumption, PTL

=============================================================================
