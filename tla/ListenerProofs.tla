---------------------------- MODULE ListenerProofs ----------------------------
(***************************************************************************)
(* Lemmas about the operations of Listener, for lists of any length: what  *)
(* Listener::remove and the clean-up after failed sends leave of a list.   *)
(* RemoveAll is a recursive function; what it computes is proved by        *)
(* induction over the number of removals, which rests on < being well      *)
(* founded on the natural numbers.                                         *)
(***************************************************************************)
EXTENDS Listener, TLAPS, FiniteSetTheorems, WellFoundedInduction

\* The entries of a list, and that no user has two of them.
EntrySet(list) == {list[k] : k \in DOMAIN list}
Unique(list) == \A j, k \in DOMAIN list : list[j].user = list[k].user => j = k

LEMMA LeastNatural ==
    ASSUME NEW T, T \subseteq Nat, T # {}
    PROVE  \E x \in T : \A y \in T : x <= y
<1> DEFINE Less == {p \in Nat \X Nat : p[1] < p[2]}
<1>1. IsWellFoundedOn(Less, Nat)
  BY NatLessThanWellFounded, Zenon DEF OpToRel
<1>2. \E x \in T : \A y \in T : ~(<<y, x>> \in Less)
  <2> HIDE DEF Less
  <2> QED BY <1>1, WFMin
<1>3. PICK x \in T : \A y \in T : ~(<<y, x>> \in Less)
  BY <1>2
<1>4. \A y \in T : ~(y < x)
  BY <1>3
<1> QED BY <1>4

\* Mathematical induction, for a property given as a set.
LEMMA SetInduction ==
    ASSUME NEW S, 0 \in S, \A n \in Nat : n \in S => n + 1 \in S
    PROVE  Nat \subseteq S
<1> DEFINE T == Nat \ S
<1> SUFFICES ASSUME T # {} PROVE FALSE
  OBVIOUS
<1>1. PICK x \in T : \A y \in T : x <= y
  <2>1. T \subseteq Nat
    OBVIOUS
  <2> HIDE DEF T
  <2> QED BY <2>1, LeastNatural
<1>2. x \in Nat /\ x # 0
  OBVIOUS
<1>3. x - 1 \in Nat /\ x - 1 \notin T
  BY <1>1, <1>2
<1> QED BY <1>2, <1>3

LEMMA Elements ==
    ASSUME NEW S, NEW list \in Seq(S), NEW k \in DOMAIN list
    PROVE  list[k] \in S
OBVIOUS

\* Taking the head of a queue moves the rest up by one.
LEMMA TailLeaves ==
    ASSUME NEW S, NEW s \in Seq(S), s # <<>>
    PROVE  /\ Head(s) = s[1] /\ 1 \in DOMAIN s /\ s[1] \in S
           /\ Tail(s) \in Seq(S) /\ Len(Tail(s)) = Len(s) - 1
           /\ \A k \in DOMAIN Tail(s) :
                 k \in Nat \ {0} /\ k + 1 \in DOMAIN s /\ Tail(s)[k] = s[k + 1]
           /\ \A k \in DOMAIN s : k # 1 => k - 1 \in DOMAIN Tail(s) /\ Tail(s)[k - 1] = s[k]
OBVIOUS

LEMMA InEntrySet ==
    ASSUME NEW list
    PROVE  /\ \A u : Holds(list, u) <=> \E e \in EntrySet(list) : e.user = u
           /\ \A k : EntriesOf(list, k) # {} <=> \E e \in EntrySet(list) : e.chan = k
           /\ \A k \in DOMAIN list : list[k] \in EntrySet(list)
BY DEF Holds, EntrySet, EntriesOf

\* What is put in a queue comes after all that is in it.
LEMMA AppendEnds ==
    ASSUME NEW S, NEW s \in Seq(S), NEW x
    PROVE  /\ \A i \in DOMAIN s : i \in DOMAIN Append(s, x) /\ Append(s, x)[i] = s[i]
           /\ Len(s) + 1 \in DOMAIN Append(s, x) /\ Append(s, x)[Len(s) + 1] = x
           /\ \A i \in DOMAIN Append(s, x) : i \in DOMAIN s \/ i = Len(s) + 1
           /\ \A i \in DOMAIN s : i \in Nat \ {0} /\ i < Len(s) + 1 /\ i # Len(s) + 1
           /\ Len(s) \in Nat
OBVIOUS

LEMMA AppendIs ==
    ASSUME NEW S, NEW s \in Seq(S), NEW x \in S
    PROVE  Append(s, x) = [i \in 1..(Len(s) + 1) |-> IF i = Len(s) + 1 THEN x ELSE s[i]]
<1> DEFINE t == Append(s, x)
<1>1. t \in Seq(S) /\ Len(t) = Len(s) + 1 /\ Len(s) \in Nat
  OBVIOUS
<1>2. \A i \in 1..(Len(s) + 1) : t[i] = IF i = Len(s) + 1 THEN x ELSE s[i]
  OBVIOUS
<1> HIDE DEF t
<1>3. t = [i \in 1..Len(t) |-> t[i]]
  BY <1>1
<1> QED BY <1>1, <1>2, <1>3 DEF t

\* A new entry comes at the end.
LEMMA AppendLeaves ==
    ASSUME NEW S, NEW list \in Seq(S), NEW e \in S
    PROVE  /\ EntrySet(Append(list, e)) = EntrySet(list) \union {e}
           /\ Unique(list) /\ ~Holds(list, e.user) => Unique(Append(list, e))
<1> DEFINE longer == Append(list, e)
<1>1. /\ DOMAIN longer = 1..(Len(list) + 1) /\ longer[Len(list) + 1] = e
      /\ \A k \in DOMAIN list : longer[k] = list[k]
      /\ \A k \in DOMAIN longer : k \in DOMAIN list \/ k = Len(list) + 1
  OBVIOUS
<1>2. \A k \in DOMAIN list : k \in DOMAIN longer
  OBVIOUS
<1>3. Len(list) + 1 \in DOMAIN longer
  OBVIOUS
<1> HIDE DEF longer
<1>4. EntrySet(longer) = EntrySet(list) \union {e}
  BY <1>1, <1>2, <1>3 DEF EntrySet
<1>5. Unique(list) /\ ~Holds(list, e.user) => Unique(longer)
  BY <1>1 DEF Unique, Holds
<1> QED BY <1>4, <1>5 DEF longer

-----------------------------------------------------------------------------
(* Listener::remove. *)

\* position() finds the first entry of a user that has one.
LEMMA FirstExists ==
    ASSUME NEW S, NEW list \in Seq(S), NEW user, Holds(list, user)
    PROVE  /\ FirstAt(list, user) \in DOMAIN list
           /\ list[FirstAt(list, user)].user = user
<1> DEFINE T == {k \in DOMAIN list : list[k].user = user}
<1>1. T # {} /\ T \subseteq Nat
  BY DEF Holds
<1>2. PICK x \in T : \A y \in T : x <= y
  <2> HIDE DEF T
  <2> QED BY <1>1, LeastNatural
<1>3. \A j \in 1..(x - 1) : j \in DOMAIN list /\ list[j].user # user
  BY <1>2
<1> QED BY <1>2, <1>3 DEF FirstAt

\* Vec::remove leaves the other entries, in their order.
LEMMA DropLeaves ==
    ASSUME NEW S, NEW list \in Seq(S), NEW at \in DOMAIN list
    PROVE  /\ DropAt(list, at) \in Seq(S)
           /\ Len(DropAt(list, at)) = Len(list) - 1
           /\ \A k \in 1..(Len(list) - 1) :
                 DropAt(list, at)[k] = IF k < at THEN list[k] ELSE list[k + 1]
<1> DEFINE n == Len(list) - 1
<1>1. n \in Nat /\ \A j \in 1..n : j \in DOMAIN list /\ j + 1 \in DOMAIN list
  OBVIOUS
<1>2. DropAt(list, at) \in [1..n -> S]
  BY <1>1 DEF DropAt
<1>3. DropAt(list, at) \in Seq(S)
  BY <1>1, <1>2
<1> QED BY <1>1, <1>2, <1>3 DEF DropAt

\* What remove leaves of a list: its entries but those of one user, who has
\* no entry left if it had one at most.
LEMMA RemoveLeaves ==
    ASSUME NEW S, NEW list \in Seq(S), NEW user
    PROVE  /\ Remove(list, user) \in Seq(S)
           /\ EntrySet(Remove(list, user)) \subseteq EntrySet(list)
           /\ \A e \in EntrySet(list) : e.user # user => e \in EntrySet(Remove(list, user))
           /\ Unique(list) =>
                 /\ Unique(Remove(list, user))
                 /\ \A e \in EntrySet(Remove(list, user)) : e.user # user
<1>1. CASE ~Holds(list, user)
  BY <1>1 DEF Remove, Holds, EntrySet
<1>2. CASE Holds(list, user)
  <2> DEFINE at == FirstAt(list, user)
             rest == Remove(list, user)
             from(k) == IF k < at THEN k ELSE k + 1
  <2>1. at \in DOMAIN list /\ list[at].user = user
    BY <1>2, FirstExists
  <2>2. rest = DropAt(list, at)
    BY <1>2 DEF Remove
  <2> HIDE DEF at, rest
  <2>3. /\ rest \in Seq(S) /\ DOMAIN rest = 1..(Len(list) - 1)
        /\ \A k \in DOMAIN rest :
              from(k) \in DOMAIN list /\ from(k) # at /\ rest[k] = list[from(k)]
    <3>1. /\ rest \in Seq(S) /\ Len(rest) = Len(list) - 1
          /\ \A k \in 1..(Len(list) - 1) : rest[k] = IF k < at THEN list[k] ELSE list[k + 1]
      BY <2>1, <2>2, DropLeaves
    <3>2. DOMAIN rest = 1..(Len(list) - 1)
      BY <3>1
    <3> QED BY <2>1, <3>1, <3>2
  <2>4. \A j \in DOMAIN list : j # at => \E k \in DOMAIN rest : j = from(k)
    <3> TAKE j \in DOMAIN list
    <3>1. CASE j < at
      BY <2>1, <2>3, <3>1
    <3>2. CASE j > at
      <4>1. j - 1 \in DOMAIN rest /\ from(j - 1) = j
        BY <2>1, <2>3, <3>2
      <4> QED BY <4>1
    <3> QED BY <2>1, <3>1, <3>2
  <2>5. EntrySet(rest) \subseteq EntrySet(list)
    BY <2>3 DEF EntrySet
  <2>6. \A e \in EntrySet(list) : e.user # user => e \in EntrySet(rest)
    BY SMTT(20), <2>1, <2>3, <2>4 DEF EntrySet
  <2>7. ASSUME Unique(list) PROVE Unique(rest) /\ \A e \in EntrySet(rest) : e.user # user
    <3>1. \A j, k \in DOMAIN rest : from(j) = from(k) => j = k
      BY <2>1, <2>3
    <3>2. Unique(rest)
      BY <2>3, <2>7, <3>1 DEF Unique
    <3>3. \A k \in DOMAIN rest : rest[k].user # user
      BY <2>1, <2>3, <2>7 DEF Unique
    <3> QED BY <3>2, <3>3 DEF EntrySet
  <2> QED BY <2>3, <2>5, <2>6, <2>7 DEF rest
<1> QED BY <1>1, <1>2

LEMMA RemoveKeeps ==
    ASSUME NEW S, NEW list \in Seq(S), NEW user
    PROVE  /\ Remove(list, user) \in Seq(S)
           /\ \A k \in DOMAIN Remove(list, user) :
                 \E j \in DOMAIN list : Remove(list, user)[k] = list[j]
BY RemoveLeaves DEF EntrySet

-----------------------------------------------------------------------------
(* The clean-up after failed sends. *)

\* The removals one after the other define a function.
LEMMA RemovalsDefined ==
    ASSUME NEW list, NEW users, Len(users) \in Nat
    PROVE  \E after : after = [k \in 0..Len(users) |->
              IF k = 0 THEN list ELSE Remove(after[k - 1], users[k])]
<1> DEFINE Upto(g, m) == g = [k \in 0..m |->
                              IF k = 0 THEN list ELSE Remove(g[k - 1], users[k])]
           S == {m \in Nat : \E g : Upto(g, m)}
<1>1. 0 \in S
  <2>1. Upto([k \in 0..0 |-> list], 0)
    OBVIOUS
  <2> QED BY <2>1
<1>2. ASSUME NEW m \in Nat, m \in S PROVE m + 1 \in S
  <2>1. PICK g : Upto(g, m)
    BY <1>2
  <2> DEFINE h == [k \in 0..(m + 1) |->
                    IF k = 0 THEN list ELSE Remove(g[k - 1], users[k])]
  <2>2. h = [k \in 0..(m + 1) |-> IF k = 0 THEN list ELSE Remove(g[k - 1], users[k])]
    OBVIOUS
  <2> HIDE DEF h
  <2>3. \A k \in 0..m : h[k] = g[k]
    <3>1. \A k \in 0..m : g[k] = IF k = 0 THEN list ELSE Remove(g[k - 1], users[k])
      BY <2>1
    <3>2. \A k \in 0..m : h[k] = IF k = 0 THEN list ELSE Remove(g[k - 1], users[k])
      BY <2>2
    <3> QED BY <3>1, <3>2
  <2>4. \A k \in 0..(m + 1) : k # 0 => h[k - 1] = g[k - 1]
    <3> TAKE k \in 0..(m + 1)
    <3> HAVE k # 0
    <3>1. k - 1 \in 0..m
      OBVIOUS
    <3> QED BY <2>3, <3>1
  <2>5. Upto(h, m + 1)
    BY <2>2, <2>4
  <2> HIDE DEF Upto
  <2> QED BY <2>5
<1>3. Nat \subseteq S
  <2> HIDE DEF S
  <2> QED BY <1>1, <1>2, SetInduction
<1> QED BY <1>3

\* What every removal keeps, the clean-up keeps.
LEMMA RemoveAllKeeps ==
    ASSUME NEW P, NEW list \in P, NEW U, NEW users \in Seq(U),
           \A l \in P, u \in U : Remove(l, u) \in P
    PROVE  RemoveAll(list, users) \in P
<1> DEFINE Step(g) == [k \in 0..Len(users) |->
                        IF k = 0 THEN list ELSE Remove(g[k - 1], users[k])]
           after == CHOOSE g : g = Step(g)
           S == {m \in Nat : m <= Len(users) => after[m] \in P}
<1>1. after = Step(after)
  BY SMTT(20), RemovalsDefined
<1>2. /\ after[0] = list
      /\ \A k \in 1..Len(users) : after[k] = Remove(after[k - 1], users[k])
  <2> HIDE DEF after
  <2>1. \A k \in 0..Len(users) :
           after[k] = IF k = 0 THEN list ELSE Remove(after[k - 1], users[k])
    BY <1>1
  <2> QED BY <2>1
<1>3. RemoveAll(list, users) = after[Len(users)]
  BY DEF RemoveAll
<1> HIDE DEF after
<1>4. 0 \in S
  BY <1>2
<1>5. ASSUME NEW m \in Nat, m \in S PROVE m + 1 \in S
  <2> SUFFICES ASSUME m + 1 <= Len(users) PROVE after[m + 1] \in P
    OBVIOUS
  <2>1. after[m] \in P /\ users[m + 1] \in U
    BY <1>5
  <2>2. after[m + 1] = Remove(after[m], users[m + 1])
    BY <1>2
  <2> QED BY <2>1, <2>2
<1>6. Nat \subseteq S
  <2> HIDE DEF S
  <2> QED BY <1>4, <1>5, SetInduction
<1> QED BY <1>3, <1>6

\* The clean-up takes no entry of a user whose send did not fail, brings none,
\* and keeps the entries of each user to one.
LEMMA RemoveAllLeaves ==
    ASSUME NEW S, NEW list \in Seq(S), Unique(list), NEW Bad,
           NEW users \in Seq(Bad)
    PROVE  /\ RemoveAll(list, users) \in Seq(S)
           /\ Unique(RemoveAll(list, users))
           /\ EntrySet(RemoveAll(list, users)) \subseteq EntrySet(list)
           /\ \A e \in EntrySet(list) :
                 e.user \notin Bad => e \in EntrySet(RemoveAll(list, users))
<1> DEFINE P == {l \in Seq(S) :
                  /\ Unique(l)
                  /\ EntrySet(l) \subseteq EntrySet(list)
                  /\ \A e \in EntrySet(list) : e.user \notin Bad => e \in EntrySet(l)}
<1>1. list \in P
  OBVIOUS
<1>2. ASSUME NEW l \in P, NEW u \in Bad PROVE Remove(l, u) \in P
  <2>1. l \in Seq(S) /\ Unique(l)
    OBVIOUS
  <2>2. /\ Remove(l, u) \in Seq(S) /\ Unique(Remove(l, u))
        /\ EntrySet(Remove(l, u)) \subseteq EntrySet(l)
        /\ \A e \in EntrySet(l) : e.user # u => e \in EntrySet(Remove(l, u))
    BY <2>1, RemoveLeaves
  <2> QED BY <2>2
<1>3. RemoveAll(list, users) \in P
  <2> HIDE DEF P
  <2> QED BY <1>1, <1>2, RemoveAllKeeps
<1> QED BY <1>3

\* What is left of the list after the first k sends and their removals.
Cut(list, bad, l, k) == IF list[k].chan \in bad THEN Remove(l, list[k].user) ELSE l

LEMMA CutsDefined ==
    ASSUME NEW list, NEW bad, Len(list) \in Nat
    PROVE  \E after : after = [k \in 0..Len(list) |->
              IF k = 0 THEN list ELSE Cut(list, bad, after[k - 1], k)]
<1> DEFINE Upto(g, m) == g = [k \in 0..m |->
                              IF k = 0 THEN list ELSE Cut(list, bad, g[k - 1], k)]
           S == {m \in Nat : \E g : Upto(g, m)}
<1>1. 0 \in S
  <2>1. Upto([k \in 0..0 |-> list], 0)
    OBVIOUS
  <2> QED BY <2>1
<1>2. ASSUME NEW m \in Nat, m \in S PROVE m + 1 \in S
  <2>1. PICK g : Upto(g, m)
    BY <1>2
  <2> DEFINE h == [k \in 0..(m + 1) |->
                    IF k = 0 THEN list ELSE Cut(list, bad, g[k - 1], k)]
  <2>2. h = [k \in 0..(m + 1) |-> IF k = 0 THEN list ELSE Cut(list, bad, g[k - 1], k)]
    OBVIOUS
  <2> HIDE DEF h
  <2>3. \A k \in 0..m : h[k] = g[k]
    <3>1. \A k \in 0..m : g[k] = IF k = 0 THEN list ELSE Cut(list, bad, g[k - 1], k)
      BY <2>1
    <3>2. \A k \in 0..m : h[k] = IF k = 0 THEN list ELSE Cut(list, bad, g[k - 1], k)
      BY <2>2
    <3> QED BY <3>1, <3>2
  <2>4. \A k \in 0..(m + 1) : k # 0 => h[k - 1] = g[k - 1]
    <3> TAKE k \in 0..(m + 1)
    <3> HAVE k # 0
    <3>1. k - 1 \in 0..m
      OBVIOUS
    <3> QED BY <2>3, <3>1
  <2>5. Upto(h, m + 1)
    BY <2>2, <2>4
  <2> HIDE DEF Upto
  <2> QED BY <2>5
<1>3. Nat \subseteq S
  <2> HIDE DEF S
  <2> QED BY <1>1, <1>2, SetInduction
<1> QED BY <1>3

\* A message leaves the entries whose queue is alive, if each user has one; in
\* any case it brings none.
LEMMA WithoutLeaves ==
    ASSUME NEW S, NEW list \in Seq(S), NEW bad
    PROVE  /\ Without(list, bad) \in Seq(S)
           /\ EntrySet(Without(list, bad)) \subseteq EntrySet(list)
           /\ Unique(list) =>
                 /\ Unique(Without(list, bad))
                 /\ EntrySet(Without(list, bad)) = {e \in EntrySet(list) : e.chan \notin bad}
<1> DEFINE Step(g) == [k \in 0..Len(list) |->
                        IF k = 0 THEN list ELSE Cut(list, bad, g[k - 1], k)]
           after == CHOOSE g : g = Step(g)
           Hit(e, m) == \E j \in 1..m : list[j].chan \in bad /\ list[j].user = e.user
           Good(l, m) ==
              /\ l \in Seq(S)
              /\ EntrySet(l) \subseteq EntrySet(list)
              /\ Unique(list) =>
                    /\ Unique(l)
                    /\ EntrySet(l) = {e \in EntrySet(list) : ~Hit(e, m)}
           T == {m \in Nat : m <= Len(list) => Good(after[m], m)}
<1>0. Len(list) \in Nat /\ DOMAIN list = 1..Len(list)
  OBVIOUS
<1>1. after = Step(after)
  BY SMTT(20), <1>0, CutsDefined
<1>2. /\ after[0] = list
      /\ \A k \in 1..Len(list) : after[k] = Cut(list, bad, after[k - 1], k)
  <2> HIDE DEF after
  <2>1. \A k \in 0..Len(list) :
           after[k] = IF k = 0 THEN list ELSE Cut(list, bad, after[k - 1], k)
    BY <1>1
  <2> QED BY <1>0, <2>1
<1>3. Without(list, bad) = after[Len(list)]
  BY DEF Without, Cut
<1> HIDE DEF after
<1>4. 0 \in T
  BY <1>2
<1>5. ASSUME NEW m \in Nat, m \in T PROVE m + 1 \in T
  <2> SUFFICES ASSUME m + 1 <= Len(list) PROVE Good(after[m + 1], m + 1)
    OBVIOUS
  <2>1. Good(after[m], m)
    BY <1>0, <1>5
  <2>2. after[m + 1] = Cut(list, bad, after[m], m + 1)
    BY <1>0, <1>2
  <2>3. \A e : Hit(e, m + 1) <=>
                 \/ Hit(e, m)
                 \/ list[m + 1].chan \in bad /\ list[m + 1].user = e.user
    <3>1. \A j : j \in 1..(m + 1) <=> j \in 1..m \/ j = m + 1
      OBVIOUS
    <3> QED BY <3>1
  <2>4. CASE list[m + 1].chan \in bad
    <3>1. after[m + 1] = Remove(after[m], list[m + 1].user)
      BY <2>2, <2>4 DEF Cut
    <3>2. after[m] \in Seq(S)
      BY <2>1
    <3>3. /\ after[m + 1] \in Seq(S)
          /\ EntrySet(after[m + 1]) \subseteq EntrySet(after[m])
          /\ \A e \in EntrySet(after[m]) :
                e.user # list[m + 1].user => e \in EntrySet(after[m + 1])
          /\ Unique(after[m]) =>
                /\ Unique(after[m + 1])
                /\ \A e \in EntrySet(after[m + 1]) : e.user # list[m + 1].user
      BY <3>1, <3>2, RemoveLeaves
    <3> HIDE DEF Hit
    <3>4. ASSUME Unique(list)
          PROVE  /\ Unique(after[m + 1])
                 /\ EntrySet(after[m + 1]) = {e \in EntrySet(list) : ~Hit(e, m + 1)}
      <4>1. Unique(after[m]) /\ EntrySet(after[m]) = {e \in EntrySet(list) : ~Hit(e, m)}
        BY <2>1, <3>4
      <4>2. \A e : e \in EntrySet(after[m + 1])
                      <=> e \in EntrySet(after[m]) /\ e.user # list[m + 1].user
        BY <3>3, <4>1
      <4>3. \A e : Hit(e, m + 1) <=> Hit(e, m) \/ list[m + 1].user = e.user
        BY <2>3, <2>4
      <4> QED BY <3>3, <4>1, <4>2, <4>3
    <3> QED BY <2>1, <3>3, <3>4
  <2>5. CASE list[m + 1].chan \notin bad
    <3>1. after[m + 1] = after[m]
      BY <2>2, <2>5 DEF Cut
    <3> HIDE DEF Hit
    <3>2. \A e : Hit(e, m + 1) <=> Hit(e, m)
      BY <2>3, <2>5
    <3> QED BY <2>1, <3>1, <3>2
  <2> QED BY <2>4, <2>5
<1>6. Len(list) \in T
  <2>1. Nat \subseteq T
    <3> HIDE DEF T
    <3> QED BY <1>4, <1>5, SetInduction
  <2> QED BY <1>0, <2>1
<1>7. Good(after[Len(list)], Len(list))
  BY <1>0, <1>6
<1>8. ASSUME Unique(list), NEW e \in EntrySet(list)
      PROVE  Hit(e, Len(list)) <=> e.chan \in bad
  <2>1. PICK i \in DOMAIN list : e = list[i]
    BY <1>8 DEF EntrySet
  <2>2. \A j \in DOMAIN list : list[j].user = e.user <=> j = i
    BY <1>8, <2>1 DEF Unique
  <2> QED BY <1>0, <2>1, <2>2
<1> HIDE DEF Hit
<1> QED BY <1>3, <1>7, <1>8
-----------------------------------------------------------------------------
(* A relay's list once it has taken messages that are on their way to it.   *)

\* The list after the first n messages.
Applied(list, msgs, n) ==
    LET after[k \in 0..n] ==
            IF k = 0 THEN list ELSE Apply(after[k - 1], msgs[k])
    IN  after[n]

\* The messages one after the other define a function.
LEMMA AppliedDefined ==
    ASSUME NEW list, NEW msgs, NEW n \in Nat
    PROVE  \E after : after = [k \in 0..n |->
              IF k = 0 THEN list ELSE Apply(after[k - 1], msgs[k])]
<1> DEFINE Upto(g, m) == g = [k \in 0..m |->
                              IF k = 0 THEN list ELSE Apply(g[k - 1], msgs[k])]
           S == {m \in Nat : \E g : Upto(g, m)}
<1>1. 0 \in S
  <2>1. Upto([k \in 0..0 |-> list], 0)
    OBVIOUS
  <2> QED BY <2>1
<1>2. ASSUME NEW m \in Nat, m \in S PROVE m + 1 \in S
  <2>1. PICK g : Upto(g, m)
    BY <1>2
  <2> DEFINE h == [k \in 0..(m + 1) |->
                    IF k = 0 THEN list ELSE Apply(g[k - 1], msgs[k])]
  <2>2. h = [k \in 0..(m + 1) |-> IF k = 0 THEN list ELSE Apply(g[k - 1], msgs[k])]
    OBVIOUS
  <2> HIDE DEF h
  <2>3. \A k \in 0..m : h[k] = g[k]
    <3>1. \A k \in 0..m : g[k] = IF k = 0 THEN list ELSE Apply(g[k - 1], msgs[k])
      BY <2>1
    <3>2. \A k \in 0..m : h[k] = IF k = 0 THEN list ELSE Apply(g[k - 1], msgs[k])
      BY <2>2
    <3> QED BY <3>1, <3>2
  <2>4. \A k \in 0..(m + 1) : k # 0 => h[k - 1] = g[k - 1]
    <3> TAKE k \in 0..(m + 1)
    <3> HAVE k # 0
    <3>1. k - 1 \in 0..m
      OBVIOUS
    <3> QED BY <2>3, <3>1
  <2>5. Upto(h, m + 1)
    BY <2>2, <2>4
  <2> HIDE DEF Upto
  <2> QED BY <2>5
<1>3. Nat \subseteq S
  <2> HIDE DEF S
  <2> QED BY <1>1, <1>2, SetInduction
<1> QED BY <1>3

\* The lists after each of the first n messages.
Stages(f, list, msgs, n) ==
    f[0] = list /\ \A k \in 1..n : f[k] = Apply(f[k - 1], msgs[k])

LEMMA StagesExist ==
    ASSUME NEW list, NEW msgs, NEW n \in Nat
    PROVE  \E f : Stages(f, list, msgs, n)
<1> DEFINE Step(g) == [k \in 0..n |-> IF k = 0 THEN list ELSE Apply(g[k - 1], msgs[k])]
           f == CHOOSE g : g = Step(g)
<1>1. f = Step(f)
  BY SMTT(20), AppliedDefined
<1> HIDE DEF f
<1>2. \A k \in 0..n : f[k] = IF k = 0 THEN list ELSE Apply(f[k - 1], msgs[k])
  BY <1>1
<1>3. Stages(f, list, msgs, n)
  BY <1>2 DEF Stages
<1> QED BY <1>3

\* A function that applies the messages one by one gives their effect.
LEMMA AppliedIs ==
    ASSUME NEW list, NEW msgs, NEW n \in Nat, NEW f,
           f[0] = list, \A k \in 1..n : f[k] = Apply(f[k - 1], msgs[k])
    PROVE  Applied(list, msgs, n) = f[n]
<1> DEFINE Step(g) == [k \in 0..n |-> IF k = 0 THEN list ELSE Apply(g[k - 1], msgs[k])]
           after == CHOOSE g : g = Step(g)
           S == {m \in Nat : m <= n => after[m] = f[m]}
<1>1. after = Step(after)
  BY AppliedDefined
<1>2. /\ after[0] = list
      /\ \A k \in 1..n : after[k] = Apply(after[k - 1], msgs[k])
  <2> HIDE DEF after
  <2>1. \A k \in 0..n :
           after[k] = IF k = 0 THEN list ELSE Apply(after[k - 1], msgs[k])
    BY <1>1
  <2> QED BY <2>1
<1>3. Applied(list, msgs, n) = after[n]
  BY DEF Applied
<1> HIDE DEF after
<1>4. 0 \in S
  BY <1>2
<1>5. ASSUME NEW m \in Nat, m \in S PROVE m + 1 \in S
  <2> SUFFICES ASSUME m + 1 <= n PROVE after[m + 1] = f[m + 1]
    OBVIOUS
  <2>1. after[m] = f[m]
    BY <1>5
  <2>2. after[m + 1] = Apply(after[m], msgs[m + 1]) /\ f[m + 1] = Apply(f[m], msgs[m + 1])
    BY <1>2
  <2> QED BY <2>1, <2>2
<1>6. Nat \subseteq S
  <2> HIDE DEF S
  <2> QED BY <1>4, <1>5, SetInduction
<1> QED BY <1>3, <1>6

\* The list after n messages is the list after n - 1, with the n-th applied.
LEMMA AppliedSteps ==
    ASSUME NEW list, NEW msgs
    PROVE  /\ Applied(list, msgs, 0) = list
           /\ \A n \in Nat :
                 Applied(list, msgs, n + 1) = Apply(Applied(list, msgs, n), msgs[n + 1])
<1>1. Applied(list, msgs, 0) = list
  <2> DEFINE f == [k \in {0} |-> list]
  <2>1. f[0] = list /\ \A k \in 1..0 : f[k] = Apply(f[k - 1], msgs[k])
    OBVIOUS
  <2> HIDE DEF f
  <2>2. Applied(list, msgs, 0) = f[0]
    BY <2>1, AppliedIs
  <2> QED BY <2>1, <2>2
<1>2. ASSUME NEW n \in Nat
      PROVE  Applied(list, msgs, n + 1) = Apply(Applied(list, msgs, n), msgs[n + 1])
  <2>1. n + 1 \in Nat
    OBVIOUS
  <2>2. \E f : Stages(f, list, msgs, n + 1)
    BY <2>1, StagesExist
  <2>3. PICK f : f[0] = list /\ \A k \in 1..(n + 1) : f[k] = Apply(f[k - 1], msgs[k])
    BY <2>2 DEF Stages
  <2>4. Applied(list, msgs, n + 1) = f[n + 1]
    BY <2>1, <2>3, AppliedIs
  <2>5. Applied(list, msgs, n) = f[n]
    <3>1. \A k \in 1..n : f[k] = Apply(f[k - 1], msgs[k])
      BY <2>3
    <3> QED BY <2>3, <3>1, AppliedIs
  <2>6. f[n + 1] = Apply(f[n], msgs[n + 1])
    BY <2>3
  <2> QED BY <2>4, <2>5, <2>6
<1> QED BY <1>1, <1>2

\* Messages that come after the first n do not change what those do.
LEMMA AppliedPrefix ==
    ASSUME NEW list, NEW msgs, NEW more, NEW n \in Nat,
           \A k \in 1..n : more[k] = msgs[k]
    PROVE  Applied(list, more, n) = Applied(list, msgs, n)
<1> DEFINE S == {m \in Nat : m <= n => Applied(list, more, m) = Applied(list, msgs, m)}
<1>1. 0 \in S
  BY AppliedSteps
<1>2. ASSUME NEW m \in Nat, m \in S PROVE m + 1 \in S
  <2> SUFFICES ASSUME m + 1 <= n
               PROVE  Applied(list, more, m + 1) = Applied(list, msgs, m + 1)
    OBVIOUS
  <2>1. Applied(list, more, m) = Applied(list, msgs, m) /\ more[m + 1] = msgs[m + 1]
    BY <1>2
  <2>2. /\ Applied(list, more, m + 1) = Apply(Applied(list, more, m), more[m + 1])
        /\ Applied(list, msgs, m + 1) = Apply(Applied(list, msgs, m), msgs[m + 1])
    BY AppliedSteps, ZenonT(30)
  <2> QED BY <2>1, <2>2
<1>3. Nat \subseteq S
  <2> HIDE DEF S
  <2> QED BY <1>1, <1>2, SetInduction
<1> QED BY <1>3

\* Taking the oldest message is the first step towards where the list will be.
LEMMA AppliedTail ==
    ASSUME NEW S, NEW list, NEW msgs \in Seq(S), msgs # <<>>, NEW n \in Nat, n < Len(msgs)
    PROVE  Applied(Apply(list, Head(msgs)), Tail(msgs), n) = Applied(list, msgs, n + 1)
<1> DEFINE next == Apply(list, Head(msgs))
           T == {m \in Nat : m < Len(msgs) =>
                    Applied(next, Tail(msgs), m) = Applied(list, msgs, m + 1)}
<1>1. 0 \in T
  <2>1. Applied(next, Tail(msgs), 0) = next
    BY AppliedSteps
  <2>2. /\ Applied(list, msgs, 0) = list
        /\ Applied(list, msgs, 0 + 1) = Apply(Applied(list, msgs, 0), msgs[0 + 1])
    BY AppliedSteps
  <2>3. 0 + 1 = 1 /\ Head(msgs) = msgs[1]
    OBVIOUS
  <2> QED BY <2>1, <2>2, <2>3
<1>2. ASSUME NEW m \in Nat, m \in T PROVE m + 1 \in T
  <2> HIDE DEF next
  <2> SUFFICES ASSUME m + 1 < Len(msgs)
               PROVE  Applied(next, Tail(msgs), m + 1) = Applied(list, msgs, m + 2)
    OBVIOUS
  <2>1. Applied(next, Tail(msgs), m) = Applied(list, msgs, m + 1)
    BY <1>2
  <2>2. Tail(msgs)[m + 1] = msgs[m + 2]
    OBVIOUS
  <2>3. Applied(next, Tail(msgs), m + 1)
            = Apply(Applied(next, Tail(msgs), m), Tail(msgs)[m + 1])
    BY AppliedSteps, ZenonT(30)
  <2>4. \A j \in Nat :
            Applied(list, msgs, j + 1) = Apply(Applied(list, msgs, j), msgs[j + 1])
    BY AppliedSteps, ZenonT(30)
  <2>5. Applied(list, msgs, (m + 1) + 1)
            = Apply(Applied(list, msgs, m + 1), msgs[(m + 1) + 1])
    <3>1. m + 1 \in Nat
      OBVIOUS
    <3> QED BY <2>4, <3>1, Zenon
  <2>6. (m + 1) + 1 = m + 2
    OBVIOUS
  <2> QED BY <2>1, <2>2, <2>3, <2>5, <2>6
<1>3. Nat \subseteq T
  <2> HIDE DEF T
  <2> QED BY <1>1, <1>2, SetInduction
<1> QED BY <1>3

\* Every message meets what its sender took for granted: a Subscribe a list
\* without its user, an Unsubscribe one with one entry of it.
Ordered(list, msgs) ==
    \A n \in DOMAIN msgs :
        Cardinality(EntriesFor(Applied(list, msgs, n - 1), msgs[n].user)) =
            IF msgs[n].op = "subscribe" THEN 0 ELSE 1

LEMMA UsersOnce ==
    ASSUME NEW list, Unique(list), NEW user
    PROVE  Cardinality(EntriesFor(list, user)) = IF Holds(list, user) THEN 1 ELSE 0
<1>1. CASE Holds(list, user)
  <2>1. PICK k \in DOMAIN list : list[k].user = user
    BY <1>1 DEF Holds
  <2>2. EntriesFor(list, user) = {k}
    BY <2>1 DEF EntriesFor, Unique
  <2> QED BY <1>1, <2>2, FS_Singleton
<1>2. CASE ~Holds(list, user)
  <2>1. EntriesFor(list, user) = {}
    BY <1>2 DEF EntriesFor, Holds
  <2> QED BY <1>2, <2>1, FS_EmptySet
<1> QED BY <1>1, <1>2

\* A message put in the channel comes last.
LEMMA OrderedAppend ==
    ASSUME NEW S, NEW list, NEW msgs \in Seq(S), NEW msg \in S, Ordered(list, msgs),
           Cardinality(EntriesFor(Applied(list, msgs, Len(msgs)), msg.user)) =
               IF msg.op = "subscribe" THEN 0 ELSE 1
    PROVE  /\ Ordered(list, Append(msgs, msg))
           /\ Applied(list, Append(msgs, msg), Len(Append(msgs, msg)))
                  = Apply(Applied(list, msgs, Len(msgs)), msg)
<1> DEFINE more == Append(msgs, msg)
           size == Len(msgs)
<1>1. /\ \A k \in DOMAIN msgs : more[k] = msgs[k] /\ k \in Nat /\ k >= 1 /\ k <= size
      /\ more[size + 1] = msg /\ size \in Nat /\ Len(more) = size + 1
      /\ \A k \in DOMAIN more : k \in DOMAIN msgs \/ k = size + 1
      /\ \A k \in 1..size : k \in DOMAIN msgs
  OBVIOUS
<1> HIDE DEF more, size
<1>2. \A n \in 0..size : Applied(list, more, n) = Applied(list, msgs, n)
  <2> TAKE n \in 0..size
  <2>1. n \in Nat /\ \A k \in 1..n : k \in 1..size
    BY <1>1
  <2>2. \A k \in 1..n : more[k] = msgs[k]
    BY <1>1, <2>1
  <2> QED BY <2>1, <2>2, AppliedPrefix
<1>3. Applied(list, more, size) = Applied(list, msgs, size)
  BY <1>1, <1>2
<1>4. Applied(list, more, size + 1) = Apply(Applied(list, more, size), more[size + 1])
  BY <1>1, AppliedSteps, ZenonT(30)
<1>5. Ordered(list, more)
  <2> SUFFICES ASSUME NEW n \in DOMAIN more
               PROVE  Cardinality(EntriesFor(Applied(list, more, n - 1), more[n].user)) =
                          IF more[n].op = "subscribe" THEN 0 ELSE 1
    BY DEF Ordered
  <2>1. CASE n \in DOMAIN msgs
    <3>1. n - 1 \in 0..size /\ more[n] = msgs[n]
      BY <1>1, <2>1
    <3> QED BY <1>2, <2>1, <3>1 DEF Ordered
  <2>2. CASE n = size + 1
    <3>1. n - 1 = size /\ more[n] = msg
      BY <1>1, <2>2
    <3> QED BY <1>3, <3>1 DEF size
  <2> QED BY <1>1, <2>1, <2>2
<1> QED BY <1>1, <1>3, <1>4, <1>5 DEF more, size

\* Taking a message changes neither the order of the rest nor where it leads.
LEMMA OrderedTail ==
    ASSUME NEW S, NEW list, NEW msgs \in Seq(S), msgs # <<>>, Ordered(list, msgs)
    PROVE  /\ Ordered(Apply(list, Head(msgs)), Tail(msgs))
           /\ Applied(Apply(list, Head(msgs)), Tail(msgs), Len(Tail(msgs)))
                  = Applied(list, msgs, Len(msgs))
<1> DEFINE rest == Tail(msgs)
           next == Apply(list, Head(msgs))
<1>1. /\ Len(rest) \in Nat /\ Len(msgs) = Len(rest) + 1
      /\ \A k \in DOMAIN rest :
            /\ k \in Nat /\ k >= 1 /\ k < Len(msgs)
            /\ k + 1 \in DOMAIN msgs /\ rest[k] = msgs[k + 1]
  OBVIOUS
<1>2. \A n \in Nat : n < Len(msgs) => Applied(next, rest, n) = Applied(list, msgs, n + 1)
  BY AppliedTail
<1> HIDE DEF rest, next
<1>3. Ordered(next, rest)
  <2> SUFFICES ASSUME NEW n \in DOMAIN rest
               PROVE  Cardinality(EntriesFor(Applied(next, rest, n - 1), rest[n].user)) =
                          IF rest[n].op = "subscribe" THEN 0 ELSE 1
    BY DEF Ordered
  <2>1. n - 1 \in Nat /\ n - 1 < Len(msgs) /\ (n - 1) + 1 = n /\ (n + 1) - 1 = n
    BY <1>1
  <2>2. Applied(next, rest, n - 1) = Applied(list, msgs, n)
    BY <1>2, <2>1
  <2>3. n + 1 \in DOMAIN msgs /\ rest[n] = msgs[n + 1]
    BY <1>1
  <2>4. Cardinality(EntriesFor(Applied(list, msgs, (n + 1) - 1), msgs[n + 1].user)) =
            IF msgs[n + 1].op = "subscribe" THEN 0 ELSE 1
    BY <2>3 DEF Ordered
  <2> QED BY <2>1, <2>2, <2>3, <2>4
<1>4. Applied(next, rest, Len(rest)) = Applied(list, msgs, Len(msgs))
  <2>1. Len(rest) < Len(msgs)
    BY <1>1
  <2> QED BY <1>1, <1>2, <2>1
<1> QED BY <1>3, <1>4 DEF rest, next
=============================================================================
