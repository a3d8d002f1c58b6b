-------------------------- MODULE SessionSync_proofs --------------------------
(***************************************************************************)
(* Theorems about SessionSync: types, that a pane shows conversations of   *)
(* the host's past, but for a draft of its own, and that it never goes     *)
(* back to an earlier one.                                                 *)
(*                                                                         *)
(* A stamp names one value of a block: a block that the host stamped no    *)
(* later than a pane's revision is missing from the pane's copy, or is the *)
(* same there.  A delta on that copy is the conversation stored, or does   *)
(* not apply and the whole conversation is requested.  SyncInv says it of  *)
(* all that a pane holds, asks from or is being answered, and of the       *)
(* drafts the pane has sent that they are never changed.                   *)
(***************************************************************************)
EXTENDS SessionSync, FiniteSetTheorems, WellFoundedInduction, TLAPS

Single(blocks) == \A i, j \in DOMAIN blocks : blocks[i].id = blocks[j].id => i = j
AsView(st) == [revision |-> st.revision, blocks |-> st.blocks]

\* What a delta needs of the conversation k that it is applied to: a block
\* that the host stamped no later than k is not in it with another value.
Usable(k, st) ==
    /\ Single(k.blocks)
    /\ st.stamped => \A b \in ToSet(st.blocks), c \in ToSet(k.blocks) :
                        st.stamps[b.id] <= k.revision /\ c.id = b.id => c = b

\* What a pane may know of the conversation.
Known(k, st) == k # Nothing => k.revision <= st.revision /\ Usable(k, st)

\* What a pane may show when P was stored and it has sent the drafts O.
Shows(v, P, O) ==
    v \in P \cup {Nothing} \/ \E c \in P \cup {Nothing}, b \in O : v = WithDraft(c, b)

StoreOK(st, P) ==
    /\ AsView(st) \in P /\ st.revision > 0
    /\ DOMAIN st.stamps = IF st.stamped THEN {b.id : b \in ToSet(st.blocks)} ELSE {}
    /\ \A id \in DOMAIN st.stamps : st.stamps[id] > 0
    /\ \A v \in P : v # Nothing /\ Known(v, st)

\* The drafts that a pane has sent: a conversation that has the identifier of
\* one has that draft.
OwnOK(P, O) ==
    \A b \in O : /\ b.draft /\ \E v \in P : Holds(v.blocks, b.id)
                /\ \A v \in P : \A c \in ToSet(v.blocks) : c.id = b.id => c = b

\* The draft whose answer is under way.
Drawn(rc) == [id |-> rc.id, text |-> rc.revision, draft |-> TRUE]
ReceiptOK(rc, O) == rc # NoReceipt => Drawn(rc) \in O

\* The answer a to a poll of k becomes a conversation of the past, or k again,
\* no older than sh, or the poll asks again.
Good(k, a, sh, P) ==
    LET next == applySessionSync(k, a)
    IN  next # Nothing => next \in P \cup {k} /\ (sh # Nothing => next.revision >= sh.revision)

\* A poll q and the transfers T it may read.
PollOK(q, sh, st, T, P, O) ==
    /\ Known(q.known, st) /\ Shows(q.known, P, O)
    /\ q.stage = "reading" <=> q.transfer # 0
    /\ q.pieces # <<>> => q.stage = "reading"
    /\ q.stage = "answered" => Good(q.known, q.answer, sh, P)
    /\ q.stage = "reading" =>
          \A t \in ToSet(T) : t.own /\ t.id = q.transfer =>
              /\ Good(q.known, t.text, sh, P)
              /\ q.pieces # <<>> => q.pieces[1] = t.text

\* Only the first poll's answer is shown.
PollsOK(polls, sh, st, T, P, O) ==
    /\ PollOK(polls[1], sh, st, T, P, O) /\ PollOK(polls[2], Nothing, st, T, P, O)
    /\ polls[1].transfer = polls[2].transfer => polls[1].transfer = 0

SyncInv ==
    /\ StoreOK(stored, past) /\ OwnOK(past, own) /\ ReceiptOK(receipt, own)
    /\ Known(shown, stored) /\ Shows(shown, past, own)
    /\ PollsOK(poll, shown, stored, transfers, past, own)
Inv == TypeOK /\ SyncInv

\* TypeOK in parts.
StoredType(st) ==
    /\ st = [revision |-> st.revision, blocks |-> st.blocks, stamps |-> st.stamps,
             stamped |-> st.stamped]
    /\ st.revision \in Revision /\ st.blocks \in Seq(Content) /\ st.stamped \in BOOLEAN
    /\ st.stamps \in [DOMAIN st.stamps -> Revision] /\ DOMAIN st.stamps \subseteq Block
TransferType == [id : TransferId, own : BOOLEAN, text : Sync]
TransfersType(T) ==
    /\ T \in Seq(TransferType) /\ Len(T) <= MaxTransfers
    /\ \A i, j \in DOMAIN T : T[i].id = T[j].id => i = j
PollType == [stage : {"idle", "asked", "reading", "answered"}, known : View, whole : BOOLEAN,
             answer : Sync, transfer : {0} \cup TransferId, pieces : Seq(Sync)]
PollsType(polls) ==
    /\ polls \in [Slot -> PollType]
    /\ \A p \in Slot : Len(polls[p].pieces) < Length
PaneType ==
    /\ shown \in View
    /\ receipt \in [id : {0} \cup Block, revision : Revision \cup {Undefined}]
    /\ past \subseteq View /\ own \subseteq Content /\ upsets \in 0..MaxUpsets

-----------------------------------------------------------------------------
(* Numbers and sequences *)

LEMMA Constants ==
  /\ MaxTransfers \in Nat /\ MaxTransfers > 0 /\ MaxRevision \in Nat /\ MaxRevision > 0
  /\ MaxUpsets \in Nat /\ Block \subseteq Nat /\ 0 \notin Block /\ 1 \in Block
  /\ Undefined \in Nat /\ Undefined > MaxRevision
  BY BlockAssumption, BoundsAssumption DEF Undefined

LEMMA Least ==
  ASSUME NEW S \in SUBSET Nat, S # {}
  PROVE  \E m \in S : \A y \in S : m <= y
  <1>1. PICK x \in S : TRUE
    OBVIOUS
  <1> DEFINE Less == {ss \in Nat \X Nat : ss[1] < ss[2]}
  <1>2. IsWellFoundedOn(Less, Nat)
    BY NatLessThanWellFounded DEF OpToRel
  <1>3. PICK m \in S : \A y \in S : <<y, m>> \notin Less
    <2> HIDE DEF Less
    <2> QED BY <1>1, <1>2, WFMin
  <1>4. ASSUME NEW y \in S PROVE m <= y
    <2>1. y \in Nat /\ m \in Nat
      OBVIOUS
    <2>2. SUFFICES ASSUME y < m PROVE FALSE
      BY <2>1
    <2>3. <<y, m>> \in Nat \X Nat /\ <<y, m>>[1] = y /\ <<y, m>>[2] = m
      BY <2>1
    <2>4. <<y, m>> \in Less
      BY <2>2, <2>3
    <2> QED BY <1>3, <2>4
  <1> QED BY <1>3, <1>4

LEMMA MinIs ==
  ASSUME NEW S \in SUBSET Nat, S # {}
  PROVE  Min(S) \in S
  BY Least DEF Min

\* Induction, stated of a set of numbers.
LEMMA Reaches ==
  ASSUME NEW S \in SUBSET Nat, 0 \in S, \A n \in S : n + 1 \in S
  PROVE  S = Nat
  <1> SUFFICES ASSUME Nat \ S # {} PROVE FALSE
    OBVIOUS
  <1>1. PICK m \in Nat \ S : \A y \in Nat \ S : m <= y
    BY Least
  <1>2. m # 0 /\ m - 1 \in Nat /\ m - 1 < m
    BY <1>1
  <1>3. m - 1 \in S
    BY <1>1, <1>2
  <1> QED BY <1>1, <1>2, <1>3

LEMMA AppendIs ==
  ASSUME NEW X, NEW s \in Seq(X), NEW b \in X
  PROVE  /\ Append(s, b) \in Seq(X) /\ DOMAIN Append(s, b) = 1..Len(s) + 1
         /\ Len(Append(s, b)) = Len(s) + 1 /\ DOMAIN s = 1..Len(s) /\ Len(s) \in Nat
         /\ \A i \in DOMAIN s : Append(s, b)[i] = s[i]
         /\ Append(s, b)[Len(s) + 1] = b
         /\ ToSet(Append(s, b)) = ToSet(s) \cup {b}
  <1>1. /\ Append(s, b) \in Seq(X) /\ DOMAIN Append(s, b) = 1..Len(s) + 1
        /\ Len(Append(s, b)) = Len(s) + 1 /\ DOMAIN s = 1..Len(s) /\ Len(s) \in Nat
        /\ \A i \in DOMAIN s : Append(s, b)[i] = s[i]
        /\ Append(s, b)[Len(s) + 1] = b
    OBVIOUS
  <1> DEFINE t == Append(s, b)
  <1> HIDE DEF t
  <1>2. DOMAIN t = DOMAIN s \cup {Len(s) + 1}
    BY <1>1 DEF t
  <1>3. ToSet(t) = ToSet(s) \cup {b}
    <2>1. ASSUME NEW i \in DOMAIN t PROVE t[i] \in ToSet(s) \cup {b}
      BY <1>1, <1>2 DEF t, ToSet
    <2>2. ASSUME NEW i \in DOMAIN s PROVE s[i] \in ToSet(t)
      <3>1. i \in DOMAIN t /\ t[i] = s[i]
        BY <1>1, <1>2 DEF t
      <3> QED BY <3>1 DEF ToSet
    <2>3. b \in ToSet(t)
      <3>1. Len(s) + 1 \in DOMAIN t /\ t[Len(s) + 1] = b
        BY <1>1, <1>2 DEF t
      <3> QED BY <3>1 DEF ToSet
    <2> QED BY <2>1, <2>2, <2>3 DEF ToSet
  <1> QED BY <1>1, <1>3 DEF t

LEMMA AppendSingle ==
  ASSUME NEW X, NEW s \in Seq(X), NEW b \in X,
         Single(s), \A c \in ToSet(s) : c.id # b.id
  PROVE  Single(Append(s, b))
  <1> DEFINE t == Append(s, b)
  <1> HIDE DEF t
  <1>1. /\ DOMAIN t = DOMAIN s \cup {Len(s) + 1} /\ t[Len(s) + 1] = b
        /\ \A i \in DOMAIN s : t[i] = s[i] /\ s[i].id # b.id
    <2>1. \A i \in DOMAIN s : s[i] \in ToSet(s)
      BY DEF ToSet
    <2>2. 1..Len(s) + 1 = (1..Len(s)) \cup {Len(s) + 1}
      BY AppendIs
    <2> QED BY <2>1, <2>2, AppendIs DEF t
  <1> QED BY <1>1 DEF Single, t

\* The function that Kept is defined by, up to n.
Filtering(f, blocks, S, n) ==
    f = [i \in 0..n |->
            IF i = 0 THEN <<>>
            ELSE IF blocks[i] \in S THEN Append(f[i - 1], blocks[i]) ELSE f[i - 1]]

LEMMA FilteringExists ==
  ASSUME NEW blocks, NEW S, NEW n \in Nat
  PROVE  \E f : Filtering(f, blocks, S, n)
  <1> DEFINE P == {k \in Nat : \E f : Filtering(f, blocks, S, k)}
  <1>1. 0 \in P
    <2>1. Filtering([i \in 0..0 |-> <<>>], blocks, S, 0)
      BY DEF Filtering
    <2> QED BY <2>1
  <1>2. ASSUME NEW k \in P PROVE k + 1 \in P
    <2>1. PICK f : Filtering(f, blocks, S, k)
      OBVIOUS
    <2> DEFINE g == [i \in 0..k + 1 |->
                       IF i <= k THEN f[i]
                       ELSE IF blocks[i] \in S THEN Append(f[i - 1], blocks[i]) ELSE f[i - 1]]
    <2>2. \A i \in 0..k : g[i] = f[i]
      OBVIOUS
    <2>3. \A i \in 0..k : f[i] = IF i = 0 THEN <<>>
                ELSE IF blocks[i] \in S THEN Append(f[i - 1], blocks[i]) ELSE f[i - 1]
      BY <2>1 DEF Filtering
    <2>4. ASSUME NEW i \in 0..k + 1
          PROVE g[i] = IF i = 0 THEN <<>>
                ELSE IF blocks[i] \in S THEN Append(g[i - 1], blocks[i]) ELSE g[i - 1]
      <3>1. CASE i = 0
        BY <2>2, <2>3, <3>1
      <3>2. CASE i # 0
        <4>1. i - 1 \in 0..k
          BY <3>2
        <4> QED BY <2>2, <2>3, <3>2, <4>1
      <3> QED BY <3>1, <3>2
    <2>5. Filtering(g, blocks, S, k + 1)
      BY <2>4 DEF Filtering
    <2> HIDE DEF g
    <2> QED BY <2>5
  <1>3. P = Nat
    <2> HIDE DEF P
    <2>1. P \subseteq Nat
      BY DEF P
    <2> QED BY <1>1, <1>2, <2>1, Reaches
  <1> QED BY <1>3

\* What a filter keeps: the blocks that are in S, each once.
LEMMA KeptIs ==
  ASSUME NEW blocks \in Seq(Content), NEW S
  PROVE  /\ Kept(blocks, S) \in Seq(Content)
         /\ ToSet(Kept(blocks, S)) = ToSet(blocks) \cap S
         /\ Single(blocks) => Single(Kept(blocks, S))
  <1> DEFINE n == Len(blocks)
             f == CHOOSE g : Filtering(g, blocks, S, n)
             before(k) == {blocks[j] : j \in 1..k} \cap S
             P == {k \in Nat : k <= n =>
                     /\ f[k] \in Seq(Content) /\ ToSet(f[k]) = before(k)
                     /\ Single(blocks) => Single(f[k])}
  <1>1. n \in Nat /\ \A i \in 1..n : blocks[i] \in Content
    OBVIOUS
  <1>2. Filtering(f, blocks, S, n)
    BY <1>1, FilteringExists
  <1>3. \A i \in 0..n : f[i] = IF i = 0 THEN <<>>
              ELSE IF blocks[i] \in S THEN Append(f[i - 1], blocks[i]) ELSE f[i - 1]
    <2> HIDE DEF f, n
    <2> QED BY <1>2 DEF Filtering
  <1>4. Kept(blocks, S) = f[n]
    BY DEF Kept, Filtering
  <1> HIDE DEF f
  <1>5. 0 \in P
    <2>1. f[0] = <<>>
      BY <1>1, <1>3
    <2>2. f[0] \in Seq(Content) /\ DOMAIN f[0] = {}
      BY <2>1
    <2>3. ToSet(f[0]) = {} /\ before(0) = {} /\ Single(f[0])
      BY <2>2 DEF ToSet, Single
    <2> HIDE DEF before
    <2> QED BY <2>2, <2>3
  <1>6. ASSUME NEW k \in P, k + 1 <= n PROVE k + 1 \in P
    <2>1. k \in Nat /\ k <= n /\ k + 1 \in 1..n /\ (k + 1) - 1 = k /\ k + 1 \in 0..n /\ k + 1 # 0
      BY <1>1, <1>6
    <2>2. f[k] \in Seq(Content) /\ ToSet(f[k]) = before(k) /\ (Single(blocks) => Single(f[k]))
      BY <1>6, <2>1
    <2>3. f[k + 1] = IF blocks[k + 1] \in S THEN Append(f[k], blocks[k + 1]) ELSE f[k]
      BY <1>3, <2>1
    <2>4. {blocks[j] : j \in 1..k + 1} = {blocks[j] : j \in 1..k} \cup {blocks[k + 1]}
      BY <2>1
    <2>5. CASE blocks[k + 1] \notin S
      BY <2>2, <2>3, <2>4, <2>5, <2>1
    <2>6. CASE blocks[k + 1] \in S
      <3> DEFINE b == blocks[k + 1]
                 s == f[k]
      <3>1. f[k + 1] = Append(s, b) /\ b \in Content
        BY <1>1, <2>1, <2>3, <2>6
      <3> HIDE DEF s, b
      <3>2. s \in Seq(Content) /\ Append(s, b) \in Seq(Content)
            /\ ToSet(Append(s, b)) = ToSet(s) \cup {b}
        BY <2>2, <3>1, AppendIs DEF s
      <3>4. before(k + 1) = before(k) \cup {b}
        BY <2>4, <2>6 DEF b
      <3>5. ASSUME Single(blocks) PROVE Single(Append(s, b))
        <4>1. ASSUME NEW c \in ToSet(s) PROVE c.id # b.id
          <5>2. PICK j \in 1..k : c = blocks[j]
            BY <2>2 DEF s
          <5>3. j \in DOMAIN blocks /\ k + 1 \in DOMAIN blocks /\ j # k + 1
            BY <2>1
          <5> QED BY <3>5, <5>2, <5>3 DEF Single, b
        <4>2. Single(s)
          BY <2>2, <3>5 DEF s
        <4> QED BY <3>1, <3>2, <4>1, <4>2, AppendSingle
      <3>6. f[k + 1] \in Seq(Content) /\ ToSet(f[k + 1]) = before(k + 1)
            /\ (Single(blocks) => Single(f[k + 1]))
        <4> HIDE DEF before
        <4> QED BY <2>2, <3>1, <3>2, <3>4, <3>5 DEF s
      <3> HIDE DEF before
      <3> QED BY <2>1, <3>6
    <2> QED BY <2>5, <2>6
  <1>7. P = Nat
    <2> HIDE DEF P
    <2>1. P \subseteq Nat
      BY DEF P
    <2>2. ASSUME NEW k \in P PROVE k + 1 \in P
      <3>1. CASE k + 1 <= n
        BY <1>6, <3>1
      <3>2. CASE ~(k + 1 <= n)
        BY <2>1, <3>2 DEF P
      <3> QED BY <3>1, <3>2
    <2> QED BY <1>5, <2>1, <2>2, Reaches
  <1>8. n \in P
    BY <1>1, <1>7
  <1>9. before(n) = ToSet(blocks) \cap S
    <2>1. DOMAIN blocks = 1..n
      OBVIOUS
    <2> QED BY <2>1 DEF ToSet
  <1> QED BY <1>1, <1>4, <1>8, <1>9

\* What is kept, block by block.
LEMMA FilterIs ==
  ASSUME NEW s \in Seq(Content), NEW S
  PROVE  \E f : /\ f[0] = <<>> /\ f[Len(s)] = Kept(s, S)
               /\ \A k \in 0..Len(s) - 1 :
                     f[k + 1] = IF s[k + 1] \in S THEN Append(f[k], s[k + 1]) ELSE f[k]
  <1> DEFINE n == Len(s)
             f == CHOOSE g : Filtering(g, s, S, n)
  <1>1. n \in Nat
    OBVIOUS
  <1>2. Filtering(f, s, S, n)
    BY <1>1, FilteringExists
  <1>3. Kept(s, S) = f[n]
    BY DEF Kept, Filtering
  <1> HIDE DEF f
  <1>4. \A i \in 0..n : f[i] = IF i = 0 THEN <<>>
              ELSE IF s[i] \in S THEN Append(f[i - 1], s[i]) ELSE f[i - 1]
    <2> HIDE DEF n
    <2> QED BY <1>2 DEF Filtering
  <1>5. ASSUME NEW k \in 0..n - 1
        PROVE  f[k + 1] = IF s[k + 1] \in S THEN Append(f[k], s[k + 1]) ELSE f[k]
    <2>1. k + 1 \in 0..n /\ k + 1 # 0 /\ (k + 1) - 1 = k
      BY <1>1
    <2> QED BY <1>4, <2>1
  <1>6. f[0] = <<>>
    BY <1>1, <1>4
  <1> QED BY <1>3, <1>5, <1>6

\* A filter looks at each block alone.
LEMMA KeptAlike ==
  ASSUME NEW s \in Seq(Content), NEW t \in Seq(Content), NEW S, NEW T, Len(s) <= Len(t),
         \A i \in 1..Len(s) : s[i] = t[i] /\ (s[i] \in S <=> t[i] \in T)
  PROVE  /\ Len(s) = Len(t) => Kept(s, S) = Kept(t, T)
         /\ Len(t) = Len(s) + 1 => Kept(t, T) = IF t[Len(t)] \in T
                                               THEN Append(Kept(s, S), t[Len(t)])
                                               ELSE Kept(s, S)
  <1> DEFINE n == Len(s)
             m == Len(t)
  <1>1. n \in Nat /\ m \in Nat /\ n <= m
    OBVIOUS
  <1>2. PICK f : /\ f[0] = <<>> /\ f[n] = Kept(s, S)
                 /\ \A k \in 0..n - 1 :
                       f[k + 1] = IF s[k + 1] \in S THEN Append(f[k], s[k + 1]) ELSE f[k]
    BY FilterIs
  <1>3. PICK g : /\ g[0] = <<>> /\ g[m] = Kept(t, T)
                 /\ \A k \in 0..m - 1 :
                       g[k + 1] = IF t[k + 1] \in T THEN Append(g[k], t[k + 1]) ELSE g[k]
    BY FilterIs
  <1> DEFINE Q == {k \in Nat : k <= n => f[k] = g[k]}
  <1>4. \A k \in 1..n : s[k] = t[k] /\ (s[k] \in S <=> t[k] \in T)
    OBVIOUS
  <1> HIDE DEF n, m
  <1>5. 0 \in Q
    BY <1>2, <1>3
  <1>6. ASSUME NEW k \in Q PROVE k + 1 \in Q
    <2>1. SUFFICES ASSUME k + 1 <= n PROVE f[k + 1] = g[k + 1]
      OBVIOUS
    <2>2. k \in 0..n - 1 /\ k \in 0..m - 1 /\ k + 1 \in 1..n /\ f[k] = g[k]
      BY <1>1, <2>1
    <2> QED BY <1>2, <1>3, <1>4, <2>2
  <1>7. Q = Nat
    <2> HIDE DEF Q
    <2>1. Q \subseteq Nat
      BY DEF Q
    <2> QED BY <1>5, <1>6, <2>1, Reaches
  <1>8. f[n] = g[n]
    BY <1>1, <1>7
  <1>9. ASSUME m = n + 1
        PROVE  g[m] = IF t[m] \in T THEN Append(g[n], t[m]) ELSE g[n]
    <2>1. n \in 0..m - 1
      BY <1>1, <1>9
    <2> QED BY <1>3, <1>9, <2>1
  <1>10. n = m => Kept(s, S) = Kept(t, T)
    BY <1>2, <1>3, <1>8
  <1>11. m = n + 1 => Kept(t, T) = IF t[m] \in T THEN Append(Kept(s, S), t[m]) ELSE Kept(s, S)
    BY <1>2, <1>3, <1>8, <1>9
  <1> QED BY <1>10, <1>11 DEF n, m

LEMMA KeptAppend ==
  ASSUME NEW s \in Seq(Content), NEW b \in Content, NEW S
  PROVE  Kept(Append(s, b), S) = IF b \in S THEN Append(Kept(s, S), b) ELSE Kept(s, S)
  <1> DEFINE t == Append(s, b)
  <1>1. /\ t \in Seq(Content) /\ Len(t) = Len(s) + 1 /\ Len(s) \in Nat
        /\ \A i \in 1..Len(s) : s[i] = t[i]
        /\ t[Len(s) + 1] = b
    BY AppendIs
  <1> HIDE DEF t
  <1>2. Kept(t, S) = IF t[Len(t)] \in S THEN Append(Kept(s, S), t[Len(t)]) ELSE Kept(s, S)
    <2>1. Len(s) <= Len(t) /\ \A i \in 1..Len(s) : s[i] = t[i] /\ (s[i] \in S <=> t[i] \in S)
      BY <1>1
    <2> QED BY <1>1, <2>1, KeptAlike
  <1> QED BY <1>1, <1>2 DEF t

\* A filter of what another kept.
LEMMA KeptTwice ==
  ASSUME NEW s \in Seq(Content), NEW A, NEW B
  PROVE  Kept(Kept(s, A), B) = Kept(s, A \cap B)
  <1> DEFINE n == Len(s)
  <1>1. n \in Nat /\ \A k \in 1..n : s[k] \in Content
    OBVIOUS
  <1>2. PICK f : /\ f[0] = <<>> /\ f[n] = Kept(s, A)
                 /\ \A k \in 0..n - 1 :
                       f[k + 1] = IF s[k + 1] \in A THEN Append(f[k], s[k + 1]) ELSE f[k]
    BY FilterIs
  <1>3. PICK g : /\ g[0] = <<>> /\ g[n] = Kept(s, A \cap B)
                 /\ \A k \in 0..n - 1 :
                       g[k + 1] = IF s[k + 1] \in A \cap B THEN Append(g[k], s[k + 1]) ELSE g[k]
    BY FilterIs
  <1> DEFINE Q == {k \in Nat : k <= n => f[k] \in Seq(Content) /\ Kept(f[k], B) = g[k]}
  <1> HIDE DEF n
  <1>4. 0 \in Q
    <2>1. <<>> \in Seq(Content) /\ Len(<<>>) = 0
      OBVIOUS
    <2>2. Kept(<<>>, B) = <<>>
      BY <2>1, FilterIs
    <2> QED BY <1>2, <1>3, <2>1, <2>2
  <1>5. ASSUME NEW k \in Q PROVE k + 1 \in Q
    <2>1. SUFFICES ASSUME k + 1 <= n
                   PROVE  f[k + 1] \in Seq(Content) /\ Kept(f[k + 1], B) = g[k + 1]
      OBVIOUS
    <2> DEFINE b == s[k + 1]
    <2>2. k \in 0..n - 1 /\ f[k] \in Seq(Content) /\ Kept(f[k], B) = g[k] /\ b \in Content
      BY <1>1, <2>1
    <2>3. /\ f[k + 1] = IF b \in A THEN Append(f[k], b) ELSE f[k]
          /\ g[k + 1] = IF b \in A \cap B THEN Append(g[k], b) ELSE g[k]
      BY <1>2, <1>3, <2>2
    <2> HIDE DEF b, Q
    <2>4. Kept(Append(f[k], b), B) = IF b \in B THEN Append(Kept(f[k], B), b) ELSE Kept(f[k], B)
      BY <2>2, KeptAppend
    <2>5. Append(f[k], b) \in Seq(Content)
      BY <2>2, AppendIs
    <2> QED BY <2>2, <2>3, <2>4, <2>5
  <1>6. Q = Nat
    <2> HIDE DEF Q
    <2>1. Q \subseteq Nat
      BY DEF Q
    <2> QED BY <1>4, <1>5, <2>1, Reaches
  <1>7. Kept(f[n], B) = g[n]
    <2>1. n \in Q
      BY <1>1, <1>6
    <2> QED BY <1>1, <2>1
  <1> QED BY <1>2, <1>3, <1>7

-----------------------------------------------------------------------------
(* Types *)

LEMMA StoredIs ==
  ASSUME NEW st
  PROVE  st \in [revision : Revision, blocks : Seq(Content),
                 stamps : UNION {[B -> Revision] : B \in SUBSET Block}, stamped : BOOLEAN]
         <=> StoredType(st)
  <1> DEFINE Stored == [revision : Revision, blocks : Seq(Content),
                        stamps : UNION {[B -> Revision] : B \in SUBSET Block}, stamped : BOOLEAN]
  <1>1. ASSUME st \in Stored PROVE StoredType(st)
    <2>1. /\ st = [revision |-> st.revision, blocks |-> st.blocks,
                       stamps |-> st.stamps, stamped |-> st.stamped]
          /\ st.revision \in Revision /\ st.blocks \in Seq(Content)
          /\ st.stamped \in BOOLEAN
          /\ st.stamps \in UNION {[B -> Revision] : B \in SUBSET Block}
      BY <1>1
    <2>2. PICK B \in SUBSET Block : st.stamps \in [B -> Revision]
      BY <2>1
    <2> QED BY <2>1, <2>2 DEF StoredType
  <1>2. ASSUME StoredType(st) PROVE st \in Stored
    <2>1. st.stamps \in UNION {[B -> Revision] : B \in SUBSET Block}
      BY <1>2 DEF StoredType
    <2>2. \A r, b, m, d :
            /\ r \in Revision /\ b \in Seq(Content) /\ d \in BOOLEAN
            /\ m \in UNION {[B -> Revision] : B \in SUBSET Block}
            => [revision |-> r, blocks |-> b, stamps |-> m, stamped |-> d] \in Stored
      OBVIOUS
    <2> HIDE DEF Stored
    <2> QED BY <1>2, <2>1, <2>2 DEF StoredType
  <1> QED BY <1>1, <1>2

LEMMA TypeParts ==
  TypeOK <=> StoredType(stored) /\ TransfersType(transfers) /\ PollsType(poll) /\ PaneType
  BY StoredIs DEF TypeOK, TransfersType, TransferType, PollsType, PollType, PaneType

LEMMA TypePartsNext ==
  TypeOK' <=> StoredType(stored') /\ TransfersType(transfers') /\ PollsType(poll') /\ PaneType'
  BY StoredIs DEF TypeOK, TransfersType, TransferType, PollsType, PollType, PaneType

LEMMA Views ==
  /\ Nothing \in View /\ Nothing.blocks = <<>> /\ Nothing.revision = Undefined
  /\ \A v \in View : /\ v.revision \in Nat /\ v.revision <= MaxRevision + 1
                     /\ v.blocks \in Seq(Content)
                     /\ v = [revision |-> v.revision, blocks |-> v.blocks]
  /\ \A r \in 0..MaxRevision, s \in Seq(Content) :
        [revision |-> r, blocks |-> s] \in View /\ [revision |-> r, blocks |-> s] # Nothing
  <1>1. Nothing.blocks \in Seq(Content)
    BY DEF Nothing
  <1> QED BY Constants, <1>1 DEF View, Nothing, Revision, Undefined

-----------------------------------------------------------------------------
(* Saves *)

LEMMA BlocksIn ==
  ASSUME NEW s \in Seq(Content), NEW b \in ToSet(s)
  PROVE  b \in Content /\ b.id \in Block /\ b.draft \in BOOLEAN
  <1>1. PICK i \in DOMAIN s : b = s[i]
    BY DEF ToSet
  <1>2. b \in Content
    BY <1>1
  <1> QED BY <1>2 DEF Content

LEMMA SingleIs ==
  ASSUME NEW s, Single(s), NEW b \in ToSet(s), NEW c \in ToSet(s), b.id = c.id
  PROVE  b = c
  BY DEF Single, ToSet

\* What save writes: a block keeps its stamp or has the new one.
LEMMA SaveIs ==
  ASSUME StoredType(stored), StoreOK(stored, past), past \subseteq View,
         NEW blocks \in Seq(Content), Single(blocks), save(blocks)
  PROVE  /\ StoredType(stored') /\ stored'.revision = stored.revision + 1
         /\ stored'.blocks = blocks /\ stored'.stamped
         /\ DOMAIN stored'.stamps = {b.id : b \in ToSet(blocks)}
         /\ past' = past \cup {AsView(stored')} /\ AsView(stored') \in View
         /\ \A b \in ToSet(blocks) :
               \/ stored'.stamps[b.id] = stored'.revision
               \/ /\ stored.stamped /\ b \in ToSet(stored.blocks)
                  /\ stored'.stamps[b.id] = stored.stamps[b.id]
  <1> DEFINE r == stored.revision + 1
             stamps == blockRevisions(stored, blocks, r)
             ids == {b.id : b \in ToSet(blocks)}
  <1>1. /\ r <= MaxRevision /\ past' = past \cup {[revision |-> r, blocks |-> blocks]}
        /\ stored' = [revision |-> r, blocks |-> blocks, stamped |-> TRUE, stamps |-> stamps]
    BY DEF save
  <1>2. r \in Revision
    BY <1>1, Constants DEF StoredType, Revision
  <1>3. stamps = [id \in ids |->
            IF /\ \E b \in ToSet(blocks) : b.id = id /\ b \in ToSet(stored.blocks)
               /\ id \in DOMAIN stored.stamps
            THEN stored.stamps[id] ELSE r]
    BY DEF blockRevisions
  <1> HIDE DEF stamps
  <1>4. ids \subseteq Block
    BY BlocksIn
  <1>5. stamps \in [ids -> Revision]
    BY <1>2, <1>3 DEF StoredType
  <1>6. StoredType(stored')
    BY <1>1, <1>2, <1>4, <1>5 DEF StoredType
  <1>7. AsView(stored') = [revision |-> r, blocks |-> blocks]
    BY <1>1 DEF AsView
  <1>8. ASSUME NEW b \in ToSet(blocks)
        PROVE  \/ stamps[b.id] = r
               \/ /\ stored.stamped /\ b \in ToSet(stored.blocks)
                  /\ stamps[b.id] = stored.stamps[b.id]
    <2>1. b.id \in ids
      OBVIOUS
    <2>2. SUFFICES ASSUME stamps[b.id] # r
                   PROVE  /\ stored.stamped /\ b \in ToSet(stored.blocks)
                          /\ stamps[b.id] = stored.stamps[b.id]
      OBVIOUS
    <2>3. /\ \E c \in ToSet(blocks) : c.id = b.id /\ c \in ToSet(stored.blocks)
          /\ b.id \in DOMAIN stored.stamps /\ stamps[b.id] = stored.stamps[b.id]
      BY <1>3, <2>1, <2>2
    <2> QED BY <2>3, SingleIs DEF StoreOK
  <1>9. [revision |-> r, blocks |-> blocks] \in View
    BY <1>2, Views DEF Revision
  <1> QED BY <1>1, <1>3, <1>6, <1>7, <1>8, <1>9

\* Whatever a pane knows stays usable.
LEMMA SaveKnown ==
  ASSUME StoredType(stored), StoreOK(stored, past), past \subseteq View,
         NEW blocks \in Seq(Content), Single(blocks), save(blocks),
         NEW k \in View, Known(k, stored)
  PROVE  Known(k, stored')
  <1>1. SUFFICES ASSUME k # Nothing PROVE Known(k, stored')
    BY DEF Known
  <1>2. k.revision <= stored.revision /\ Usable(k, stored)
        /\ k.revision \in Nat /\ stored.revision \in Nat
    BY <1>1, Views DEF Known, StoredType, Revision
  <1>3. ASSUME NEW b \in ToSet(blocks), stored'.stamps[b.id] <= k.revision,
               NEW c \in ToSet(k.blocks), c.id = b.id
        PROVE  c = b
    <2>1. stored'.stamps[b.id] # stored'.revision
      BY <1>2, <1>3, SaveIs
    <2>2. stored.stamped /\ b \in ToSet(stored.blocks) /\ stored'.stamps[b.id] = stored.stamps[b.id]
      BY <2>1, SaveIs
    <2> QED BY <1>2, <1>3, <2>2 DEF Usable
  <1>4. Usable(k, stored')
    BY <1>2, <1>3, SaveIs DEF Usable
  <1>5. k.revision < stored'.revision /\ k.revision <= stored'.revision
    BY <1>2, SaveIs
  <1> QED BY <1>4, <1>5, <1>2 DEF Known

LEMMA SaveStore ==
  ASSUME StoredType(stored), StoreOK(stored, past), past \subseteq View,
         NEW blocks \in Seq(Content), Single(blocks), save(blocks)
  PROVE  StoreOK(stored', past')
  <1> DEFINE v == AsView(stored')
  <1>1. v = [revision |-> stored.revision + 1, blocks |-> blocks] /\ v \in past'
        /\ v # Nothing /\ stored.revision \in Nat /\ stored'.revision = stored.revision + 1
    <2>1. stored'.revision \in 0..MaxRevision
      BY SaveIs DEF StoredType, Revision
    <2> QED BY <2>1, SaveIs, Views DEF AsView, StoredType, Revision
  <1>2. Known(v, stored')
    BY <1>1, SaveIs, SingleIs DEF Known, Usable
  <1>3. ASSUME NEW id \in DOMAIN stored'.stamps PROVE stored'.stamps[id] > 0
    <2>1. PICK b \in ToSet(blocks) : id = b.id
      BY SaveIs
    <2>2. CASE stored'.stamps[id] = stored'.revision
      BY <1>1, <2>2
    <2>3. CASE stored.stamped /\ b \in ToSet(stored.blocks) /\ stored'.stamps[id] = stored.stamps[id]
      BY <2>1, <2>3 DEF StoreOK
    <2> QED BY <2>1, <2>2, <2>3, SaveIs
  <1>4. ASSUME NEW w \in past' PROVE w # Nothing /\ Known(w, stored')
    <2>1. CASE w \in past
      BY <2>1, SaveKnown DEF StoreOK
    <2>2. CASE w = v
      BY <1>1, <1>2, <2>2
    <2> QED BY <2>1, <2>2, SaveIs
  <1> HIDE DEF v
  <1>5. DOMAIN stored'.stamps = {b.id : b \in ToSet(stored'.blocks)} /\ stored'.stamped
    BY SaveIs
  <1>6. v = AsView(stored')
    BY DEF v
  <1> QED BY <1>1, <1>3, <1>4, <1>5, <1>6 DEF StoreOK

\* The polls do not look back: a longer past serves them as well.
LEMMA PollsLast ==
  ASSUME NEW polls, NEW sh, NEW st, NEW st2, NEW T, NEW P, NEW P2, P \subseteq P2,
         NEW O, NEW O2, O \subseteq O2, PollsOK(polls, sh, st, T, P, O),
         \A p \in Slot : Known(polls[p].known, st) => Known(polls[p].known, st2)
  PROVE  PollsOK(polls, sh, st2, T, P2, O2)
  <1>1. 1 \in Slot /\ 2 \in Slot
    BY DEF Slot
  <1>2. /\ \A k, a, s : Good(k, a, s, P) => Good(k, a, s, P2)
        /\ \A k : Shows(k, P, O) => Shows(k, P2, O2)
    BY DEF Good, Shows
  <1> QED BY <1>1, <1>2 DEF PollsOK, PollOK

\* A step of the host that saves blocks, and may begin the wait for a draft.
LEMMA SavingStep ==
  ASSUME Inv, NEW blocks \in Seq(Content), Single(blocks), save(blocks),
         UNCHANGED <<transfers, shown, poll>>, own \subseteq own', own' \subseteq Content,
         receipt' \in [id : {0} \cup Block, revision : Revision \cup {Undefined}],
         upsets' \in 0..MaxUpsets, ReceiptOK(receipt', own'), OwnOK(past', own')
  PROVE  Inv'
  <1>1. /\ StoredType(stored) /\ TransfersType(transfers) /\ PollsType(poll) /\ PaneType
        /\ past \subseteq View /\ StoreOK(stored, past)
    BY TypeParts DEF Inv, SyncInv, PaneType
  <1>2. StoredType(stored') /\ past' \subseteq View /\ past \subseteq past'
    BY <1>1, SaveIs
  <1>3. TypeOK'
    <2>1. TransfersType(transfers') /\ PollsType(poll') /\ PaneType'
      BY <1>1, <1>2 DEF PaneType
    <2> QED BY <1>2, <2>1, TypePartsNext
  <1>4. StoreOK(stored', past')
    BY <1>1, SaveStore
  <1>5. \A k \in View : Known(k, stored) => Known(k, stored')
    BY <1>1, SaveKnown
  <1>6. Known(shown', stored')
    BY <1>1, <1>5 DEF Inv, SyncInv, PaneType
  <1>7. PollsOK(poll', shown', stored', transfers', past', own')
    <2>1. \A p \in Slot : poll[p].known \in View
      BY <1>1 DEF PollsType, PollType
    <2>2. PollsOK(poll, shown, stored', transfers, past', own')
      BY <1>2, <1>5, <2>1, PollsLast DEF Inv, SyncInv
    <2> QED BY <2>2
  <1>8. Shows(shown', past', own')
    BY <1>2 DEF Inv, SyncInv, Shows
  <1> QED BY <1>3, <1>4, <1>6, <1>7, <1>8 DEF Inv, SyncInv

LEMMA Fresh ==
  ASSUME StoredType(stored), StoreOK(stored, past), UnusedBlocks # {},
         NEW draft \in BOOLEAN, stored.revision + 1 <= MaxRevision
  PROVE  /\ NewBlock(draft) \in Content /\ Min(UnusedBlocks) \in Block
         /\ NewBlock(draft).id = Min(UnusedBlocks) /\ NewBlock(draft).draft = draft
         /\ \A v \in past : ~Holds(v.blocks, Min(UnusedBlocks))
         /\ \A b \in ToSet(stored.blocks) : b.id # Min(UnusedBlocks)
  <1>1. Min(UnusedBlocks) \in UnusedBlocks
    BY Constants, MinIs DEF UnusedBlocks
  <1>2. ~Holds(stored.blocks, Min(UnusedBlocks)) /\ Min(UnusedBlocks) \in Block
    BY <1>1 DEF UnusedBlocks, StoreOK, AsView
  <1>3. stored.revision + 1 \in Revision
    BY Constants DEF StoredType, Revision
  <1> QED BY <1>1, <1>2, <1>3 DEF NewBlock, Content, Holds, ToSet, UnusedBlocks

LEMMA StoredSingle ==
  ASSUME StoreOK(stored, past) PROVE Single(stored.blocks)
  BY DEF StoreOK, Known, Usable, AsView

LEMMA UndraftedIs ==
  ASSUME StoredType(stored), StoreOK(stored, past)
  PROVE  /\ Undrafted(stored.blocks) \in Seq(Content) /\ Single(Undrafted(stored.blocks))
         /\ \A b \in ToSet(Undrafted(stored.blocks)) : b \in ToSet(stored.blocks) /\ ~b.draft
  BY StoredSingle, KeptIs DEF Undrafted, StoredType

\* The drafts that the pane has sent are not touched by saves: a block of one
\* of their identifiers is one that was stored.
LEMMA OwnStays ==
  ASSUME Inv, NEW blocks \in Seq(Content), Single(blocks), save(blocks),
         \A c \in ToSet(blocks), b \in own :
            c.id = b.id => c \in ToSet(stored.blocks)
  PROVE  OwnOK(past', own)
  <1>1. StoredType(stored) /\ past \subseteq View /\ StoreOK(stored, past) /\ OwnOK(past, own)
    BY TypeParts DEF Inv, SyncInv, PaneType
  <1>2. past' = past \cup {AsView(stored')} /\ stored'.blocks = blocks
    BY <1>1, SaveIs
  <1>3. ASSUME NEW b \in own, NEW c \in ToSet(blocks), c.id = b.id PROVE c = b
    <2>1. c \in ToSet(AsView(stored).blocks) /\ AsView(stored) \in past
      BY <1>1, <1>3 DEF AsView, StoreOK
    <2> QED BY <1>1, <1>3, <2>1 DEF OwnOK
  <1>4. AsView(stored').blocks = blocks
    BY <1>2 DEF AsView
  <1>5. ASSUME NEW b \in own, NEW v \in past', NEW c \in ToSet(v.blocks), c.id = b.id
        PROVE  c = b
    <2>1. CASE v \in past
      BY <1>1, <1>5, <2>1 DEF OwnOK
    <2>2. CASE v = AsView(stored')
      BY <1>3, <1>4, <1>5, <2>2
    <2> QED BY <1>2, <2>1, <2>2
  <1>6. ASSUME NEW b \in own PROVE b.draft /\ \E v \in past' : Holds(v.blocks, b.id)
    BY <1>1, <1>2 DEF OwnOK
  <1> QED BY <1>5, <1>6 DEF OwnOK

\* An identifier that no conversation has had is of no draft sent.
LEMMA OwnHeld ==
  ASSUME Inv, NEW b \in own, NEW id, \A v \in past : ~Holds(v.blocks, id)
  PROVE  b.id # id
  BY DEF Inv, SyncInv, OwnOK

LEMMA ChangeStep == ASSUME Inv, Change PROVE Inv'
  <1>1. /\ StoredType(stored) /\ past \subseteq View /\ StoreOK(stored, past)
        /\ upsets \in 0..MaxUpsets
        /\ receipt \in [id : {0} \cup Block, revision : Revision \cup {Undefined}]
    BY TypeParts DEF Inv, SyncInv, PaneType
  <1>2. UNCHANGED <<transfers, shown, poll, own, receipt, upsets>> /\ own \subseteq Content
    BY <1>1, TypeParts DEF Change, pane, Inv, PaneType
  <1>3. ASSUME NEW blocks \in Seq(Content), Single(blocks), save(blocks),
               \A c \in ToSet(blocks), b \in own : c.id = b.id => c \in ToSet(stored.blocks)
        PROVE  Inv'
    <2>1. ReceiptOK(receipt, own) /\ OwnOK(past', own)
      BY <1>3, OwnStays DEF Inv, SyncInv
    <2>2. ReceiptOK(receipt', own') /\ OwnOK(past', own')
      BY <1>2, <2>1
    <2> QED BY <1>1, <1>2, <1>3, <2>2, SavingStep
  <1>4. CASE UnusedBlocks # {} /\ save(Append(Undrafted(stored.blocks), NewBlock(FALSE)))
    <2> DEFINE s == Undrafted(stored.blocks)
               b == NewBlock(FALSE)
    <2>1. stored.revision + 1 <= MaxRevision
      BY <1>4 DEF save
    <2>2. /\ s \in Seq(Content) /\ Single(s) /\ b \in Content
          /\ \A c \in ToSet(s) : c.id # b.id /\ c \in ToSet(stored.blocks)
          /\ \A d \in own : d.id # b.id
      BY <1>1, <1>4, <2>1, Fresh, UndraftedIs, OwnHeld
    <2> HIDE DEF s, b
    <2>3. /\ Append(s, b) \in Seq(Content) /\ Single(Append(s, b))
          /\ \A c \in ToSet(Append(s, b)), d \in own : c.id = d.id => c \in ToSet(stored.blocks)
      BY <2>2, AppendIs, AppendSingle
    <2> QED BY <1>3, <1>4, <2>3 DEF s, b
  <1>5. ASSUME NEW i \in DOMAIN stored.blocks, ~stored.blocks[i].draft,
               save([stored.blocks EXCEPT ![i].text = stored.revision + 1])
        PROVE  Inv'
    <2> DEFINE s == stored.blocks
               t == [s EXCEPT ![i].text = stored.revision + 1]
    <2>1. stored.revision + 1 \in Revision
      BY <1>1, <1>5, Constants DEF save, StoredType, Revision
    <2>2. s \in Seq(Content) /\ i \in DOMAIN s
      BY <1>1 DEF StoredType
    <2> HIDE DEF s
    <2> DEFINE c == [s[i] EXCEPT !.text = stored.revision + 1]
    <2>3. c \in Content /\ c.id = s[i].id /\ c.draft = s[i].draft
      <3>1. s[i] \in Content
        BY <2>2
      <3> QED BY <2>1, <3>1 DEF Content
    <2>8. t = [s EXCEPT ![i] = c]
      OBVIOUS
    <2> HIDE DEF c
    <2>4. /\ t \in Seq(Content) /\ DOMAIN t = DOMAIN s /\ \A j \in DOMAIN s : j # i => t[j] = s[j]
          /\ t[i].id = s[i].id /\ t[i].draft = s[i].draft
      BY <2>2, <2>3, <2>8
    <2>5. \A j \in DOMAIN s : t[j].id = s[j].id
      BY <2>4
    <2> HIDE DEF t
    <2>6. Single(t)
      BY <1>1, <2>4, <2>5, StoredSingle DEF Single, s
    <2>7. ASSUME NEW b \in ToSet(t), NEW d \in own, b.id = d.id PROVE b \in ToSet(stored.blocks)
      <3>1. PICK j \in DOMAIN t : b = t[j]
        BY DEF ToSet
      <3>2. s[j] \in ToSet(AsView(stored).blocks) /\ AsView(stored) \in past /\ s[j].id = d.id
        BY <1>1, <2>4, <2>5, <2>7, <3>1 DEF ToSet, s, AsView, StoreOK
      <3>3. s[j].draft
        BY <3>2 DEF Inv, SyncInv, OwnOK
      <3> QED BY <1>5, <2>4, <3>1, <3>3 DEF ToSet, s
    <2> QED BY <1>3, <1>5, <2>4, <2>6, <2>7 DEF t, s
  <1>6. CASE UnusedBlocks # {} /\ save(Append(stored.blocks, NewBlock(TRUE)))
    <2> DEFINE s == stored.blocks
               b == NewBlock(TRUE)
    <2>1. stored.revision + 1 <= MaxRevision
      BY <1>6 DEF save
    <2>2. /\ s \in Seq(Content) /\ Single(s) /\ b \in Content
          /\ \A c \in ToSet(s) : c.id # b.id /\ c \in ToSet(stored.blocks)
          /\ \A d \in own : d.id # b.id
      BY <1>1, <1>6, <2>1, Fresh, StoredSingle, OwnHeld DEF StoredType
    <2> HIDE DEF s, b
    <2>3. /\ Append(s, b) \in Seq(Content) /\ Single(Append(s, b))
          /\ \A c \in ToSet(Append(s, b)), d \in own : c.id = d.id => c \in ToSet(stored.blocks)
      BY <2>2, AppendIs, AppendSingle
    <2> QED BY <1>3, <1>6, <2>3 DEF s, b
  <1> QED BY <1>4, <1>5, <1>6 DEF Change

LEMMA RemoveDraftStep == ASSUME Inv, RemoveDraft PROVE Inv'
  <1>1. /\ StoredType(stored) /\ past \subseteq View /\ StoreOK(stored, past)
        /\ upsets \in 0..MaxUpsets
        /\ receipt \in [id : {0} \cup Block, revision : Revision \cup {Undefined}]
    BY TypeParts DEF Inv, SyncInv, PaneType
  <1>2. UNCHANGED <<transfers, shown, poll, own, receipt, upsets>>
        /\ save(Undrafted(stored.blocks)) /\ own \subseteq Content
    BY <1>1, TypeParts DEF RemoveDraft, pane, Inv, PaneType
  <1>3. ReceiptOK(receipt, own) /\ OwnOK(past', own)
    BY <1>1, <1>2, UndraftedIs, OwnStays DEF Inv, SyncInv
  <1>4. ReceiptOK(receipt', own') /\ OwnOK(past', own')
    BY <1>2, <1>3
  <1> QED BY <1>1, <1>2, <1>4, UndraftedIs, SavingStep

LEMMA DraftStep == ASSUME Inv, Draft PROVE Inv'
  <1>1. /\ StoredType(stored) /\ past \subseteq View /\ StoreOK(stored, past)
        /\ upsets \in 0..MaxUpsets
    BY TypeParts DEF Inv, SyncInv, PaneType
  <1> DEFINE s == stored.blocks
             b == NewBlock(TRUE)
             id == Min(UnusedBlocks)
  <1>2. /\ UNCHANGED <<transfers, shown, poll>> /\ own' = own \cup {b}
        /\ save(Append(s, b)) /\ UnusedBlocks # {}
        /\ receipt' = [id |-> id, revision |-> stored.revision + 1]
        /\ upsets < MaxUpsets /\ upsets' = upsets + 1
    BY DEF Draft, Upset
  <1>3. stored.revision + 1 <= MaxRevision /\ stored.revision + 1 \in Revision
    BY <1>1, <1>2, Constants DEF save, StoredType, Revision
  <1>4. /\ s \in Seq(Content) /\ Single(s) /\ b \in Content /\ id \in Block /\ b.id = id
        /\ \A c \in ToSet(s) : c.id # id
        /\ \A v \in past : ~Holds(v.blocks, id)
    <2>1. s \in Seq(Content) /\ Single(s)
      BY <1>1, StoredSingle DEF StoredType
    <2> QED BY <1>1, <1>2, <1>3, <2>1, Fresh
  <1>4b. b = [id |-> id, text |-> stored.revision + 1, draft |-> TRUE]
    BY DEF NewBlock
  <1> HIDE DEF s, b, id
  <1>5. /\ Append(s, b) \in Seq(Content) /\ Single(Append(s, b))
        /\ ToSet(Append(s, b)) = ToSet(s) \cup {b}
    BY <1>4, AppendIs, AppendSingle
  <1>6. \A d \in own : d.id # id
    BY <1>4, OwnHeld
  <1>7. OwnOK(past', own)
    BY <1>2, <1>4, <1>5, <1>6, OwnStays DEF s
  <1>8. OwnOK(past', own')
    <2> DEFINE w == AsView(stored')
    <2>1. past' = past \cup {w} /\ w.blocks = Append(s, b)
      BY <1>1, <1>2, <1>5, SaveIs DEF AsView
    <2> HIDE DEF w
    <2>2. ASSUME NEW v \in past', NEW c \in ToSet(v.blocks), c.id = id PROVE c = b
      <3>1. CASE v \in past
        BY <1>4, <2>2, <3>1 DEF Holds, ToSet
      <3>2. CASE v = w
        BY <1>4, <1>5, <2>1, <2>2, <3>2
      <3> QED BY <2>1, <3>1, <3>2
    <2>3. Holds(w.blocks, id)
      <3>1. b \in ToSet(w.blocks)
        BY <1>5, <2>1
      <3> QED BY <1>4, <3>1 DEF Holds, ToSet
    <2>4. b.draft
      BY <1>4b
    <2> QED BY <1>2, <1>4, <1>7, <2>1, <2>2, <2>3, <2>4 DEF OwnOK
  <1>9. ReceiptOK(receipt', own')
    BY <1>2, <1>4b DEF ReceiptOK, Drawn
  <1>10. receipt' \in [id : {0} \cup Block, revision : Revision \cup {Undefined}]
    BY <1>2, <1>3, <1>4
  <1>11. upsets' \in 0..MaxUpsets /\ own \subseteq own' /\ own' \subseteq Content
    <2>1. own \subseteq Content
      BY TypeParts DEF Inv, PaneType
    <2>2. upsets' \in 0..MaxUpsets
      BY <1>1, <1>2, Constants
    <2>3. own \subseteq own' /\ own' \subseteq Content
      BY <1>2, <1>4, <2>1
    <2> QED BY <2>2, <2>3
  <1> QED BY <1>2, <1>5, <1>8, <1>9, <1>10, <1>11, SavingStep

-----------------------------------------------------------------------------
(* Transfers *)

LEMMA PruneIs ==
  ASSUME NEW T, TransfersType(T)
  PROVE  TransfersType(prune(T)) /\ Len(prune(T)) < MaxTransfers
         /\ ToSet(prune(T)) \subseteq ToSet(T)
  <1>1. T \in Seq(TransferType) /\ Len(T) \in Nat /\ Len(T) <= MaxTransfers
        /\ MaxTransfers \in Nat /\ MaxTransfers > 0
    BY Constants DEF TransfersType
  <1>2. CASE Len(T) >= MaxTransfers
    <2> DEFINE U == Tail(T)
    <2>1. /\ U \in Seq(TransferType) /\ Len(U) = Len(T) - 1 /\ DOMAIN U = 1..Len(T) - 1
          /\ \A i \in DOMAIN U : U[i] = T[i + 1] /\ i + 1 \in DOMAIN T
      BY <1>1, <1>2
    <2> HIDE DEF U
    <2>2. ToSet(U) \subseteq ToSet(T)
      BY <2>1 DEF ToSet
    <2>3. \A i, j \in DOMAIN U : U[i].id = U[j].id => i = j
      BY <2>1 DEF TransfersType
    <2> QED BY <1>1, <1>2, <2>1, <2>2, <2>3 DEF prune, TransfersType, U
  <1>3. CASE ~(Len(T) >= MaxTransfers)
    BY <1>1, <1>3 DEF prune
  <1> QED BY <1>2, <1>3

LEMMA AddIs ==
  ASSUME NEW T, TransfersType(T), NEW t \in TransferType, \A u \in ToSet(T) : u.id # t.id
  PROVE  TransfersType(Append(prune(T), t))
         /\ ToSet(Append(prune(T), t)) \subseteq ToSet(T) \cup {t}
  <1> DEFINE U == prune(T)
  <1>1. TransfersType(U) /\ Len(U) < MaxTransfers /\ ToSet(U) \subseteq ToSet(T)
    BY PruneIs
  <1> HIDE DEF U
  <1>2. U \in Seq(TransferType) /\ MaxTransfers \in Nat /\ Single(U)
    BY <1>1, Constants DEF TransfersType, Single
  <1>3. /\ Append(U, t) \in Seq(TransferType) /\ Len(Append(U, t)) <= MaxTransfers
        /\ ToSet(Append(U, t)) = ToSet(U) \cup {t}
    BY <1>1, <1>2, AppendIs
  <1>4. Single(Append(U, t))
    BY <1>1, <1>2, AppendSingle
  <1> QED BY <1>1, <1>3, <1>4 DEF TransfersType, Single, U

LEMMA DropIs ==
  ASSUME NEW T, TransfersType(T), NEW k \in DOMAIN T
  PROVE  TransfersType(RemoveAt(T, k)) /\ ToSet(RemoveAt(T, k)) \subseteq ToSet(T)
  <1> DEFINE U == RemoveAt(T, k)
             from(i) == IF i < k THEN i ELSE i + 1
             n == Len(T)
  <1>1. T \in Seq(TransferType) /\ n \in Nat /\ k \in 1..n /\ n <= MaxTransfers /\ MaxTransfers \in Nat
    BY Constants DEF TransfersType
  <1>2. /\ U \in Seq(TransferType) /\ Len(U) = n - 1
        /\ \A i \in 1..n - 1 : U[i] = T[from(i)]
    <2> DEFINE A == SubSeq(T, 1, k - 1)
               B == SubSeq(T, k + 1, n)
    <2>1. /\ A \in Seq(TransferType) /\ Len(A) = k - 1
          /\ \A i \in 1..k - 1 : A[i] = T[i]
      BY <1>1
    <2>2. /\ B \in Seq(TransferType) /\ Len(B) = n - k
          /\ \A i \in 1..n - k : B[i] = T[i + k]
      BY <1>1
    <2>3. U = A \o B
      BY DEF RemoveAt
    <2> HIDE DEF A, B, U, n
    <2>4. /\ U \in Seq(TransferType) /\ Len(U) = n - 1
          /\ \A i \in 1..n - 1 : U[i] = IF i <= k - 1 THEN A[i] ELSE B[i - (k - 1)]
      <3>1. /\ A \o B \in Seq(TransferType) /\ Len(A \o B) = Len(A) + Len(B)
            /\ \A i \in 1..Len(A) + Len(B) :
                  (A \o B)[i] = IF i <= Len(A) THEN A[i] ELSE B[i - Len(A)]
        BY <2>1, <2>2
      <3>2. Len(A) + Len(B) = n - 1
        BY <1>1, <2>1, <2>2
      <3> QED BY <2>1, <2>3, <3>1, <3>2
    <2>5. ASSUME NEW i \in 1..n - 1 PROVE U[i] = T[from(i)]
      <3>1. CASE i < k
        BY <1>1, <2>1, <2>4, <3>1
      <3>2. CASE ~(i < k)
        <4>1. i - (k - 1) \in 1..n - k /\ i - (k - 1) + k = i + 1
          BY <1>1, <3>2
        <4>2. U[i] = B[i - (k - 1)] /\ from(i) = i + 1
          BY <1>1, <2>4, <3>2
        <4> QED BY <2>2, <4>1, <4>2
      <3> QED BY <3>1, <3>2
    <2> QED BY <2>4, <2>5
  <1> HIDE DEF U
  <1>3. DOMAIN U = 1..n - 1 /\ DOMAIN T = 1..n
    BY <1>1, <1>2
  <1>4. \A i \in 1..n - 1 : from(i) \in 1..n /\ \A j \in 1..n - 1 : from(i) = from(j) => i = j
    BY <1>1
  <1> HIDE DEF from
  <1>5. ToSet(U) \subseteq ToSet(T)
    BY <1>2, <1>3, <1>4 DEF ToSet
  <1>6. \A i, j \in DOMAIN U : U[i].id = U[j].id => i = j
    BY <1>2, <1>3, <1>4 DEF TransfersType
  <1> QED BY <1>1, <1>2, <1>5, <1>6 DEF TransfersType, U

\* There is always an identifier no transfer and no poll has.
LEMMA UnusedIs ==
  ASSUME TransfersType(transfers), PollsType(poll)
  PROVE  /\ UnusedTransfer \in TransferId /\ UnusedTransfer # 0
         /\ \A t \in ToSet(transfers) : t.id # UnusedTransfer
         /\ \A p \in Slot : poll[p].transfer # UnusedTransfer
  <1> DEFINE ids == {t.id : t \in ToSet(transfers)}
             n == Len(transfers)
             f == [i \in 1..n |-> transfers[i].id]
             polled == {poll[p].transfer : p \in Slot}
  <1>1. n \in Nat /\ n <= MaxTransfers /\ MaxTransfers \in Nat /\ DOMAIN transfers = 1..n
    BY Constants DEF TransfersType
  <1>2. ids = {transfers[i].id : i \in 1..n}
    BY <1>1 DEF ToSet
  <1>3. f \in Surjection(1..n, ids)
    BY <1>2 DEF Surjection
  <1> HIDE DEF f, ids, n
  <1>4. IsFiniteSet(1..n) /\ Cardinality(1..n) = n
    <2>1. 1 \in Int /\ n \in Int /\ (IF 1 > n THEN 0 ELSE n - 1 + 1) = n
      BY <1>1
    <2> QED BY <2>1, FS_Interval
  <1>5. IsFiniteSet(ids) /\ Cardinality(ids) <= n /\ Cardinality(ids) \in Nat
    BY <1>3, <1>4, FS_Surjection, FS_CardinalityType
  <1>6. polled = {poll[1].transfer} \cup {poll[2].transfer}
    BY DEF Slot
  <1> DEFINE used == ids \cup polled
             once == ids \cup {poll[1].transfer}
  <1>7. IsFiniteSet(once) /\ Cardinality(once) <= n + 1 /\ Cardinality(once) \in Nat
    <2> DEFINE first == poll[1].transfer
    <2> HIDE DEF first
    <2>1. /\ IsFiniteSet(ids \cup {first})
          /\ Cardinality(ids \cup {first}) \in {Cardinality(ids), Cardinality(ids) + 1}
      BY <1>5, FS_AddElement
    <2>2. once = ids \cup {first}
      BY DEF first
    <2> HIDE DEF once
    <2> QED BY <1>1, <1>5, <2>1, <2>2
  <1>8. used = once \cup {poll[2].transfer}
    BY <1>6
  <1> HIDE DEF used, once, polled
  <1>9. IsFiniteSet(used) /\ Cardinality(used) <= n + 2 /\ Cardinality(used) \in Nat
    <2> DEFINE last == poll[2].transfer
    <2> HIDE DEF last
    <2>1. /\ IsFiniteSet(once \cup {last})
          /\ Cardinality(once \cup {last}) \in {Cardinality(once), Cardinality(once) + 1}
      BY <1>7, FS_AddElement
    <2>2. used = once \cup {last}
      BY <1>8 DEF last
    <2> QED BY <1>1, <1>7, <2>1, <2>2
  <1>10. Cardinality(Slot) = 2
    <2>1. IsFiniteSet({1}) /\ Cardinality({1}) = 1 /\ 2 \notin {1}
      BY FS_Singleton
    <2>2. Cardinality({1} \cup {2}) = 2
      BY <2>1, FS_AddElement
    <2> QED BY <2>2 DEF Slot
  <1>11. IsFiniteSet(TransferId) /\ Cardinality(TransferId) = MaxTransfers + 3
         /\ TransferId \subseteq Nat /\ 0 \notin TransferId
    <2>1. TransferId = 1..MaxTransfers + 3
      BY <1>1, <1>10 DEF TransferId
    <2> QED BY <1>1, <2>1, FS_Interval
  <1>12. ~(TransferId \subseteq used)
    <2>1. SUFFICES ASSUME TransferId \subseteq used PROVE FALSE
      OBVIOUS
    <2>2. Cardinality(TransferId) <= Cardinality(used)
      BY <1>9, <2>1, FS_Subset
    <2> QED BY <1>1, <1>9, <1>11, <2>2
  <1>13. UnusedTransfer \in TransferId \ used
    <2>1. TransferId \ used \in SUBSET Nat /\ TransferId \ used # {}
      BY <1>11, <1>12
    <2>2. UnusedTransfer = Min(TransferId \ used)
      BY DEF UnusedTransfer, used, ids, polled
    <2> QED BY <2>1, <2>2, MinIs
  <1> QED BY <1>11, <1>13 DEF used, ids, polled

-----------------------------------------------------------------------------
(* Answers *)

\* A delta on a conversation that is usable gives the conversation stored, or
\* does not apply.
LEMMA DeltaIs ==
  ASSUME StoredType(stored), StoreOK(stored, past), NEW k \in View, Usable(k, stored),
         stored.stamped, k.revision < stored.revision
  PROVE  applySessionSync(k, sync(k.revision)) \in {AsView(stored), Nothing}
  <1> DEFINE a == sync(k.revision)
             s == stored.blocks
             new == {b \in ToSet(s) : stored.stamps[b.id] > k.revision}
             held == ToSet(k.blocks)
             sent == ToSet(a.blocks)
             from(id) == IF \E b \in sent : b.id = id THEN sent ELSE held
             absent == \E i \in DOMAIN a.ids : \A b \in from(a.ids[i]) : b.id # a.ids[i]
  <1>1. k.revision \in Nat /\ stored.revision \in Nat /\ s \in Seq(Content) /\ Single(s)
    BY Views, StoredSingle DEF StoredType, Revision
  <1>2. /\ a.kind = "delta" /\ a.base = k.revision /\ a.revision = stored.revision
        /\ a.ids = [i \in DOMAIN s |-> s[i].id] /\ a.blocks = Kept(s, new)
    BY <1>1 DEF sync
  <1>3. sent = new
    BY <1>1, <1>2, KeptIs
  <1> HIDE DEF a, new
  <1>4. ASSUME NEW i \in DOMAIN s, NEW b \in from(s[i].id), b.id = s[i].id
        PROVE  b = s[i]
    <2>1. s[i] \in ToSet(s)
      BY DEF ToSet
    <2>2. CASE b \in new
      BY <1>1, <1>4, <2>1, <2>2, SingleIs DEF new
    <2>3. CASE b \notin new
      <3>1. b \in held /\ ~\E c \in new : c.id = s[i].id
        BY <1>3, <1>4, <2>3
      <3>2. stored.stamps[s[i].id] <= k.revision
        <4>1. s[i].id \in DOMAIN stored.stamps
          BY <2>1 DEF StoreOK
        <4>2. stored.stamps[s[i].id] \in Nat
          BY <4>1 DEF StoredType, Revision
        <4> QED BY <1>1, <2>1, <3>1, <4>2 DEF new
      <3> QED BY <1>4, <2>1, <3>1, <3>2 DEF Usable
    <2> QED BY <2>2, <2>3
  <1>5. DOMAIN a.ids = DOMAIN s /\ \A i \in DOMAIN s : a.ids[i] = s[i].id
    BY <1>2
  <1>6. CASE absent
    <2>1. applySessionSync(k, a) = Nothing
      BY <1>2, <1>6 DEF applySessionSync
    <2> QED BY <2>1 DEF a
  <1>7. CASE ~absent
    <2>1. \A i \in DOMAIN s : (CHOOSE b \in from(a.ids[i]) : b.id = a.ids[i]) = s[i]
      <3> HIDE DEF from
      <3> QED BY <1>4, <1>5, <1>7
    <2>2. [i \in DOMAIN a.ids |-> CHOOSE b \in from(a.ids[i]) : b.id = a.ids[i]] = s
      <3> HIDE DEF from
      <3>1. s = [i \in DOMAIN s |-> s[i]]
        BY <1>1
      <3> QED BY <1>5, <2>1, <3>1
    <2>3. applySessionSync(k, a) =
             [revision |-> a.revision,
              blocks |-> [i \in DOMAIN a.ids |-> CHOOSE b \in from(a.ids[i]) : b.id = a.ids[i]]]
      BY <1>2, <1>7 DEF applySessionSync
    <2> QED BY <1>2, <2>2, <2>3 DEF AsView, a
  <1> QED BY <1>6, <1>7

\* Whatever the host answers is good for a poll that knows k.
LEMMA SyncGood ==
  ASSUME StoredType(stored), StoreOK(stored, past), NEW k \in View, Known(k, stored),
         NEW r \in {Undefined, k.revision}, NEW sh \in View, Known(sh, stored)
  PROVE  Good(k, sync(r), sh, past)
  <1> DEFINE v == AsView(stored)
  <1>1. /\ v \in past /\ v.revision = stored.revision /\ stored.revision \in Nat
        /\ stored.revision <= MaxRevision /\ k.revision \in Nat
        /\ Undefined \in Nat /\ Undefined > MaxRevision /\ MaxRevision \in Nat
        /\ sh # Nothing => stored.revision >= sh.revision
        /\ k = Nothing => k.revision = Undefined
    BY Constants, Views DEF StoreOK, AsView, StoredType, Revision, Known
  <1>2. ASSUME applySessionSync(k, sync(r)) \in {v, Nothing} PROVE Good(k, sync(r), sh, past)
    BY <1>1, <1>2 DEF Good
  <1>3. CASE r = stored.revision
    <2>1. k # Nothing /\ k.revision = stored.revision
      BY <1>1, <1>3
    <2>2. /\ sync(r).kind = "unchanged" /\ sync(r).base = k.revision
      BY <1>3, <2>1 DEF sync, NoSync
    <2>3. applySessionSync(k, sync(r)) = k
      BY <2>2 DEF applySessionSync
    <2> QED BY <1>1, <2>1, <2>3 DEF Good
  <1>4. CASE r # stored.revision /\ (r > stored.revision \/ ~stored.stamped)
    <2>1. /\ sync(r).kind = "snapshot" /\ sync(r).revision = stored.revision
          /\ sync(r).blocks = stored.blocks
      BY <1>4 DEF sync, NoSync
    <2>2. applySessionSync(k, sync(r)) = v
      BY <2>1 DEF applySessionSync, AsView
    <2> QED BY <1>2, <2>2
  <1>5. CASE r # stored.revision /\ ~(r > stored.revision \/ ~stored.stamped)
    <2>1. r = k.revision /\ k.revision < stored.revision /\ stored.stamped /\ k # Nothing
      BY <1>1, <1>5
    <2> QED BY <1>2, <2>1, DeltaIs DEF Known
  <1> QED BY <1>3, <1>4, <1>5

LEMMA SyncType ==
  ASSUME StoredType(stored), NEW r \in Revision \cup {Undefined}
  PROVE  sync(r) \in Sync
  <1> DEFINE s == stored.blocks
             ids == [i \in DOMAIN s |-> s[i].id]
             new == Kept(s, {b \in ToSet(s) : stored.stamps[b.id] > r})
  <1>1. s \in Seq(Content) /\ stored.revision \in Revision
    BY DEF StoredType
  <1>2. ids \in Seq(Block) /\ new \in Seq(Content)
    <2>1. ASSUME NEW i \in DOMAIN s PROVE s[i].id \in Block
      <3>1. s[i] \in Content
        BY <1>1
      <3> QED BY <3>1 DEF Content
    <2>2. DOMAIN s = 1..Len(s) /\ Len(s) \in Nat
      BY <1>1
    <2> HIDE DEF s
    <2>3. ids \in Seq(Block)
      BY <2>1, <2>2
    <2> QED BY <1>1, <2>3, KeptIs
  <1>3. <<>> \in Seq(Block) /\ <<>> \in Seq(Content)
    OBVIOUS
  <1>4. sync(r) \in {[NoSync EXCEPT !.kind = "unchanged", !.revision = r, !.base = r],
                     [NoSync EXCEPT !.kind = "snapshot", !.revision = stored.revision,
                                    !.blocks = s],
                     [kind |-> "delta", base |-> r, revision |-> stored.revision,
                      ids |-> ids, blocks |-> new]}
    BY DEF sync
  <1>5. \A u \in {"unchanged", "snapshot", "delta"}, b, v \in Revision \cup {Undefined},
           i \in Seq(Block), c \in Seq(Content) :
              [kind |-> u, base |-> b, revision |-> v, ids |-> i, blocks |-> c] \in Sync
    BY DEF Sync
  <1>6. sync(r) \in {[kind |-> "unchanged", base |-> r, revision |-> r, ids |-> <<>>,
                      blocks |-> <<>>],
                     [kind |-> "snapshot", base |-> Undefined, revision |-> stored.revision,
                      ids |-> <<>>, blocks |-> s],
                     [kind |-> "delta", base |-> r, revision |-> stored.revision,
                      ids |-> ids, blocks |-> new]}
    BY <1>4 DEF NoSync
  <1> HIDE DEF s, ids, new
  <1>7. s \in Seq(Content) /\ stored.revision \in Revision \cup {Undefined}
        /\ Undefined \in Revision \cup {Undefined}
    BY <1>1 DEF s
  <1> DEFINE Made(u, b, v, i, c) ==
               [kind |-> u, base |-> b, revision |-> v, ids |-> i, blocks |-> c]
  <1>8. /\ Made("unchanged", r, r, <<>>, <<>>) \in Sync
        /\ Made("snapshot", Undefined, stored.revision, <<>>, s) \in Sync
        /\ Made("delta", r, stored.revision, ids, new) \in Sync
    BY <1>2, <1>3, <1>5, <1>7
  <1> QED BY <1>6, <1>8

-----------------------------------------------------------------------------
(* Polls *)

LEMMA Types ==
  ASSUME Inv
  PROVE  /\ StoredType(stored) /\ TransfersType(transfers) /\ PollsType(poll) /\ PaneType
         /\ StoreOK(stored, past) /\ OwnOK(past, own) /\ ReceiptOK(receipt, own)
         /\ Known(shown, stored) /\ Shows(shown, past, own)
         /\ PollsOK(poll, shown, stored, transfers, past, own)
         /\ past \subseteq View /\ shown \in View
  BY TypeParts DEF Inv, SyncInv, PaneType

LEMMA NoPollIs ==
  /\ NoPoll \in PollType /\ Len(NoPoll.pieces) < Length /\ NoPoll.transfer = 0
  /\ NoPoll.stage = "idle" /\ NoPoll.known = Nothing /\ NoPoll.pieces = <<>>
  /\ \A sh, st, T, P, O : PollOK(NoPoll, sh, st, T, P, O)
  <1>1. NoSync \in Sync /\ Nothing \in View
    <2>1. <<>> \in Seq(Block) /\ <<>> \in Seq(Content)
      OBVIOUS
    <2> QED BY <2>1, Views DEF NoSync, Sync
  <1>2. <<>> \in Seq(Sync) /\ Len(<<>>) = 0
    OBVIOUS
  <1>3. NoPoll.known = Nothing /\ NoPoll.stage = "idle" /\ NoPoll.transfer = 0
        /\ NoPoll.pieces = <<>>
    BY DEF NoPoll
  <1> QED BY <1>1, <1>2, <1>3 DEF NoPoll, PollType, PollOK, Known, Shows, Length

\* What a poll's answer may replace.
Base(p) == IF p = 1 THEN shown ELSE Nothing

LEMMA PollsAre ==
  ASSUME Inv, NEW p \in Slot
  PROVE  poll[p] \in PollType /\ Len(poll[p].pieces) < Length
         /\ poll[p].known \in View /\ Known(poll[p].known, stored)
         /\ Shows(poll[p].known, past, own)
         /\ PollOK(poll[p], Base(p), stored, transfers, past, own)
  <1>1. /\ poll \in [Slot -> PollType] /\ Len(poll[p].pieces) < Length
        /\ PollsOK(poll, shown, stored, transfers, past, own)
    BY Types DEF PollsType
  <1>2. PollOK(poll[p], Base(p), stored, transfers, past, own)
    BY <1>1 DEF PollsOK, Slot, Base
  <1> QED BY <1>1, <1>2 DEF PollType, PollOK

\* One poll moves on; it may bring a transfer of its own.
LEMMA PollStep ==
  ASSUME Inv, NEW p \in Slot, NEW q \in PollType, poll' = [poll EXCEPT ![p] = q],
         Len(q.pieces) < Length, TransfersType(transfers'),
         PollOK(q, Base(p), stored, transfers', past, own),
         \A t \in ToSet(transfers') :
            t \in ToSet(transfers) \/ \A r \in Slot \ {p} : t.id # poll[r].transfer,
         q.transfer # 0 => \A r \in Slot \ {p} : q.transfer # poll[r].transfer,
         UNCHANGED <<stored, past, shown, receipt, own>>, upsets' \in 0..MaxUpsets
  PROVE  Inv'
  <1>1. PollsType(poll')
    BY Types DEF PollsType
  <1>2. TypeOK'
    <2>1. PaneType' /\ StoredType(stored')
      BY Types DEF PaneType
    <2> QED BY <1>1, <2>1, TypePartsNext
  <1>3. ASSUME NEW r \in Slot \ {p}
        PROVE  PollOK(poll[r], Base(r), stored, transfers', past, own)
    <2>1. PollOK(poll[r], Base(r), stored, transfers, past, own)
      BY PollsAre
    <2>2. \A t \in ToSet(transfers') : t.own /\ t.id = poll[r].transfer => t \in ToSet(transfers)
      OBVIOUS
    <2> QED BY <2>1, <2>2 DEF PollOK
  <1>4. \A r \in Slot : PollOK(poll'[r], Base(r), stored, transfers', past, own)
    <2>1. \A r \in Slot : poll'[r] = IF r = p THEN q ELSE poll[r]
      BY Types DEF PollsType
    <2> QED BY <1>3, <2>1
  <1>5. poll'[1].transfer = poll'[2].transfer => poll'[1].transfer = 0
    <2>1. poll[1].transfer = poll[2].transfer => poll[1].transfer = 0
      BY Types DEF PollsOK
    <2>2. CASE p = 1
      BY <2>2, Types DEF PollsType, Slot
    <2>3. CASE p = 2
      BY <2>3, Types DEF PollsType, Slot
    <2> QED BY <2>2, <2>3 DEF Slot
  <1>6. PollsOK(poll', shown, stored, transfers', past, own)
    BY <1>4, <1>5 DEF PollsOK, Slot, Base
  <1>7. SyncInv'
    BY <1>6, Types DEF SyncInv
  <1> QED BY <1>2, <1>7 DEF Inv

\* Only transfers come and go.
LEMMA TransfersStep ==
  ASSUME Inv, TransfersType(transfers'),
         \A t \in ToSet(transfers') :
            t \in ToSet(transfers) \/ \A r \in Slot : t.id # poll[r].transfer,
         UNCHANGED <<stored, past, pane>>, upsets' \in 0..MaxUpsets
  PROVE  Inv'
  <1>1. UNCHANGED <<shown, poll, receipt, own>>
    BY DEF pane
  <1>2. 1 \in Slot /\ poll[1] \in PollType /\ Len(poll[1].pieces) < Length
        /\ PollOK(poll[1], Base(1), stored, transfers, past, own)
    BY PollsAre DEF Slot
  <1>3. poll' = [poll EXCEPT ![1] = poll[1]]
    BY <1>1, Types DEF PollsType
  <1>4. PollOK(poll[1], Base(1), stored, transfers', past, own)
    <2>1. \A t \in ToSet(transfers') : t.own /\ t.id = poll[1].transfer => t \in ToSet(transfers)
      BY <1>2
    <2> QED BY <1>2, <2>1 DEF PollOK
  <1>5. poll[1].transfer # 0 => \A r \in Slot \ {1} : poll[1].transfer # poll[r].transfer
    BY Types DEF PollsOK, Slot
  <1>6. \A t \in ToSet(transfers') :
            t \in ToSet(transfers) \/ \A r \in Slot \ {1} : t.id # poll[r].transfer
    OBVIOUS
  <1> QED BY <1>1, <1>2, <1>3, <1>4, <1>5, <1>6, PollStep

LEMMA NextUpset ==
  ASSUME Inv, Upset PROVE upsets' \in 0..MaxUpsets
  BY Types, Constants DEF Upset, PaneType

LEMMA ForeignStep == ASSUME Inv, Foreign PROVE Inv'
  <1> DEFINE t == [id |-> UnusedTransfer, own |-> FALSE, text |-> NoSync]
  <1>1. /\ transfers' = Append(prune(transfers), t) /\ Upset
        /\ UNCHANGED <<stored, past, pane>>
    BY DEF Foreign
  <1>2. /\ UnusedTransfer \in TransferId /\ \A u \in ToSet(transfers) : u.id # UnusedTransfer
        /\ \A p \in Slot : poll[p].transfer # UnusedTransfer
    BY Types, UnusedIs
  <1>3. NoSync \in Sync
    <2>1. <<>> \in Seq(Block) /\ <<>> \in Seq(Content)
      OBVIOUS
    <2> QED BY <2>1 DEF NoSync, Sync
  <1>4. t \in TransferType /\ t.id = UnusedTransfer
    BY <1>2, <1>3 DEF TransferType
  <1> HIDE DEF t
  <1>5. TransfersType(transfers') /\ ToSet(transfers') \subseteq ToSet(transfers) \cup {t}
    BY <1>1, <1>2, <1>4, Types, AddIs
  <1>6. \A u \in ToSet(transfers') :
            u \in ToSet(transfers) \/ \A r \in Slot : u.id # poll[r].transfer
    BY <1>2, <1>4, <1>5
  <1> QED BY <1>1, <1>5, <1>6, NextUpset, TransfersStep

LEMMA ExpireStep == ASSUME Inv, NEW i \in DOMAIN transfers, Expire(i) PROVE Inv'
  <1>1. transfers' = RemoveAt(transfers, i) /\ Upset /\ UNCHANGED <<stored, past, pane>>
    BY DEF Expire
  <1>2. TransfersType(transfers') /\ ToSet(transfers') \subseteq ToSet(transfers)
    BY <1>1, Types, DropIs
  <1> QED BY <1>1, <1>2, NextUpset, TransfersStep

LEMMA HostRestartsStep == ASSUME Inv, HostRestarts PROVE Inv'
  <1>1. transfers' = <<>> /\ Upset /\ UNCHANGED <<stored, past, pane>>
    BY DEF HostRestarts
  <1>2. TransfersType(transfers') /\ ToSet(transfers') = {}
    <2>1. <<>> \in Seq(TransferType) /\ Len(<<>>) = 0 /\ DOMAIN <<>> = {}
      OBVIOUS
    <2>2. 0 <= MaxTransfers
      BY Constants
    <2> QED BY <1>1, <2>1, <2>2 DEF TransfersType, ToSet
  <1> QED BY <1>1, <1>2, NextUpset, TransfersStep

\* A poll that ends, or asks for the whole conversation.
LEMMA PollEnds ==
  ASSUME Inv, NEW p \in Slot,
         NEW q \in {NoPoll, [NoPoll EXCEPT !.stage = "asked", !.whole = TRUE]},
         poll' = [poll EXCEPT ![p] = q],
         UNCHANGED <<host, shown, receipt, own>>, upsets' \in 0..MaxUpsets
  PROVE  Inv'
  <1>1. q \in PollType /\ q.pieces = NoPoll.pieces /\ q.transfer = 0
        /\ q.stage \in {"idle", "asked"} /\ q.known = Nothing
    BY NoPollIs DEF PollType
  <1>2. PollOK(q, Base(p), stored, transfers, past, own)
    BY <1>1, NoPollIs DEF PollOK, Known, Shows
  <1>3. UNCHANGED <<stored, transfers, past>> /\ TransfersType(transfers')
    BY Types DEF host
  <1>4. Len(q.pieces) < Length
    BY <1>1, NoPollIs
  <1> QED BY <1>1, <1>2, <1>3, <1>4, PollStep

LEMMA AskStep == ASSUME Inv, Ask PROVE Inv'
  <1> DEFINE q == [NoPoll EXCEPT !.stage = "asked", !.known = shown]
  <1>1. poll' = [poll EXCEPT ![1] = q] /\ UNCHANGED <<stored, transfers, past>>
        /\ UNCHANGED <<shown, receipt, own, upsets>>
    BY DEF Ask, host
  <1>2. /\ q \in PollType /\ q.pieces = NoPoll.pieces /\ q.transfer = 0
        /\ q.stage = "asked" /\ q.known = shown
    BY NoPollIs, Types DEF PollType
  <1> HIDE DEF q
  <1>3. PollOK(q, Base(1), stored, transfers, past, own)
    BY <1>2, NoPollIs, Types DEF PollOK
  <1>4. 1 \in Slot /\ upsets' \in 0..MaxUpsets /\ TransfersType(transfers')
    BY <1>1, Types DEF Slot, PaneType
  <1> QED BY <1>1, <1>2, <1>3, <1>4, NoPollIs, PollStep

LEMMA RespondStep == ASSUME Inv, NEW p \in Slot, respond(p) PROVE Inv'
  <1> DEFINE r == IF poll[p].whole THEN Undefined ELSE poll[p].known.revision
             answer == sync(r)
             t == [id |-> UnusedTransfer, own |-> TRUE, text |-> answer]
             told == [poll[p] EXCEPT !.stage = "answered", !.answer = answer]
             begun == [poll[p] EXCEPT !.stage = "reading", !.transfer = UnusedTransfer]
  <1>1. /\ poll[p].stage = "asked" /\ UNCHANGED <<stored, past, shown, receipt, own, upsets>>
        /\ \/ poll' = [poll EXCEPT ![p] = told] /\ UNCHANGED transfers
           \/ poll' = [poll EXCEPT ![p] = begun] /\ transfers' = Append(prune(transfers), t)
    BY DEF respond
  <1>2. upsets' \in 0..MaxUpsets
    BY <1>1, Types DEF PaneType
  <1>3. /\ poll[p] \in PollType /\ Len(poll[p].pieces) < Length /\ poll[p].known \in View
        /\ Known(poll[p].known, stored)
        /\ PollOK(poll[p], Base(p), stored, transfers, past, own)
    BY PollsAre
  <1>4. r \in {Undefined, poll[p].known.revision} /\ r \in Revision \cup {Undefined}
    BY <1>3 DEF View
  <1>5. Base(p) \in View /\ Known(Base(p), stored)
    BY Types, Views DEF Base, Known
  <1>6. Good(poll[p].known, answer, Base(p), past) /\ answer \in Sync
    BY <1>3, <1>4, <1>5, Types, SyncGood, SyncType
  <1> HIDE DEF answer, r
  <1>7. poll[p].transfer = 0 /\ poll[p].pieces = <<>>
    BY <1>1, <1>3 DEF PollOK
  <1>8. CASE poll' = [poll EXCEPT ![p] = told] /\ UNCHANGED transfers
    <2>1. /\ told \in PollType /\ told.stage = "answered" /\ told.answer = answer
          /\ told.known = poll[p].known /\ told.transfer = 0 /\ told.pieces = poll[p].pieces
      BY <1>3, <1>6, <1>7 DEF PollType
    <2> HIDE DEF told
    <2>2. PollOK(told, Base(p), stored, transfers, past, own)
      BY <1>3, <1>6, <1>7, <2>1 DEF PollOK
    <2>3. UNCHANGED <<stored, past, shown, receipt, own>> /\ Len(told.pieces) < Length
          /\ poll' = [poll EXCEPT ![p] = told] /\ TransfersType(transfers')
      BY <1>1, <1>3, <1>8, <2>1, Types
    <2> QED BY <1>2, <1>8, <2>1, <2>2, <2>3, PollStep
  <1>9. CASE poll' = [poll EXCEPT ![p] = begun] /\ transfers' = Append(prune(transfers), t)
    <2>1. /\ UnusedTransfer \in TransferId /\ \A u \in ToSet(transfers) : u.id # UnusedTransfer
          /\ \A s \in Slot : poll[s].transfer # UnusedTransfer
          /\ UnusedTransfer # 0
      BY Types, UnusedIs
    <2>2. t \in TransferType /\ t.id = UnusedTransfer /\ t.text = answer
      BY <1>6, <2>1 DEF TransferType
    <2>3. /\ begun \in PollType /\ begun.stage = "reading" /\ begun.transfer = UnusedTransfer
          /\ begun.known = poll[p].known /\ begun.pieces = poll[p].pieces
      BY <1>3, <2>1 DEF PollType
    <2> HIDE DEF t, begun
    <2>4. TransfersType(transfers') /\ ToSet(transfers') \subseteq ToSet(transfers) \cup {t}
      BY <1>9, <2>1, <2>2, Types, AddIs
    <2>6. PollOK(begun, Base(p), stored, transfers', past, own)
      <3>1. \A u \in ToSet(transfers') : u.own /\ u.id = begun.transfer => u = t
        BY <2>1, <2>3, <2>4
      <3> QED BY <1>3, <1>6, <1>7, <2>1, <2>2, <2>3, <3>1 DEF PollOK
    <2>7. \A u \in ToSet(transfers') :
            u \in ToSet(transfers) \/ \A s \in Slot \ {p} : u.id # poll[s].transfer
      BY <2>1, <2>2, <2>4
    <2>8. \A s \in Slot \ {p} : begun.transfer # poll[s].transfer
      BY <2>1, <2>3
    <2>9. UNCHANGED <<stored, past, shown, receipt, own>> /\ Len(begun.pieces) < Length
          /\ poll' = [poll EXCEPT ![p] = begun]
      BY <1>1, <1>3, <1>9, <2>3
    <2> QED BY <1>2, <2>3, <2>4, <2>6, <2>7, <2>8, <2>9, PollStep
  <1> QED BY <1>1, <1>8, <1>9

\* Both pieces are of the same text.
LEMMA AssembledIs ==
  ASSUME NEW a \in Sync PROVE Assembled(a, a) = a
  BY DEF Assembled, Sync

LEMMA ChunkStep == ASSUME Inv, NEW p \in Slot, chunk(p) PROVE Inv'
  <1>1. PICK i \in OfPoll(p) :
          IF Len(poll[p].pieces) + 1 < Length
          THEN /\ poll' = [poll EXCEPT ![p].pieces = Append(@, transfers[i].text)]
               /\ UNCHANGED transfers
          ELSE /\ poll' = [poll EXCEPT ![p].stage = "answered", ![p].transfer = 0,
                             ![p].pieces = <<>>,
                             ![p].answer = Assembled(poll[p].pieces[1], transfers[i].text)]
               /\ transfers' = RemoveAt(transfers, i)
    BY DEF chunk
  <1> DEFINE text == transfers[i].text
             more == [poll[p] EXCEPT !.pieces = Append(@, text)]
             told == [poll[p] EXCEPT !.stage = "answered", !.transfer = 0, !.pieces = <<>>,
                                     !.answer = Assembled(poll[p].pieces[1], text)]
  <1>2. /\ poll[p].stage = "reading" /\ UNCHANGED <<stored, past, shown, receipt, own>>
        /\ upsets' \in 0..MaxUpsets
    BY Types DEF chunk, PaneType
  <1>3. /\ poll[p] \in PollType /\ Len(poll[p].pieces) < Length
        /\ PollOK(poll[p], Base(p), stored, transfers, past, own)
    BY PollsAre
  <1>4. /\ i \in DOMAIN transfers /\ transfers[i] \in ToSet(transfers) /\ transfers[i].own
        /\ transfers[i].id = poll[p].transfer /\ text \in Sync
    <2>1. i \in DOMAIN transfers /\ transfers[i].own /\ transfers[i].id = poll[p].transfer
      BY DEF OfPoll
    <2>2. transfers[i] \in TransferType
      BY <2>1, Types DEF TransfersType
    <2> QED BY <2>1, <2>2 DEF ToSet, TransferType
  <1>5. /\ Good(poll[p].known, text, Base(p), past)
        /\ poll[p].pieces # <<>> => poll[p].pieces[1] = text
    BY <1>2, <1>3, <1>4 DEF PollOK
  <1>6. poll[p].pieces \in Seq(Sync) /\ Len(poll[p].pieces) \in {0, 1}
    <2>1. poll[p].pieces \in Seq(Sync)
      BY <1>3 DEF PollType
    <2>2. Len(poll[p].pieces) \in Nat /\ Len(poll[p].pieces) < 2
      BY <1>3, <2>1 DEF Length
    <2>3. \A n \in Nat : n < 2 => n \in {0, 1}
      OBVIOUS
    <2> QED BY <2>1, <2>2, <2>3
  <1>7. \A r \in Slot \ {p} : poll[p].transfer # poll[r].transfer
    <2>1. poll[p].transfer # 0
      BY <1>2, <1>3 DEF PollOK
    <2> QED BY <2>1, Types DEF PollsOK, Slot
  <1> HIDE DEF text
  <1>8. CASE Len(poll[p].pieces) + 1 < Length
    <2>1. poll' = [poll EXCEPT ![p] = more] /\ UNCHANGED transfers
      BY <1>1, <1>8 DEF text
    <2>2. poll[p].pieces = <<>>
      BY <1>6, <1>8 DEF Length
    <2>3. Append(poll[p].pieces, text) = <<text>> /\ <<text>> \in Seq(Sync)
          /\ Len(<<text>>) = 1 /\ <<text>>[1] = text
      BY <1>4, <2>2
    <2>4. /\ more \in PollType /\ more.stage = "reading" /\ more.pieces = <<text>>
          /\ more.known = poll[p].known /\ more.transfer = poll[p].transfer
      BY <1>2, <1>3, <2>3 DEF PollType
    <2> HIDE DEF more
    <2>5. \A t \in ToSet(transfers) : t.own /\ t.id = poll[p].transfer => t.text = text
      <3>1. \A j \in DOMAIN transfers : transfers[j].id = transfers[i].id => j = i
        BY <1>4, Types DEF TransfersType
      <3> QED BY <1>4, <3>1 DEF ToSet, text
    <2>6. PollOK(more, Base(p), stored, transfers, past, own)
      BY <1>2, <1>3, <1>5, <2>3, <2>4, <2>5 DEF PollOK
    <2>7. Len(more.pieces) < Length /\ TransfersType(transfers')
          /\ \A t \in ToSet(transfers') :
               t \in ToSet(transfers) \/ \A r \in Slot \ {p} : t.id # poll[r].transfer
      BY <2>1, <2>3, <2>4, Types DEF Length
    <2>8. PollOK(more, Base(p), stored, transfers', past, own)
      BY <2>1, <2>6
    <2> QED BY <1>2, <1>7, <2>1, <2>4, <2>7, <2>8, PollStep
  <1>9. CASE ~(Len(poll[p].pieces) + 1 < Length)
    <2>1. poll' = [poll EXCEPT ![p] = told] /\ transfers' = RemoveAt(transfers, i)
      BY <1>1, <1>9 DEF text
    <2>2. poll[p].pieces # <<>>
      BY <1>6, <1>9 DEF Length
    <2>3. Assembled(poll[p].pieces[1], text) = text
      BY <1>4, <1>5, <2>2, AssembledIs
    <2>4. /\ told \in PollType /\ told.stage = "answered" /\ told.pieces = <<>>
          /\ told.known = poll[p].known /\ told.transfer = 0 /\ told.answer = text
      <3>1. <<>> \in Seq(Sync)
        OBVIOUS
      <3> QED BY <1>3, <1>4, <2>3, <3>1 DEF PollType
    <2> HIDE DEF told
    <2>5. TransfersType(transfers') /\ ToSet(transfers') \subseteq ToSet(transfers)
      BY <1>4, <2>1, Types, DropIs
    <2>6. PollOK(told, Base(p), stored, transfers', past, own)
      BY <1>3, <1>5, <2>4 DEF PollOK
    <2>7. Len(told.pieces) < Length
          /\ \A t \in ToSet(transfers') :
               t \in ToSet(transfers) \/ \A r \in Slot \ {p} : t.id # poll[r].transfer
      BY <2>4, <2>5 DEF Length
    <2> QED BY <1>2, <2>1, <2>4, <2>5, <2>6, <2>7, PollStep
  <1> QED BY <1>8, <1>9

LEMMA GoneStep == ASSUME Inv, NEW p \in Slot, Gone(p) PROVE Inv'
  <1>1. upsets' \in 0..MaxUpsets
    BY Types DEF Gone, PaneType
  <1> QED BY <1>1, PollEnds DEF Gone

LEMMA LostStep == ASSUME Inv, NEW p \in Slot, Lost(p) PROVE Inv'
  BY NextUpset, PollEnds DEF Lost

\* A step that shows something else, and begins the first poll anew.
LEMMA ShowingStep ==
  ASSUME Inv, shown' \in View, Known(shown', stored), Shows(shown', past, own),
         receipt' \in [id : {0} \cup Block, revision : Revision \cup {Undefined}],
         ReceiptOK(receipt', own), UNCHANGED <<host, own, upsets>>,
         PollsType(poll'), PollsOK(poll', shown', stored, transfers, past, own)
  PROVE  Inv'
  <1>1. UNCHANGED <<stored, transfers, past, own, upsets>>
    BY DEF host
  <1>2. TypeOK'
    <2>1. StoredType(stored') /\ TransfersType(transfers') /\ PaneType'
      BY <1>1, Types DEF PaneType
    <2> QED BY <2>1, TypePartsNext
  <1>3. SyncInv'
    BY <1>1, Types DEF SyncInv
  <1> QED BY <1>2, <1>3 DEF Inv

\* What was assembled from an answer may be shown.
LEMMA AppliedIs ==
  ASSUME Inv, NEW p \in Slot, poll[p].stage = "answered",
         applySessionSync(poll[p].known, poll[p].answer) # Nothing
  PROVE  LET next == applySessionSync(poll[p].known, poll[p].answer)
         IN  /\ next \in View /\ Known(next, stored) /\ Shows(next, past, own)
             /\ next.revision \in Revision
             /\ p = 1 /\ shown # Nothing => next.revision >= shown.revision
  <1> DEFINE next == applySessionSync(poll[p].known, poll[p].answer)
  <1>1. /\ Good(poll[p].known, poll[p].answer, Base(p), past) /\ poll[p].known \in View
        /\ Known(poll[p].known, stored) /\ Shows(poll[p].known, past, own)
    BY PollsAre DEF PollOK
  <1>2. /\ next \in past \cup {poll[p].known} /\ next # Nothing
        /\ p = 1 /\ shown # Nothing => next.revision >= shown.revision
    BY <1>1 DEF Good, Base
  <1> HIDE DEF next
  <1>3. next \in View /\ Known(next, stored) /\ Shows(next, past, own)
    <2>1. CASE next \in past
      BY <2>1, Types DEF StoreOK, Shows
    <2>2. CASE next = poll[p].known
      BY <1>1, <2>2
    <2> QED BY <1>2, <2>1, <2>2
  <1>4. next.revision <= stored.revision /\ next.revision \in Nat
        /\ stored.revision \in 0..MaxRevision
    BY <1>2, <1>3, Types, Views DEF Known, StoredType, Revision
  <1>5. next.revision \in Revision
    BY <1>4, Constants DEF Revision
  <1> QED BY <1>2, <1>3, <1>5 DEF next

LEMMA DeliverStep == ASSUME Inv, NEW p \in Slot, Deliver(p) PROVE Inv'
  <1> DEFINE next == applySessionSync(poll[p].known, poll[p].answer)
             again == [NoPoll EXCEPT !.stage = "asked", !.whole = TRUE]
  <1>1. /\ poll[p].stage = "answered" /\ UNCHANGED <<host, receipt, own, upsets>>
        /\ IF next = Nothing
           THEN poll' = [poll EXCEPT ![p] = again] /\ UNCHANGED shown
           ELSE /\ poll' = [poll EXCEPT ![p] = NoPoll]
                /\ shown' = IF p = 1 THEN next ELSE shown
    BY DEF Deliver
  <1>2. upsets' \in 0..MaxUpsets
    BY <1>1, Types DEF PaneType
  <1>3. CASE UNCHANGED shown
    <2>1. \E q \in {NoPoll, again} : poll' = [poll EXCEPT ![p] = q]
      BY <1>1
    <2> QED BY <1>1, <1>2, <1>3, <2>1, PollEnds
  <1>4. CASE next # Nothing /\ p = 1
    <2>1. shown' = next /\ poll' = [poll EXCEPT ![1] = NoPoll]
      BY <1>1, <1>4
    <2>2. next \in View /\ Known(next, stored) /\ Shows(next, past, own)
      BY <1>1, <1>4, AppliedIs
    <2> HIDE DEF next
    <2>3. poll'[1] = NoPoll /\ poll'[2] = poll[2] /\ PollsType(poll')
      BY <2>1, NoPollIs, Types DEF PollsType, Slot
    <2>4. PollsOK(poll', shown', stored, transfers, past, own)
      <3>1. PollOK(poll[2], Nothing, stored, transfers, past, own)
        BY Types DEF PollsOK
      <3> QED BY <2>3, <3>1, NoPollIs DEF PollsOK
    <2>5. receipt' \in [id : {0} \cup Block, revision : Revision \cup {Undefined}]
          /\ ReceiptOK(receipt', own)
      BY <1>1, Types DEF PaneType
    <2> QED BY <1>1, <2>1, <2>2, <2>3, <2>4, <2>5, ShowingStep
  <1> QED BY <1>1, <1>3, <1>4

\* The poll in progress goes on as the one whose answer is dropped.
LEMMA RestartedIs ==
  ASSUME Inv, NEW sh
  PROVE  PollsType(Restarted) /\ PollsOK(Restarted, sh, stored, transfers, past, own)
  <1>1. Restarted[1] = NoPoll /\ Restarted[2] = poll[1] /\ PollsType(Restarted)
    BY NoPollIs, Types DEF Restarted, PollsType, Slot
  <1>2. PollOK(poll[1], shown, stored, transfers, past, own)
    BY Types DEF PollsOK
  <1>3. \A k, a : Good(k, a, shown, past) => Good(k, a, Nothing, past)
    BY DEF Good
  <1>4. PollOK(poll[1], Nothing, stored, transfers, past, own)
    BY <1>2, <1>3 DEF PollOK
  <1> QED BY <1>1, <1>4, NoPollIs DEF PollsOK

LEMMA RefreshStep == ASSUME Inv, Refresh PROVE Inv'
  <1>1. /\ poll' = Restarted /\ UNCHANGED <<stored, transfers, past, shown, receipt, own>>
        /\ upsets' \in 0..MaxUpsets
    BY NextUpset DEF Refresh, host
  <1>2. PollsType(poll') /\ PollsOK(poll', shown, stored, transfers, past, own)
    BY <1>1, RestartedIs
  <1>3. TypeOK'
    <2>1. StoredType(stored') /\ TransfersType(transfers') /\ PaneType'
      BY <1>1, Types DEF PaneType
    <2> QED BY <1>2, <2>1, TypePartsNext
  <1>4. SyncInv'
    BY <1>1, <1>2, Types DEF SyncInv
  <1> QED BY <1>3, <1>4 DEF Inv

-----------------------------------------------------------------------------
(* Drafts *)

LEMMA WithDraftIs ==
  ASSUME NEW v \in View, NEW b \in Content, Single(v.blocks), v = Nothing \/ v.revision \in Revision
  PROVE  /\ WithDraft(v, b) \in View /\ WithDraft(v, b) # Nothing
         /\ WithDraft(v, b).revision = IF v = Nothing THEN 0 ELSE v.revision
         /\ Single(WithDraft(v, b).blocks)
         /\ ToSet(WithDraft(v, b).blocks) =
               {c \in ToSet(v.blocks) : ~c.draft /\ c.id # b.id} \cup {b}
  <1> DEFINE S == {c \in ToSet(v.blocks) : ~c.draft /\ c.id # b.id}
             s == Kept(v.blocks, S)
             r == IF v = Nothing THEN 0 ELSE v.revision
  <1>1. s \in Seq(Content) /\ Single(s) /\ ToSet(s) = S
    BY Views, KeptIs
  <1>2. r \in 0..MaxRevision
    BY Constants DEF Revision
  <1>3. WithDraft(v, b) = [revision |-> r, blocks |-> Append(s, b)]
    BY DEF WithDraft
  <1>4. \A c \in S : c.id # b.id
    OBVIOUS
  <1> HIDE DEF r, s, S
  <1>5. /\ Append(s, b) \in Seq(Content) /\ Single(Append(s, b))
        /\ ToSet(Append(s, b)) = S \cup {b}
    BY <1>1, <1>4, AppendIs, AppendSingle
  <1>6. WithDraft(v, b) \in View /\ WithDraft(v, b) # Nothing
    BY <1>2, <1>3, <1>5, Views
  <1>7. WithDraft(v, b).revision = r /\ WithDraft(v, b).blocks = Append(s, b)
    BY <1>3
  <1> QED BY <1>5, <1>6, <1>7 DEF r, S

\* A draft takes the place of another.
LEMMA WithDraftTwice ==
  ASSUME NEW v \in View, NEW b \in Content, NEW d \in Content, b.draft,
         Single(v.blocks), v = Nothing \/ v.revision \in Revision,
         \A c \in ToSet(v.blocks) : c.id = b.id => c = b
  PROVE  WithDraft(WithDraft(v, b), d) = WithDraft(v, d)
  <1> DEFINE w == WithDraft(v, b)
             A == {c \in ToSet(v.blocks) : ~c.draft /\ c.id # b.id}
             B == {c \in ToSet(w.blocks) : ~c.draft /\ c.id # d.id}
             C == {c \in ToSet(v.blocks) : ~c.draft /\ c.id # d.id}
             s == Kept(v.blocks, A)
  <1>1. v.blocks \in Seq(Content) /\ s \in Seq(Content)
    BY Views, KeptIs
  <1>2. w # Nothing /\ ToSet(w.blocks) = A \cup {b}
        /\ w.revision = IF v = Nothing THEN 0 ELSE v.revision
    BY WithDraftIs
  <1>3. w.blocks = Append(s, b)
    BY DEF WithDraft
  <1>4. B = A \cap C
    BY <1>2
  <1>5. A \cap C = C
    OBVIOUS
  <1>6. WithDraft(w, d) = [revision |-> w.revision, blocks |-> Append(Kept(w.blocks, B), d)]
    BY <1>2 DEF WithDraft
  <1>7. WithDraft(v, d) =
           [revision |-> IF v = Nothing THEN 0 ELSE v.revision,
            blocks |-> Append(Kept(v.blocks, C), d)]
    BY DEF WithDraft
  <1>8. Kept(w.blocks, B) = Kept(v.blocks, C)
    <2>1. b \notin B
      OBVIOUS
    <2> HIDE DEF A, B, C, w
    <2>2. Kept(w.blocks, B) = Kept(s, B)
      BY <1>1, <1>3, <2>1, KeptAppend
    <2>3. Kept(s, B) = Kept(v.blocks, A \cap B)
      BY <1>1, KeptTwice
    <2>4. A \cap B = C
      BY <1>4, <1>5
    <2> QED BY <2>2, <2>3, <2>4
  <1> HIDE DEF w, B, C
  <1>9. WithDraft(w, d) = WithDraft(v, d)
    BY <1>2, <1>6, <1>7, <1>8
  <1> QED BY <1>9 DEF w

\* What a pane may show with a draft of its own is what it may show.
LEMMA DraftShows ==
  ASSUME Inv, NEW d \in own
  PROVE  Shows(WithDraft(shown, d), past, own)
  <1>1. /\ own \subseteq Content /\ past \subseteq View /\ OwnOK(past, own)
        /\ Shows(shown, past, own)
    BY Types DEF PaneType
  <1>2. CASE shown \in past \cup {Nothing}
    BY <1>2 DEF Shows
  <1>3. ASSUME NEW c \in past \cup {Nothing}, NEW b \in own, shown = WithDraft(c, b)
        PROVE  Shows(WithDraft(shown, d), past, own)
    <2>1. c \in View /\ b.draft /\ \A x \in ToSet(c.blocks) : x.id = b.id => x = b
      <3>1. ToSet(Nothing.blocks) = {}
        BY DEF Nothing, ToSet
      <3> QED BY <1>1, <3>1, Views DEF OwnOK
    <2>2. Single(c.blocks) /\ (c = Nothing \/ c.revision \in Revision)
      <3>1. CASE c = Nothing
        BY <3>1 DEF Nothing, Single
      <3>2. CASE c \in past
        <4>1. c # Nothing /\ Known(c, stored) /\ stored.revision \in 0..MaxRevision
          BY <3>2, Types DEF StoreOK, StoredType, Revision
        <4>2. c.revision \in Nat /\ c.revision <= stored.revision
          BY <2>1, <4>1, Views DEF Known
        <4> QED BY <4>1, <4>2, Constants DEF Known, Usable, Revision
      <3> QED BY <3>1, <3>2
    <2>3. WithDraft(shown, d) = WithDraft(c, d)
      BY <1>1, <1>3, <2>1, <2>2, WithDraftTwice
    <2> QED BY <2>3 DEF Shows
  <1> QED BY <1>1, <1>2, <1>3 DEF Shows

\* The draft that is shown, ahead or late, is the one that was stored.
LEMMA DraftAnsweredStep == ASSUME Inv, DraftAnswered PROVE Inv'
  <1> DEFINE d == Drawn(receipt)
             w == WithDraft(shown, d)
  <1>1. /\ receipt # NoReceipt /\ shown' = w /\ receipt' = NoReceipt /\ poll' = Restarted
        /\ UNCHANGED <<host, own, upsets>>
    BY DEF DraftAnswered, Drawn
  <1>2. /\ d \in own /\ d \in Content /\ shown \in View /\ Known(shown, stored)
        /\ stored.revision \in 0..MaxRevision /\ stored.revision > 0
        /\ stored.blocks \in Seq(Content) /\ AsView(stored) \in past
    BY <1>1, Types DEF PaneType, ReceiptOK, StoreOK, StoredType, Revision
  <1>3. Single(shown.blocks) /\ (shown = Nothing \/ shown.revision \in Revision)
    <2>1. CASE shown = Nothing
      BY <2>1 DEF Nothing, Single
    <2>2. CASE shown # Nothing
      <3>1. shown.revision \in Nat /\ shown.revision <= stored.revision
        BY <1>2, <2>2, Views DEF Known
      <3> QED BY <1>2, <2>2, <3>1, Constants DEF Known, Usable, Revision
    <2> QED BY <2>1, <2>2
  <1> HIDE DEF d
  <1>4. /\ w \in View /\ w # Nothing /\ Single(w.blocks)
        /\ w.revision = IF shown = Nothing THEN 0 ELSE shown.revision
        /\ ToSet(w.blocks) = {c \in ToSet(shown.blocks) : ~c.draft /\ c.id # d.id} \cup {d}
    BY <1>2, <1>3, WithDraftIs
  <1>5. Shows(w, past, own)
    BY <1>2, DraftShows
  <1> HIDE DEF w
  <1>6. ASSUME stored.stamped, NEW b \in ToSet(stored.blocks), NEW c \in ToSet(w.blocks),
               stored.stamps[b.id] <= w.revision, c.id = b.id
        PROVE  c = b
    <2>1. CASE c = d
      <3>1. b \in ToSet(AsView(stored).blocks)
        BY DEF AsView
      <3> QED BY <1>2, <1>6, <2>1, <3>1, Types DEF OwnOK
    <2>2. CASE c \in ToSet(shown.blocks)
      <3>1. b.id \in DOMAIN stored.stamps
        BY <1>6, Types DEF StoreOK
      <3>2. stored.stamps[b.id] \in Nat /\ stored.stamps[b.id] > 0
        BY <3>1, Types DEF StoredType, Revision, StoreOK
      <3>3. shown # Nothing /\ w.revision = shown.revision
        BY <1>4, <1>6, <3>2
      <3> QED BY <1>2, <1>6, <2>2, <3>3 DEF Known, Usable
    <2> QED BY <1>4, <2>1, <2>2
  <1>7. Known(w, stored)
    <2>1. Usable(w, stored)
      BY <1>4, <1>6 DEF Usable
    <2>2. w.revision <= stored.revision
      BY <1>2, <1>4 DEF Known
    <2> QED BY <2>1, <2>2 DEF Known
  <1>8. receipt' \in [id : {0} \cup Block, revision : Revision \cup {Undefined}]
        /\ ReceiptOK(receipt', own)
    BY <1>1 DEF NoReceipt, ReceiptOK
  <1> QED BY <1>1, <1>4, <1>5, <1>7, <1>8, RestartedIs, ShowingStep

-----------------------------------------------------------------------------
(* The theorems *)

LEMMA InvInit == ASSUME Init PROVE Inv
  <1>1. PICK stamped \in BOOLEAN :
          stored = [revision |-> 1, blocks |-> <<First>>,
                    stamps |-> [b \in {c \in {1} : stamped} |-> 1], stamped |-> stamped]
    BY DEF Init
  <1> DEFINE m == [b \in {c \in {1} : stamped} |-> 1]
             s == <<First>>
  <1>2. /\ stored.revision = 1 /\ stored.blocks = s /\ stored.stamps = m
        /\ stored.stamped = stamped
        /\ stored = [revision |-> stored.revision, blocks |-> stored.blocks,
                     stamps |-> stored.stamps, stamped |-> stored.stamped]
    BY <1>1
  <1>3. /\ transfers = <<>> /\ shown = Nothing /\ poll = [p \in Slot |-> NoPoll]
        /\ receipt = NoReceipt /\ past = {[revision |-> 1, blocks |-> s]}
        /\ own = {} /\ upsets = 0
    BY DEF Init
  <1>4. First \in Content /\ First.id = 1 /\ 1 \in Revision /\ 1 \in 0..MaxRevision
    BY Constants DEF First, Content, Revision
  <1>5. s \in Seq(Content) /\ DOMAIN s = {1} /\ s[1] = First /\ ToSet(s) = {First}
    BY <1>4 DEF ToSet
  <1>6. DOMAIN m = {c \in {1} : stamped} /\ m \in [DOMAIN m -> Revision] /\ DOMAIN m \subseteq Block
        /\ \A id \in DOMAIN m : m[id] = 1
    BY <1>4, Constants
  <1>7. stamped => DOMAIN m = {b.id : b \in ToSet(s)}
    BY <1>4, <1>5, <1>6
  <1>8. ~stamped => DOMAIN m = {}
    BY <1>6
  <1> HIDE DEF s, m
  <1>9. StoredType(stored)
    BY <1>2, <1>4, <1>5, <1>6 DEF StoredType
  <1>10. AsView(stored) \in past /\ \A v \in past : v = AsView(stored)
    BY <1>2, <1>3 DEF AsView
  <1>11. /\ AsView(stored) = [revision |-> 1, blocks |-> s] /\ AsView(stored) \in View
         /\ AsView(stored) # Nothing
    BY <1>2, <1>4, <1>5, Views DEF AsView
  <1>12. Known(AsView(stored), stored)
    BY <1>2, <1>5, <1>10, <1>11 DEF Known, Usable, Single
  <1>13. StoreOK(stored, past)
    BY <1>2, <1>6, <1>7, <1>8, <1>10, <1>11, <1>12 DEF StoreOK
  <1>14. TransfersType(transfers)
    <2>1. <<>> \in Seq(TransferType) /\ Len(<<>>) = 0 /\ DOMAIN <<>> = {}
      OBVIOUS
    <2> QED BY <1>3, <2>1, Constants DEF TransfersType
  <1>15. PollsType(poll) /\ PollsOK(poll, shown, stored, transfers, past, own)
    BY <1>3, NoPollIs DEF PollsType, PollsOK, Slot
  <1>16. PaneType
    <2>1. past \subseteq View
      BY <1>10, <1>11
    <2>2. receipt \in [id : {0} \cup Block, revision : Revision \cup {Undefined}]
      BY <1>3 DEF NoReceipt
    <2>3. upsets \in 0..MaxUpsets
      BY <1>3, Constants
    <2>4. shown \in View /\ own \subseteq Content
      BY <1>3, Views
    <2> QED BY <2>1, <2>2, <2>3, <2>4 DEF PaneType
  <1>17. /\ Known(shown, stored) /\ Shows(shown, past, own)
         /\ OwnOK(past, own) /\ ReceiptOK(receipt, own)
    BY <1>3 DEF Known, Shows, OwnOK, ReceiptOK
  <1> QED BY <1>9, <1>13, <1>14, <1>15, <1>16, <1>17, TypeParts DEF Inv, SyncInv

LEMMA InvStep == ASSUME Inv, [Next]_vars PROVE Inv'
  <1>1. CASE Change
    BY <1>1, ChangeStep
  <1>2. CASE RemoveDraft
    BY <1>2, RemoveDraftStep
  <1>3. CASE Draft
    BY <1>3, DraftStep
  <1>4. CASE DraftAnswered
    BY <1>4, DraftAnsweredStep
  <1>5. CASE Ask
    BY <1>5, AskStep
  <1>6. CASE Refresh
    BY <1>6, RefreshStep
  <1>7. ASSUME NEW p \in Slot, Polls(p) \/ Lost(p) PROVE Inv'
    BY <1>7, RespondStep, ChunkStep, DeliverStep, GoneStep, LostStep DEF Polls
  <1>8. CASE Foreign
    BY <1>8, ForeignStep
  <1>9. CASE HostRestarts
    BY <1>9, HostRestartsStep
  <1>10. ASSUME NEW i \in DOMAIN transfers, Expire(i) PROVE Inv'
    BY <1>10, ExpireStep
  <1>11. CASE UNCHANGED vars
    <2>1. UNCHANGED <<stored, transfers, past, shown, poll, receipt, own, upsets>>
      BY <1>11 DEF vars, host, pane
    <2>2. TypeOK'
      BY <2>1, Types, TypePartsNext DEF PaneType
    <2>3. SyncInv'
      BY <2>1, Types DEF SyncInv
    <2> QED BY <2>2, <2>3 DEF Inv
  <1> QED BY <1>1, <1>2, <1>3, <1>4, <1>5, <1>6, <1>7, <1>8, <1>9, <1>10, <1>11 DEF Next

\* The inductive invariant holds of every conversation that a host stores
\* (HostStore.save, sync, SyncTransfers) and a pane follows (RemoteSession.tsx).
THEOREM SyncInvariant == Spec => []Inv
  <1>1. Init => Inv
    BY InvInit
  <1>2. Inv /\ [Next]_vars => Inv'
    BY InvStep
  <1> QED BY <1>1, <1>2, PTL DEF Spec

\* Types: whatever the host changes, there is an identifier for each transfer,
\* and no more transfers than MAX_TRANSFERS.
THEOREM SyncTypeCorrect == Spec => []TypeOK
  <1>1. Inv => TypeOK
    BY DEF Inv
  <1> QED BY <1>1, SyncInvariant, PTL

\* Deltas and pieces that are assembled while the host goes on changing the
\* conversation show a conversation that it stored (applySessionSync), and
\* nothing is added to it but a draft that the pane has sent, late as its answer
\* may be (RemoteSession.tsx).
THEOREM PanesShowThePast == Spec => []ShownWasStored
  <1>1. Inv => ShownWasStored
    BY DEF Inv, SyncInv, Shows, ShownWasStored, UpToDraft
  <1> QED BY <1>1, SyncInvariant, PTL

\* No answer, late, overtaken or assembled from pieces, takes a pane back.
THEOREM PanesGoForward == Spec => NeverBackward
  <1>1. ASSUME Inv, [Next]_vars, shown # Nothing
        PROVE  shown'.revision \in Revision /\ shown'.revision >= shown.revision
    <2>1. shown.revision \in Revision /\ shown.revision \in Nat
      <3>1. shown.revision \in Nat /\ shown.revision <= stored.revision
            /\ stored.revision \in 0..MaxRevision
        BY <1>1, Types, Views DEF Known, StoredType, Revision
      <3> QED BY <3>1, Constants DEF Revision
    <2>2. CASE shown' = shown
      BY <2>1, <2>2
    <2>3. CASE DraftAnswered
      <3>1. shown'.revision = shown.revision
        BY <1>1, <2>3 DEF DraftAnswered, WithDraft
      <3> QED BY <2>1, <3>1
    <2>4. ASSUME NEW p \in Slot, Deliver(p), shown' # shown
          PROVE  shown'.revision \in Revision /\ shown'.revision >= shown.revision
      <3>1. /\ poll[p].stage = "answered" /\ p = 1
            /\ shown' = applySessionSync(poll[p].known, poll[p].answer)
            /\ shown' # Nothing
        BY <2>4 DEF Deliver
      <3> QED BY <1>1, <3>1, AppliedIs
    <2>5. CASE \/ Change \/ RemoveDraft \/ Draft \/ Ask \/ Refresh \/ Foreign \/ HostRestarts
               \/ \E i \in DOMAIN transfers : Expire(i)
               \/ \E p \in Slot : respond(p) \/ chunk(p) \/ Gone(p) \/ Lost(p)
               \/ UNCHANGED vars
      <3>1. shown' = shown
        BY <2>5 DEF Change, RemoveDraft, Draft, Ask, Refresh, Foreign, HostRestarts, Expire,
                    respond, chunk, Gone, Lost, vars, pane
      <3> QED BY <2>2, <3>1
    <2> QED BY <1>1, <2>2, <2>3, <2>4, <2>5 DEF Next, Polls
  <1>2. Inv /\ [Next]_vars
        => [shown # Nothing => shown'.revision \in Revision
                               /\ shown'.revision >= shown.revision]_vars
    BY <1>1
  <1> QED BY <1>2, SyncInvariant, PTL DEF Spec, NeverBackward
=============================================================================
