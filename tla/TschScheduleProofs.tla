-------------------------- MODULE TschScheduleProofs --------------------------
(***************************************************************************)
(* The lists and pools of the schedule, for any number of links, of        *)
(* slotframes and of calls: each operation leaves every link at one place, *)
(* counted once, in a slotframe that has its timeslot.                     *)
(*                                                                         *)
(* A call consists of several sections, and the schedule it leaves in      *)
(* between is only right for what the call is still to do: the invariant   *)
(* is as much about the sections that are left (TodoOK) as about the lists *)
(* (PoolInv).                                                              *)
(***************************************************************************)
EXTENDS TschScheduleProperties, FoldFacts, FiniteSetTheorems

(* Those takes the elements one after the other. *)
LEMMA ThoseRecursion ==
  ASSUME NEW T, NEW list \in Seq(T), NEW blocks
  PROVE  \E kept :
           /\ kept[0] = <<>>
           /\ kept[Len(list)] = Those(list, blocks)
           /\ \A n \in 1 .. Len(list) :
                kept[n] = IF list[n] \in blocks
                            THEN Append(kept[n - 1], list[n]) ELSE kept[n - 1]
<1> DEFINE N == Len(list)
           step == [n \in 1 .. N |-> [kept \in Seq(T) |->
                      IF list[n] \in blocks THEN Append(kept, list[n]) ELSE kept]]
           Value(iter, s) ==
             IF s = {} THEN <<>>
             ELSE IF list[Max(s)] \in blocks
                    THEN Append(iter[s \ {Max(s)}], list[Max(s)])
                    ELSE iter[s \ {Max(s)}]
           Fold(iter) == iter = [s \in SUBSET DOMAIN list |-> Value(iter, s)]
           fold == CHOOSE iter : Fold(iter)
<1>1. N \in Nat /\ DOMAIN list = 1 .. N /\ <<>> \in Seq(T)  OBVIOUS
<1>2. step \in [1 .. N -> [Seq(T) -> Seq(T)]]  OBVIOUS
<1>3. PICK g \in [SUBSET (1 .. N) -> Seq(T)] : IsFold(g, N, <<>>, step)
  <2> HIDE DEF step, N
  <2> QED  BY <1>1, <1>2, FoldExists, Zenon
<1>4. ASSUME NEW s \in SUBSET (1 .. N), s # {}
      PROVE  /\ Max(s) \in 1 .. N /\ s \ {Max(s)} \in SUBSET (1 .. N)
             /\ \A x \in Seq(T) : step[Max(s)][x] = IF list[Max(s)] \in blocks
                                    THEN Append(x, list[Max(s)]) ELSE x
  BY <1>1, <1>4, MaxOfNumbers
<1>5. Fold(g)
  <2> HIDE DEF step
  <2>1. \A s \in SUBSET (1 .. N) : g[s] = Value(g, s)
    BY <1>3, <1>4 DEF IsFold
  <2> HIDE DEF Value
  <2>2. g = [s \in SUBSET (1 .. N) |-> Value(g, s)]  BY <2>1
  <2> QED  BY <1>1, <2>2
<1>6. Fold(fold)
  <2> HIDE DEF Fold
  <2> QED  BY <1>5
<1>7. Those(list, blocks) = fold[1 .. N]
  BY <1>1 DEF Those, FoldLeft, MapThenFoldSet
<1> HIDE DEF fold
<1>8. \A n \in 0 .. N : fold[1 .. n] = Value(fold, 1 .. n)
  <2> HIDE DEF Value
  <2>1. \A n \in 0 .. N : 1 .. n \in SUBSET (1 .. N)  BY <1>1
  <2> QED  BY <1>1, <1>6, <2>1
<1> DEFINE kept == [n \in 0 .. N |-> fold[1 .. n]]
<1>9. kept[0] = <<>>
  <2>1. 1 .. 0 = {} /\ 0 \in 0 .. N  BY <1>1
  <2> QED  BY <1>8, <2>1
<1>10. ASSUME NEW n \in 1 .. N
       PROVE  kept[n] = IF list[n] \in blocks THEN Append(kept[n - 1], list[n])
                                              ELSE kept[n - 1]
  <2>1. Max(1 .. n) = n /\ (1 .. n) \ {n} = 1 .. n - 1 /\ 1 .. n # {}
    BY <1>1, MaxOfInterval
  <2>2. n \in 0 .. N /\ n - 1 \in 0 .. N  BY <1>1
  <2>3. fold[1 .. n] = IF list[n] \in blocks
                         THEN Append(fold[1 .. n - 1], list[n])
                         ELSE fold[1 .. n - 1]
    <3>1. fold[1 .. n] = Value(fold, 1 .. n)  BY <1>8, <2>2
    <3> QED  BY <2>1, <3>1
  <2> QED  BY <2>2, <2>3
<1>11. kept[N] = Those(list, blocks)  BY <1>1, <1>7
<1> HIDE DEF kept
<1> QED  BY <1>9, <1>10, <1>11

(* It is a list of those elements, each at one place when it was. *)
LEMMA ThoseElements ==
  ASSUME NEW T, NEW list \in Seq(T), NEW blocks
  PROVE  /\ Those(list, blocks) \in Seq(T)
         /\ Range(Those(list, blocks)) = Range(list) \cap blocks
         /\ IsInjective(list) => IsInjective(Those(list, blocks))
<1> DEFINE N == Len(list)
           Upto(k) == {list[i] : i \in 1 .. k}
<1>1. N \in Nat /\ DOMAIN list = 1 .. N /\ \A i \in 1 .. N : list[i] \in T
  OBVIOUS
<1>2. PICK kept :
        /\ kept[0] = <<>>
        /\ kept[N] = Those(list, blocks)
        /\ \A n \in 1 .. N :
             kept[n] = IF list[n] \in blocks
                         THEN Append(kept[n - 1], list[n]) ELSE kept[n - 1]
  BY ThoseRecursion
<1> DEFINE Right(k) == /\ kept[k] \in Seq(T)
                       /\ Range(kept[k]) = Upto(k) \cap blocks
                       /\ IsInjective(list) => IsInjective(kept[k])
           K == {k \in Nat : k <= N => Right(k)}
<1>3. Right(0)
  <2>1. Range(<<>>) = {} /\ IsInjective(<<>>) /\ <<>> \in Seq(T)
    BY DEF Range, IsInjective
  <2> QED  BY <1>2, <2>1
<1>4. ASSUME NEW k \in Nat, k + 1 <= N, Right(k) PROVE Right(k + 1)
  <2>1. k + 1 \in 1 .. N /\ (k + 1) - 1 = k /\ 1 .. k + 1 = (1 .. k) \cup {k + 1}
    BY <1>1, <1>4
  <2>2. kept[k + 1] = IF list[k + 1] \in blocks
                        THEN Append(kept[k], list[k + 1]) ELSE kept[k]
    <3>1. kept[k + 1] = IF list[k + 1] \in blocks
             THEN Append(kept[(k + 1) - 1], list[k + 1]) ELSE kept[(k + 1) - 1]
      BY <1>2, <2>1
    <3> QED  BY <2>1, <3>1
  <2>3. Upto(k + 1) = Upto(k) \cup {list[k + 1]}  BY <2>1
  <2>4. CASE list[k + 1] \in blocks
    <3> DEFINE e == list[k + 1]
               s == kept[k]
    <3>1. e \in T /\ s \in Seq(T)  BY <1>1, <1>4, <2>1
    <3>2. IsInjective(list) => e \notin Range(s)
      <4>1. ASSUME IsInjective(list), NEW i \in 1 .. k, list[i] = e PROVE FALSE
        <5>1. i \in 1 .. N /\ i # k + 1  BY <1>1, <2>1, <4>1
        <5> QED  BY <1>1, <2>1, <4>1, <5>1 DEF IsInjective
      <4> QED  BY <1>4, <4>1
    <3> HIDE DEF e, s
    <3>3. /\ Append(s, e) \in Seq(T)
          /\ Range(Append(s, e)) = Range(s) \cup {e}
          /\ IsInjective(s) /\ e \notin Range(s) => IsInjective(Append(s, e))
      BY <3>1, AppendElements
    <3>4. kept[k + 1] = Append(s, e) /\ e \in blocks  BY <2>2, <2>4 DEF e, s
    <3>5. Upto(k + 1) = Upto(k) \cup {e} /\ Range(s) = Upto(k) \cap blocks
          /\ (IsInjective(list) => IsInjective(s))
      BY <1>4, <2>3 DEF e, s
    <3> HIDE DEF Upto
    <3> QED  BY <3>2, <3>3, <3>4, <3>5
  <2>5. CASE list[k + 1] \notin blocks
    <3> HIDE DEF Upto
    <3> QED  BY <1>4, <2>2, <2>3, <2>5
  <2> QED  BY <2>4, <2>5
<1>5. Right(N)
  <2> HIDE DEF Right
  <2>1. 0 \in K /\ \A k \in Nat : k \in K => k + 1 \in K  BY <1>3, <1>4
  <2> HIDE DEF K
  <2>2. N \in K  BY <1>1, <2>1, InductionOnNat
  <2> QED  BY <1>1, <2>2 DEF K
<1>6. Range(list) = Upto(N)  BY <1>1 DEF Range
<1> QED  BY <1>2, <1>5, <1>6
-----------------------------------------------------------------------------
LinksOf(h) == {b \in Installed : link[b].slotframe_handle = h}

PoolTypeOK ==
  /\ slotframe_list \in Seq(Handle)
  /\ size \in [Handle -> Nat]
  /\ links_list \in [Handle -> Seq(Block)]
  /\ link \in [Block -> LinkRecord \cup {Free}]

(* The slotframes of the list are those that have a size, and the lists of *)
(* links hold each link that is installed, in its own slotframe, which     *)
(* exists and has its timeslot.                                            *)
PoolInv ==
  /\ IsInjective(slotframe_list)
  /\ \A h \in Handle :
       /\ size[h] # 0 <=> h \in Range(slotframe_list)
       /\ IsInjective(links_list[h])
       /\ Range(links_list[h]) = LinksOf(h)
  /\ \A b \in Installed : link[b].timeslot < size[link[b].slotframe_handle]

(* The lengths of slotframes that calls add. *)
CallSizes ==
  {call.size : call \in {c \in Call : c.op \in {"add_slotframe",
                                                "create_minimal"}}} \ {0}

(* The sections of a call that is under way. *)
Unlink(b) == [op |-> "remove_link", block |-> b]
Drop(h) == [op |-> "remove_slotframe", handle |-> h]
RemovalRecord ==
  [op : {"remove_link"}, block : Block]
    \cup [op : {"remove_slotframe"}, handle : Handle]
SectionRecord ==
  RemovalRecord
    \cup [op : {"add_slotframe"}, handle : Handle, size : CallSizes]
    \cup [op : {"add_link"}, link : LinkRecord, do_remove : BOOLEAN,
          replaces : BOOLEAN]

Before(r, i, s) == \E j \in 1 .. i - 1 : s[j] = r

(* What is to be removed is there, and a slotframe loses its links first.  *)
RemovalOK(s) ==
  \A i \in 1 .. Len(s) :
    /\ s[i].op = "remove_link" => s[i].block \in Installed
    /\ s[i].op = "remove_slotframe" =>
         /\ s[i].handle \in Range(slotframe_list)
         /\ \A b \in LinksOf(s[i].handle) : Before(Unlink(b), i, s)

(* A slotframe is added while there is none of its handle, and at most a   *)
(* link after it.                                                          *)
AddSlotframeOK(s) ==
  \A i \in 1 .. Len(s) : s[i].op = "add_slotframe" =>
    /\ size[s[i].handle] = 0 \/ Before(Drop(s[i].handle), i, s)
    /\ i = Len(s) \/ (i + 1 = Len(s) /\ s[i + 1].op = "add_link")

At(l, m) ==
  /\ l.slotframe_handle = m.slotframe_handle
  /\ l.timeslot = m.timeslot
  /\ l.channel_offset = m.channel_offset

(* A link is added last, with a timeslot of its slotframe, when it still   *)
(* exists or is added right before; what was at its place goes first.      *)
LinkFits(l, i, s) ==
  IF i > 1 /\ s[i - 1].op = "add_slotframe"
    THEN s[i - 1].handle = l.slotframe_handle /\ l.timeslot < s[i - 1].size
    ELSE size[l.slotframe_handle] # 0 => l.timeslot < size[l.slotframe_handle]
AddLinkOK(s) ==
  \A i \in 1 .. Len(s) : s[i].op = "add_link" =>
    /\ i = Len(s)
    /\ LinkFits(s[i].link, i, s)
    /\ s[i].replaces =>
         Installed # Block \/ \E b \in Block : Before(Unlink(b), i, s)
    /\ s[i].do_remove =>
         \A b \in Installed : At(link[b], s[i].link) => Before(Unlink(b), i, s)

TodoOK(s) ==
  /\ s \in Seq(SectionRecord)
  /\ IsInjective(s)
  /\ RemovalOK(s)
  /\ AddSlotframeOK(s)
  /\ AddLinkOK(s)

TxLinks(a) == {b \in Installed : link[b].tx /\ link[b].addr = a}
DedicatedLinks(a) ==
  {b \in Installed : link[b].tx /\ link[b].addr = a /\ ~link[b].shared}
CountTypeOK ==
  /\ tx_links_count \in [Address -> Int]
  /\ dedicated_tx_links_count \in [Address -> Int]
  /\ missed \subseteq Address \ Virtual
Counted(a) ==
  /\ tx_links_count[a] = Cardinality(TxLinks(a))
  /\ dedicated_tx_links_count[a] = Cardinality(DedicatedLinks(a))
CountInv == CountTypeOK /\ \A a \in Address \ missed : Counted(a)

EditInv == PoolTypeOK /\ PoolInv /\ TodoOK(todo) /\ CountInv

-----------------------------------------------------------------------------
(* The sequences of sections that only remove.                             *)
IsRemoval(s) ==
  /\ s \in Seq(RemovalRecord)
  /\ IsInjective(s)
  /\ RemovalOK(s)

(* What the sections of a removal are made of. *)
LEMMA SectionFields ==
  /\ \A b : Unlink(b).op = "remove_link" /\ Unlink(b).block = b
  /\ \A h : Drop(h).op = "remove_slotframe" /\ Drop(h).handle = h
  /\ \A b \in Block : Unlink(b) \in RemovalRecord
  /\ \A h \in Handle : Drop(h) \in RemovalRecord
  /\ \A r \in RemovalRecord :
       \/ r.op = "remove_link" /\ r.block \in Block /\ r = Unlink(r.block)
       \/ r.op = "remove_slotframe" /\ r.handle \in Handle /\ r = Drop(r.handle)
BY DEF Unlink, Drop, RemovalRecord

(* A slotframe that a call adds has a timeslot. *)
LEMMA CallSizesArePositive == CallSizes \subseteq Nat \ {0}
<1> SUFFICES ASSUME NEW call \in Call, call.op \in {"add_slotframe",
                                                     "create_minimal"}
             PROVE  call.size \in Nat
  BY DEF CallSizes
<1> QED  BY ScheduleAssumption DEF CallRecord

(* A sequence of removals is what a call may have left. *)
LEMMA RemovalIsOK ==
  ASSUME NEW s, IsRemoval(s) PROVE TodoOK(s)
<1>1. s \in Seq(SectionRecord)
  <2>1. RemovalRecord \subseteq SectionRecord  BY DEF SectionRecord
  <2> QED  BY <2>1 DEF IsRemoval
<1>2. \A i \in 1 .. Len(s) : s[i].op \in {"remove_link", "remove_slotframe"}
  <2>1. \A i \in 1 .. Len(s) : s[i] \in RemovalRecord  BY DEF IsRemoval
  <2> QED  BY <2>1, SectionFields
<1>3. AddSlotframeOK(s) /\ AddLinkOK(s)
  BY <1>2 DEF AddSlotframeOK, AddLinkOK
<1> QED  BY <1>1, <1>3 DEF IsRemoval, TodoOK

(* Removals of different things, one after the other. *)
LEMMA RemovalConcat ==
  ASSUME NEW s \in Seq(RemovalRecord), NEW t \in Seq(RemovalRecord),
         RemovalOK(s), RemovalOK(t)
  PROVE  RemovalOK(s \o t)
<1>1. /\ Len(s) \in Nat /\ Len(t) \in Nat /\ Len(s \o t) = Len(s) + Len(t)
      /\ \A i \in 1 .. Len(s) + Len(t) :
           (s \o t)[i] = IF i <= Len(s) THEN s[i] ELSE t[i - Len(s)]
  BY ConcatProperties
<1> SUFFICES ASSUME NEW i \in 1 .. Len(s) + Len(t)
             PROVE  LET r == (s \o t)[i]
                    IN /\ r.op = "remove_link" => r.block \in Installed
                       /\ r.op = "remove_slotframe" =>
                            /\ r.handle \in Range(slotframe_list)
                            /\ \A b \in LinksOf(r.handle) :
                                 Before(Unlink(b), i, s \o t)
  BY <1>1 DEF RemovalOK
<1>2. CASE i <= Len(s)
  <2>1. i \in 1 .. Len(s) /\ (s \o t)[i] = s[i]  BY <1>1, <1>2
  <2>2. \A j \in 1 .. i - 1 : (s \o t)[j] = s[j]  BY <1>1, <1>2
  <2> QED  BY <2>1, <2>2 DEF RemovalOK, Before
<1>3. CASE i > Len(s)
  <2> DEFINE k == i - Len(s)
  <2>1. k \in 1 .. Len(t) /\ (s \o t)[i] = t[k]  BY <1>1, <1>3
  <2>2. \A j \in 1 .. k - 1 : /\ j + Len(s) \in 1 .. i - 1
                              /\ (s \o t)[j + Len(s)] = t[j]
    <3> SUFFICES ASSUME NEW j \in 1 .. k - 1
                 PROVE  /\ j + Len(s) \in 1 .. i - 1
                        /\ (s \o t)[j + Len(s)] = t[j]
      OBVIOUS
    <3>1. /\ j + Len(s) \in 1 .. i - 1 /\ j + Len(s) \in 1 .. Len(s) + Len(t)
          /\ ~(j + Len(s) <= Len(s)) /\ (j + Len(s)) - Len(s) = j
      BY <1>1, <1>3
    <3>2. (s \o t)[j + Len(s)] = t[(j + Len(s)) - Len(s)]  BY <1>1, <3>1
    <3> QED  BY <3>1, <3>2
  <2> HIDE DEF k
  <2>3. \A r : Before(r, k, t) => Before(r, i, s \o t)  BY <2>2 DEF Before
  <2> QED  BY <2>1, <2>3 DEF RemovalOK
<1> QED  BY <1>1, <1>2, <1>3

(* The removal of some of the links of a slotframe. *)
LEMMA RemovalsOfLinks ==
  ASSUME NEW list \in Seq(Block), IsInjective(list),
         Range(list) \subseteq Installed
  PROVE  /\ IsRemoval(Removals(list))
         /\ Range(Removals(list)) = {Unlink(b) : b \in Range(list)}
<1>1. /\ DOMAIN list = 1 .. Len(list) /\ Len(list) \in Nat
      /\ \A i \in 1 .. Len(list) : list[i] \in Block
  OBVIOUS
<1> DEFINE s == Removals(list)
<1>2. /\ s \in Seq(RemovalRecord) /\ Len(s) = Len(list)
      /\ DOMAIN s = 1 .. Len(list)
      /\ \A i \in 1 .. Len(list) : s[i] = Unlink(list[i])
  <2>1. s = [i \in 1 .. Len(list) |-> Unlink(list[i])]
    BY <1>1 DEF Removals, Unlink
  <2>2. \A i \in 1 .. Len(list) : Unlink(list[i]) \in RemovalRecord
    BY <1>1, SectionFields
  <2> HIDE DEF s
  <2>3. s \in [1 .. Len(list) -> RemovalRecord]  BY <2>1, <2>2
  <2> QED  BY <1>1, <2>1, <2>3
<1> HIDE DEF s
<1>3. IsInjective(s)
  BY <1>1, <1>2, SectionFields DEF IsInjective
<1>4. RemovalOK(s)
  <2>1. \A i \in 1 .. Len(s) : /\ s[i].op = "remove_link"
                               /\ s[i].block = list[i]
                               /\ list[i] \in Range(list)
    BY <1>1, <1>2, SectionFields DEF Range
  <2> QED  BY <2>1 DEF RemovalOK
<1>5. Range(s) = {Unlink(b) : b \in Range(list)}
  BY <1>1, <1>2 DEF Range
<1> QED  BY <1>2, <1>3, <1>4, <1>5 DEF IsRemoval, s

(* remove_slotframe: first the links, then the slotframe. *)
LEMMA RemovalOfOne ==
  ASSUME PoolTypeOK, PoolInv, NEW h \in Handle, size[h] # 0
  PROVE  /\ IsRemoval(RemovalOfSlotframe(h))
         /\ Range(RemovalOfSlotframe(h))
              = {Unlink(b) : b \in LinksOf(h)} \cup {Drop(h)}
<1> DEFINE list == links_list[h]
           s == Removals(list)
<1>1. /\ list \in Seq(Block) /\ IsInjective(list) /\ Range(list) = LinksOf(h)
      /\ Range(list) \subseteq Installed
  BY DEF PoolTypeOK, PoolInv, LinksOf
<1>2. IsRemoval(s) /\ Range(s) = {Unlink(b) : b \in LinksOf(h)}
  <2> HIDE DEF list
  <2> QED  BY <1>1, RemovalsOfLinks
<1>3. RemovalOfSlotframe(h) = Append(s, Drop(h))
  BY DEF RemovalOfSlotframe, Drop
<1> HIDE DEF s, list
<1>4. /\ s \in Seq(RemovalRecord) /\ IsInjective(s) /\ RemovalOK(s)
      /\ Drop(h) \in RemovalRecord /\ Drop(h) \notin Range(s)
  BY <1>2, SectionFields DEF IsRemoval
<1> DEFINE d == Drop(h)
           t == Append(s, d)
<1>5. /\ t \in Seq(RemovalRecord) /\ Range(t) = Range(s) \cup {d}
      /\ IsInjective(t)
  <2> HIDE DEF d
  <2>1. d \in RemovalRecord /\ d \notin Range(s)  BY <1>4 DEF d
  <2> QED  BY <1>4, <2>1, AppendElements
<1>6. /\ Len(s) \in Nat /\ Len(t) = Len(s) + 1 /\ t[Len(s) + 1] = d
      /\ \A i \in 1 .. Len(s) : t[i] = s[i]
      /\ DOMAIN s = 1 .. Len(s)
  <2> HIDE DEF d
  <2>1. d \in RemovalRecord  BY <1>4 DEF d
  <2> QED  BY <1>4, <2>1, AppendProperties
<1> HIDE DEF t
<1>7. RemovalOK(t)
  <2> SUFFICES ASSUME NEW i \in 1 .. Len(t)
               PROVE  /\ t[i].op = "remove_link" => t[i].block \in Installed
                      /\ t[i].op = "remove_slotframe" =>
                           /\ t[i].handle \in Range(slotframe_list)
                           /\ \A b \in LinksOf(t[i].handle) :
                                Before(Unlink(b), i, t)
    BY DEF RemovalOK
  <2>1. CASE i \in 1 .. Len(s)
    <3>1. t[i] = s[i] /\ \A r : Before(r, i, s) => Before(r, i, t)
      BY <1>6, <2>1 DEF Before
    <3> QED  BY <1>4, <2>1, <3>1 DEF RemovalOK
  <2>2. CASE i = Len(s) + 1
    <3>1. t[i].op = "remove_slotframe" /\ t[i].handle = h
      BY <1>6, <2>2, SectionFields
    <3>2. h \in Range(slotframe_list)  BY DEF PoolInv
    <3>3. ASSUME NEW b \in LinksOf(h) PROVE Before(Unlink(b), i, t)
      <4>1. Unlink(b) \in Range(s)  BY <1>2
      <4>2. PICK j \in 1 .. Len(s) : s[j] = Unlink(b)  BY <1>6, <4>1 DEF Range
      <4>3. j \in 1 .. i - 1 /\ t[j] = Unlink(b)  BY <1>6, <2>2, <4>2
      <4> QED  BY <4>3 DEF Before
    <3> QED  BY <3>1, <3>2, <3>3
  <2> QED  BY <1>6, <2>1, <2>2
<1> QED  BY <1>2, <1>3, <1>5, <1>7 DEF IsRemoval, t, d

(* tsch_schedule_remove_all_slotframes leaves nothing. *)
LEMMA RemovalOfAllOK ==
  ASSUME PoolTypeOK, PoolInv
  PROVE  /\ IsRemoval(RemovalOfAll)
         /\ Range(RemovalOfAll) = {Unlink(b) : b \in Installed}
                                    \cup {Drop(h) : h \in Range(slotframe_list)}
<1> DEFINE N == Len(slotframe_list)
           handle(i) == slotframe_list[i]
           seqs == [i \in 1 .. N |-> RemovalOfSlotframe(handle(i))]
<1>1. /\ N \in Nat /\ DOMAIN slotframe_list = 1 .. N
      /\ \A i \in 1 .. N : handle(i) \in Handle /\ size[handle(i)] # 0
      /\ \A i, j \in 1 .. N : handle(i) = handle(j) => i = j
      /\ Range(slotframe_list) = {handle(i) : i \in 1 .. N}
  BY DEF PoolTypeOK, PoolInv, IsInjective, Range
<1>2. RemovalOfAll = FlattenSeq(seqs)  BY <1>1 DEF RemovalOfAll
<1>3. \A i \in 1 .. N :
        /\ IsRemoval(seqs[i])
        /\ Range(seqs[i])
             = {Unlink(b) : b \in LinksOf(handle(i))} \cup {Drop(handle(i))}
  <2> HIDE DEF handle
  <2> QED  BY <1>1, RemovalOfOne
<1>4. seqs \in Seq(Seq(RemovalRecord)) /\ Len(seqs) = N
  <2>1. \A i \in 1 .. N : RemovalOfSlotframe(handle(i)) \in Seq(RemovalRecord)
    BY <1>3 DEF IsRemoval
  <2> HIDE DEF handle, N
  <2>2. seqs \in [1 .. N -> Seq(RemovalRecord)]  BY <2>1
  <2> QED  BY <1>1, <2>2
<1> HIDE DEF seqs, handle
<1>5. \A i, j \in 1 .. N : i # j => Range(seqs[i]) \cap Range(seqs[j]) = {}
  <2> SUFFICES ASSUME NEW i \in 1 .. N, NEW j \in 1 .. N, i # j,
                      NEW r, r \in Range(seqs[i]), r \in Range(seqs[j])
               PROVE  FALSE
    OBVIOUS
  <2>1. handle(i) # handle(j)  BY <1>1
  <2>2. CASE r = Drop(handle(i))
    <3>1. r.op = "remove_slotframe" /\ r.handle = handle(i)
      BY <2>2, SectionFields
    <3> QED  BY <1>3, <2>1, <3>1, SectionFields
  <2>3. CASE \E b \in LinksOf(handle(i)) : r = Unlink(b)
    <3>1. r.op = "remove_link" /\ r.block \in LinksOf(handle(i))
      BY <2>3, SectionFields
    <3>2. r.block \in LinksOf(handle(j))  BY <1>3, <3>1, SectionFields
    <3> QED  BY <2>1, <3>1, <3>2 DEF LinksOf
  <2> QED  BY <1>3, <2>2, <2>3
<1>6. /\ FlattenSeq(seqs) \in Seq(RemovalRecord)
      /\ Range(FlattenSeq(seqs)) = UNION {Range(seqs[i]) : i \in 1 .. N}
      /\ IsInjective(FlattenSeq(seqs))
  <2>1. \A i \in 1 .. N : IsInjective(seqs[i])  BY <1>3 DEF IsRemoval
  <2> QED  BY <1>4, <1>5, <2>1, FlattenElements
<1>7. RemovalOK(FlattenSeq(seqs))
  <2>0. \E flat \in [0 .. Len(seqs) -> Seq(RemovalRecord)] :
          /\ flat[0] = <<>>
          /\ flat[Len(seqs)] = FlattenSeq(seqs)
          /\ \A n \in 1 .. Len(seqs) : flat[n] = flat[n - 1] \o seqs[n]
    BY <1>4, FlattenRecursion, Zenon
  <2>1. PICK flat \in [0 .. N -> Seq(RemovalRecord)] :
          /\ flat[0] = <<>>
          /\ flat[N] = FlattenSeq(seqs)
          /\ \A n \in 1 .. N : flat[n] = flat[n - 1] \o seqs[n]
    <3> HIDE DEF N
    <3> QED  BY <1>4, <2>0
  <2> DEFINE K == {k \in Nat : k <= N => RemovalOK(flat[k])}
  <2>2. RemovalOK(flat[0])  BY <2>1 DEF RemovalOK
  <2>3. ASSUME NEW k \in Nat, k + 1 <= N, RemovalOK(flat[k])
        PROVE  RemovalOK(flat[k + 1])
    <3>1. k + 1 \in 1 .. N /\ (k + 1) - 1 = k  BY <1>1, <2>3
    <3>2. flat[k + 1] = flat[k] \o seqs[k + 1]
      <4>1. flat[k + 1] = flat[(k + 1) - 1] \o seqs[k + 1]  BY <2>1, <3>1
      <4> QED  BY <3>1, <4>1
    <3>3. flat[k] \in Seq(RemovalRecord)  BY <1>1, <2>1, <2>3
    <3>4. seqs[k + 1] \in Seq(RemovalRecord) /\ RemovalOK(seqs[k + 1])
      BY <1>3, <3>1 DEF IsRemoval
    <3> QED  BY <2>3, <3>2, <3>3, <3>4, RemovalConcat
  <2>4. 0 \in K /\ \A k \in Nat : k \in K => k + 1 \in K  BY <1>1, <2>2, <2>3
  <2> HIDE DEF K
  <2>5. N \in K  BY <1>1, <2>4, InductionOnNat
  <2> QED  BY <1>1, <2>1, <2>5 DEF K
<1>8. UNION {Range(seqs[i]) : i \in 1 .. N}
        = {Unlink(b) : b \in Installed}
            \cup {Drop(h) : h \in Range(slotframe_list)}
  <2>1. ASSUME NEW i \in 1 .. N, NEW r \in Range(seqs[i])
        PROVE  r \in {Unlink(b) : b \in Installed}
                       \cup {Drop(h) : h \in Range(slotframe_list)}
    BY <1>1, <1>3, <2>1 DEF LinksOf
  <2>2. ASSUME NEW h \in Range(slotframe_list)
        PROVE  \E i \in 1 .. N : Drop(h) \in Range(seqs[i])
    BY <1>1, <1>3
  <2>3. ASSUME NEW b \in Installed
        PROVE  \E i \in 1 .. N : Unlink(b) \in Range(seqs[i])
    <3> DEFINE h == link[b].slotframe_handle
    <3>1. h \in Handle /\ link[b].timeslot \in Nat
      BY DEF PoolTypeOK, Installed, LinkRecord
    <3>2. size[h] # 0
      BY <3>1 DEF PoolTypeOK, PoolInv
    <3>3. h \in Range(slotframe_list)  BY <3>1, <3>2 DEF PoolInv
    <3>4. PICK i \in 1 .. N : handle(i) = h  BY <1>1, <3>3
    <3>5. b \in LinksOf(handle(i))  BY <3>4 DEF LinksOf
    <3> QED  BY <1>3, <3>4, <3>5
  <2> QED  BY <2>1, <2>2, <2>3
<1> QED  BY <1>2, <1>6, <1>7, <1>8 DEF IsRemoval

(* The search goes through each link that is installed once. *)
LEMMA AllLinksOnce ==
  ASSUME PoolTypeOK, PoolInv
  PROVE  /\ AllLinks \in Seq(Block)
         /\ IsInjective(AllLinks)
         /\ Range(AllLinks) = Installed
<1> DEFINE N == Len(slotframe_list)
           handle(i) == slotframe_list[i]
           seqs == [i \in 1 .. N |-> links_list[handle(i)]]
<1>1. /\ N \in Nat /\ DOMAIN slotframe_list = 1 .. N
      /\ \A i \in 1 .. N : handle(i) \in Handle
      /\ \A i, j \in 1 .. N : handle(i) = handle(j) => i = j
      /\ Range(slotframe_list) = {handle(i) : i \in 1 .. N}
  BY DEF PoolTypeOK, PoolInv, IsInjective, Range
<1>2. AllLinks = FlattenSeq(seqs)  BY <1>1 DEF AllLinks
<1>3. \A i \in 1 .. N : /\ seqs[i] \in Seq(Block) /\ IsInjective(seqs[i])
                        /\ Range(seqs[i]) = LinksOf(handle(i))
  <2> HIDE DEF handle
  <2> QED  BY <1>1 DEF PoolTypeOK, PoolInv
<1>4. seqs \in Seq(Seq(Block)) /\ Len(seqs) = N
  <2>1. \A i \in 1 .. N : links_list[handle(i)] \in Seq(Block)  BY <1>3
  <2> HIDE DEF handle, N
  <2>2. seqs \in [1 .. N -> Seq(Block)]  BY <2>1
  <2> QED  BY <1>1, <2>2
<1> HIDE DEF seqs, handle
<1>5. \A i, j \in 1 .. N : i # j => Range(seqs[i]) \cap Range(seqs[j]) = {}
  <2> SUFFICES ASSUME NEW i \in 1 .. N, NEW j \in 1 .. N, i # j,
                      NEW b, b \in Range(seqs[i]), b \in Range(seqs[j])
               PROVE  FALSE
    OBVIOUS
  <2>1. b \in LinksOf(handle(i)) /\ b \in LinksOf(handle(j))  BY <1>3
  <2>2. handle(i) = handle(j)  BY <2>1 DEF LinksOf
  <2> QED  BY <1>1, <2>2
<1>6. /\ FlattenSeq(seqs) \in Seq(Block)
      /\ Range(FlattenSeq(seqs)) = UNION {Range(seqs[i]) : i \in 1 .. N}
      /\ IsInjective(FlattenSeq(seqs))
  BY <1>3, <1>4, <1>5, FlattenElements
<1>7. UNION {Range(seqs[i]) : i \in 1 .. N} = Installed
  <2>1. \A i \in 1 .. N : Range(seqs[i]) \subseteq Installed
    BY <1>3 DEF LinksOf
  <2>2. ASSUME NEW b \in Installed
        PROVE  \E i \in 1 .. N : b \in Range(seqs[i])
    <3> DEFINE h == link[b].slotframe_handle
    <3>1. h \in Handle /\ link[b].timeslot \in Nat
      BY DEF PoolTypeOK, Installed, LinkRecord
    <3>2. size[h] # 0
      BY <3>1 DEF PoolTypeOK, PoolInv
    <3>3. h \in Range(slotframe_list)  BY <3>1, <3>2 DEF PoolInv
    <3>4. PICK i \in 1 .. N : handle(i) = h  BY <1>1, <3>3
    <3> QED  BY <1>3, <3>4 DEF LinksOf
  <2> QED  BY <2>1, <2>2
<1> QED  BY <1>2, <1>6, <1>7

-----------------------------------------------------------------------------
(* What is to be added comes after what is to be removed. *)
LEMMA RemovalThenAdditions ==
  ASSUME NEW s, IsRemoval(s), NEW t \in Seq(SectionRecord), IsInjective(t),
         \A i \in 1 .. Len(t) : t[i].op \in {"add_slotframe", "add_link"}
  PROVE  /\ s \o t \in Seq(SectionRecord)
         /\ IsInjective(s \o t)
         /\ RemovalOK(s \o t)
         /\ Len(s) \in Nat /\ Len(s \o t) = Len(s) + Len(t)
         /\ \A i \in 1 .. Len(s) :
              (s \o t)[i].op \in {"remove_link", "remove_slotframe"}
         /\ \A i \in 1 .. Len(s) + Len(t) :
              (s \o t)[i] = IF i <= Len(s) THEN s[i] ELSE t[i - Len(s)]
         /\ \A r \in Range(s) : \A i \in 1 .. Len(t) :
              Before(r, Len(s) + i, s \o t)
<1> DEFINE u == s \o t
<1>1. /\ s \in Seq(RemovalRecord) /\ s \in Seq(SectionRecord)
      /\ RemovalOK(s) /\ IsInjective(s)
  <2>1. RemovalRecord \subseteq SectionRecord  BY DEF SectionRecord
  <2> QED  BY <2>1 DEF IsRemoval
<1>2. /\ Len(s) \in Nat /\ Len(t) \in Nat /\ Len(u) = Len(s) + Len(t)
      /\ \A i \in 1 .. Len(s) + Len(t) :
           u[i] = IF i <= Len(s) THEN s[i] ELSE t[i - Len(s)]
  BY <1>1, ConcatProperties
<1>3. \A i \in 1 .. Len(s) :
        u[i] = s[i] /\ s[i].op \in {"remove_link", "remove_slotframe"}
  <2>1. \A i \in 1 .. Len(s) : s[i] \in RemovalRecord  BY <1>1
  <2> HIDE DEF u
  <2> QED  BY <1>2, <2>1, SectionFields
<1>4. \A i \in 1 .. Len(t) : u[Len(s) + i] = t[i]
  <2> SUFFICES ASSUME NEW i \in 1 .. Len(t) PROVE u[Len(s) + i] = t[i]
    OBVIOUS
  <2>1. /\ Len(s) + i \in 1 .. Len(s) + Len(t) /\ ~(Len(s) + i <= Len(s))
        /\ (Len(s) + i) - Len(s) = i
    BY <1>2
  <2> HIDE DEF u
  <2>2. u[Len(s) + i] = t[(Len(s) + i) - Len(s)]  BY <1>2, <2>1
  <2> QED  BY <2>1, <2>2
<1>5. DOMAIN s = 1 .. Len(s) /\ DOMAIN t = 1 .. Len(t)  BY <1>1
<1>6. Range(s) \cap Range(t) = {}
  BY <1>3, <1>5 DEF Range
<1>7. u \in Seq(SectionRecord) /\ IsInjective(u)
  BY <1>1, <1>6, ConcatElements
<1> HIDE DEF u
<1>8. RemovalOK(u)
  <2> SUFFICES ASSUME NEW i \in 1 .. Len(u)
               PROVE  /\ u[i].op = "remove_link" => u[i].block \in Installed
                      /\ u[i].op = "remove_slotframe" =>
                           /\ u[i].handle \in Range(slotframe_list)
                           /\ \A b \in LinksOf(u[i].handle) :
                                Before(Unlink(b), i, u)
    BY DEF RemovalOK
  <2>1. CASE i \in 1 .. Len(s)
    <3>1. u[i] = s[i] /\ \A r : Before(r, i, s) => Before(r, i, u)
      BY <1>2, <1>3, <2>1 DEF Before
    <3> QED  BY <1>1, <2>1, <3>1 DEF RemovalOK
  <2>2. CASE i \notin 1 .. Len(s)
    <3> DEFINE k == i - Len(s)
    <3>1. k \in 1 .. Len(t) /\ Len(s) + k = i  BY <1>2, <2>2
    <3> HIDE DEF k
    <3>2. u[i] = t[k]  BY <1>4, <3>1
    <3> QED  BY <3>1, <3>2
  <2> QED  BY <2>1, <2>2
<1>9. ASSUME NEW r \in Range(s), NEW i \in 1 .. Len(t)
      PROVE  Before(r, Len(s) + i, u)
  <2>1. PICK j \in 1 .. Len(s) : s[j] = r  BY <1>5 DEF Range
  <2>2. j \in 1 .. (Len(s) + i) - 1 /\ u[j] = r  BY <1>2, <1>3, <2>1
  <2> QED  BY <2>2 DEF Before
<1> QED  BY <1>2, <1>3, <1>4, <1>7, <1>8, <1>9 DEF u

(* The links at a place of a slotframe. *)
LEMMA LinksAtPlace ==
  ASSUME PoolTypeOK, PoolInv, NEW h \in Handle, NEW timeslot,
         NEW channel_offset
  PROVE  LET list == LinksAt(h, timeslot, channel_offset)
         IN /\ list \in Seq(Block)
            /\ IsInjective(list)
            /\ Range(list) = {b \in LinksOf(h) :
                                /\ link[b].timeslot = timeslot
                                /\ link[b].channel_offset = channel_offset}
<1> DEFINE all == links_list[h]
           place == AtPlace(timeslot, channel_offset)
<1>1. all \in Seq(Block) /\ IsInjective(all) /\ Range(all) = LinksOf(h)
  BY DEF PoolTypeOK, PoolInv
<1>2. /\ Those(all, place) \in Seq(Block)
      /\ Range(Those(all, place)) = Range(all) \cap place
      /\ IsInjective(Those(all, place))
  <2> HIDE DEF all, place
  <2> QED  BY <1>1, ThoseElements
<1>3. LinksAt(h, timeslot, channel_offset) = Those(all, place)
  BY DEF LinksAt
<1> HIDE DEF all
<1>4. LinksOf(h) \cap place = {b \in LinksOf(h) :
                                 /\ link[b].timeslot = timeslot
                                 /\ link[b].channel_offset = channel_offset}
  BY DEF AtPlace, LinksOf
<1> HIDE DEF place
<1> QED  BY <1>1, <1>2, <1>3, <1>4

(* Nothing left to do. *)
LEMMA NothingIsRemoval == IsRemoval(<<>>)
<1>1. <<>> \in Seq(RemovalRecord) /\ Len(<<>>) = 0  OBVIOUS
<1> QED  BY <1>1 DEF IsRemoval, IsInjective, RemovalOK

(* tsch_schedule_add_link, of a link that has a timeslot in its slotframe. *)
LEMMA AdditionOK ==
  ASSUME PoolTypeOK, PoolInv, NEW call \in [op : {"add_link"},
           link : LinkRecord, do_remove : BOOLEAN]
  PROVE  TodoOK(Addition(call))
<1> DEFINE l == call.link
           h == l.slotframe_handle
           list == Replaced(call)
           s == Removals(list)
           x == Insertion(call)
<1>1. h \in Handle /\ l \in LinkRecord  BY DEF LinkRecord
<1>2. /\ list \in Seq(Block) /\ IsInjective(list)
      /\ Range(list) \subseteq Installed
      /\ call.do_remove => \A b \in Installed : At(link[b], l) => b \in Range(list)
  <2>1. CASE call.do_remove
    <3> DEFINE at == LinksAt(h, l.timeslot, l.channel_offset)
    <3>1. /\ at \in Seq(Block) /\ IsInjective(at)
          /\ Range(at) = {b \in LinksOf(h) :
                            /\ link[b].timeslot = l.timeslot
                            /\ link[b].channel_offset = l.channel_offset}
      BY <1>1, LinksAtPlace
    <3>2. list = at  BY <2>1 DEF Replaced
    <3> HIDE DEF at, list
    <3> QED  BY <3>1, <3>2 DEF LinksOf, At
  <2>2. CASE ~call.do_remove
    <3>1. list = <<>>  BY <2>2 DEF Replaced
    <3> HIDE DEF list
    <3>2. list \in Seq(Block) /\ IsInjective(list) /\ Range(list) = {}
      BY <3>1 DEF IsInjective, Range
    <3> QED  BY <2>2, <3>2
  <2> QED  BY <2>1, <2>2
<1>3. IsRemoval(s) /\ Range(s) = {Unlink(b) : b \in Range(list)}
  <2> HIDE DEF list
  <2> QED  BY <1>2, RemovalsOfLinks
<1>4. /\ x \in SectionRecord /\ x.op = "add_link" /\ x.link = l
      /\ x.do_remove = call.do_remove /\ (x.replaces => Range(list) # {})
  <2>1. list # <<>> => Range(list) # {}
    <3> HIDE DEF list
    <3> SUFFICES ASSUME list # <<>> PROVE Range(list) # {}
      OBVIOUS
    <3>1. Len(list) # 0 /\ Len(list) \in Nat /\ DOMAIN list = 1 .. Len(list)
      BY <1>2, EmptySeq
    <3>2. 1 \in DOMAIN list  BY <3>1
    <3> QED  BY <3>2 DEF Range
  <2> DEFINE any == list # <<>>
  <2>2. x = [op |-> "add_link", link |-> l, do_remove |-> call.do_remove,
             replaces |-> any]
    BY DEF Insertion
  <2>3. any \in BOOLEAN /\ call.do_remove \in BOOLEAN  OBVIOUS
  <2>4. any => Range(list) # {}  BY <2>1
  <2> HIDE DEF x, list, any
  <2> QED  BY <1>1, <2>2, <2>3, <2>4 DEF SectionRecord
<1>5. CASE ~(l.timeslot < size[h])
  <2>1. Addition(call) = <<>>  BY <1>5 DEF Addition
  <2> QED  BY <2>1, NothingIsRemoval, RemovalIsOK
<1>6. CASE l.timeslot < size[h]
  <2> HIDE DEF s, x, list
  <2>1. <<x>> \in Seq(SectionRecord) /\ IsInjective(<<x>>) /\ Len(<<x>>) = 1
        /\ <<x>>[1] = x
    BY <1>4 DEF IsInjective
  <2> DEFINE t == <<x>>
             u == s \o t
             n == Len(s)
  <2>2. t \in Seq(SectionRecord) /\ IsInjective(t) /\ Len(t) = 1 /\ t[1] = x
    BY <2>1
  <2>3. \A i \in 1 .. Len(t) : t[i].op \in {"add_slotframe", "add_link"}
    BY <1>4, <2>2
  <2>4. Addition(call) = u
    <3>1. Addition(call) = Append(s, x)  BY <1>6 DEF Addition, s, x, list
    <3>2. s \in Seq(RemovalRecord)  BY <1>3 DEF IsRemoval
    <3> QED  BY <3>1, <3>2, AppendIsConcat
  <2> HIDE DEF t
  <2>5. /\ u \in Seq(SectionRecord) /\ IsInjective(u) /\ RemovalOK(u)
        /\ n \in Nat /\ Len(u) = n + 1 /\ u[n + 1] = x
        /\ \A i \in 1 .. n : u[i].op \in {"remove_link", "remove_slotframe"}
        /\ \A r \in Range(s) : Before(r, n + 1, u)
    <3>1. 1 \in 1 .. Len(t)  BY <2>2
    <3>2. /\ u \in Seq(SectionRecord) /\ IsInjective(u) /\ RemovalOK(u)
          /\ n \in Nat /\ Len(u) = n + Len(t)
          /\ \A i \in 1 .. n : u[i].op \in {"remove_link", "remove_slotframe"}
          /\ \A i \in 1 .. n + Len(t) :
               u[i] = IF i <= n THEN s[i] ELSE t[i - n]
          /\ \A r \in Range(s) : \A i \in 1 .. Len(t) : Before(r, n + i, u)
      BY <1>3, <2>2, <2>3, RemovalThenAdditions, Zenon
    <3> HIDE DEF u, n
    <3> QED  BY <2>2, <3>1, <3>2
  <2> HIDE DEF u, n
  <2>6. AddSlotframeOK(u)
    <3>1. \A i \in 1 .. Len(u) : u[i].op # "add_slotframe"
      BY <1>4, <2>5
    <3> QED  BY <3>1 DEF AddSlotframeOK
  <2>7. AddLinkOK(u)
    <3> SUFFICES ASSUME NEW i \in 1 .. Len(u), u[i].op = "add_link"
                 PROVE  /\ i = Len(u)
                        /\ LinkFits(u[i].link, i, u)
                        /\ u[i].replaces => Installed # Block
                             \/ \E b \in Block : Before(Unlink(b), i, u)
                        /\ u[i].do_remove => \A b \in Installed :
                             At(link[b], u[i].link) => Before(Unlink(b), i, u)
      BY DEF AddLinkOK
    <3>1. i = n + 1 /\ u[i] = x  BY <2>5
    <3>2. LinkFits(u[i].link, i, u)
      <4>1. ~(i > 1 /\ u[i - 1].op = "add_slotframe")  BY <2>5, <3>1
      <4> QED  BY <1>4, <1>6, <3>1, <4>1 DEF LinkFits
    <3>3. u[i].replaces => \E b \in Block : Before(Unlink(b), i, u)
      BY <1>2, <1>3, <1>4, <2>5, <3>1 DEF Installed
    <3>4. u[i].do_remove => \A b \in Installed :
                             At(link[b], u[i].link) => Before(Unlink(b), i, u)
      BY <1>2, <1>3, <1>4, <2>5, <3>1
    <3> QED  BY <2>5, <3>1, <3>2, <3>3, <3>4
  <2> QED  BY <2>4, <2>5, <2>6, <2>7 DEF TodoOK
<1> QED  BY <1>5, <1>6

(* tsch_schedule_create_minimal removes all there is. *)
LEMMA MinimalOK ==
  ASSUME PoolTypeOK, PoolInv,
         NEW l \in LinkRecord, NEW length \in CallSizes, l.timeslot < length
  PROVE  TodoOK(RemovalOfAll
                  \o << [op |-> "add_slotframe", handle |-> l.slotframe_handle,
                         size |-> length],
                        [op |-> "add_link", link |-> l, do_remove |-> TRUE,
                         replaces |-> FALSE] >>)
<1> DEFINE h == l.slotframe_handle
           a == [op |-> "add_slotframe", handle |-> h, size |-> length]
           b == [op |-> "add_link", link |-> l, do_remove |-> TRUE,
                 replaces |-> FALSE]
           s == RemovalOfAll
           t == <<a, b>>
           u == s \o t
           n == Len(s)
<1>1. /\ h \in Handle /\ l.timeslot \in Nat /\ length \in Nat \ {0}
  BY CallSizesArePositive DEF LinkRecord
<1>2. /\ a \in SectionRecord /\ a.op = "add_slotframe" /\ a.handle = h
      /\ a.size = length
      /\ b \in SectionRecord /\ b.op = "add_link" /\ b.link = l
      /\ b.replaces = FALSE
  BY <1>1 DEF SectionRecord
<1>3. /\ IsRemoval(s)
      /\ Range(s) = {Unlink(x) : x \in Installed}
                      \cup {Drop(x) : x \in Range(slotframe_list)}
  BY RemovalOfAllOK
<1> HIDE DEF a, b, s
<1>4. /\ t \in Seq(SectionRecord) /\ Len(t) = 2 /\ t[1] = a /\ t[2] = b
      /\ DOMAIN t = 1 .. 2
  BY <1>2
<1> HIDE DEF t
<1>5. /\ IsInjective(t)
      /\ \A i \in 1 .. Len(t) : t[i].op \in {"add_slotframe", "add_link"}
  BY <1>2, <1>4 DEF IsInjective
<1>6. /\ u \in Seq(SectionRecord) /\ IsInjective(u) /\ RemovalOK(u)
      /\ n \in Nat /\ Len(u) = n + 2
      /\ u[n + 1] = a /\ u[n + 2] = b
      /\ \A i \in 1 .. n : u[i].op \in {"remove_link", "remove_slotframe"}
      /\ \A r \in Range(s) : Before(r, n + 1, u) /\ Before(r, n + 2, u)
  <2>1. /\ u \in Seq(SectionRecord) /\ IsInjective(u) /\ RemovalOK(u)
        /\ n \in Nat /\ Len(u) = n + Len(t)
        /\ \A i \in 1 .. n : u[i].op \in {"remove_link", "remove_slotframe"}
        /\ \A i \in 1 .. n + Len(t) :
             u[i] = IF i <= n THEN s[i] ELSE t[i - n]
        /\ \A r \in Range(s) : \A i \in 1 .. Len(t) : Before(r, n + i, u)
    BY <1>3, <1>4, <1>5, RemovalThenAdditions, Zenon
  <2> HIDE DEF u, n
  <2>2. /\ n + 1 \in 1 .. n + Len(t) /\ ~(n + 1 <= n) /\ (n + 1) - n = 1
        /\ n + 2 \in 1 .. n + Len(t) /\ ~(n + 2 <= n) /\ (n + 2) - n = 2
    BY <1>4, <2>1
  <2>3. u[n + 1] = t[(n + 1) - n] /\ u[n + 2] = t[(n + 2) - n]
    BY <2>1, <2>2
  <2>4. \A r \in Range(s) : Before(r, n + 1, u) /\ Before(r, n + 2, u)
    BY <1>4, <2>1
  <2> QED  BY <1>4, <2>1, <2>2, <2>3, <2>4
<1> HIDE DEF u, n
<1>7. AddSlotframeOK(u)
  <2> SUFFICES ASSUME NEW i \in 1 .. Len(u), u[i].op = "add_slotframe"
               PROVE  /\ \/ size[u[i].handle] = 0
                         \/ Before(Drop(u[i].handle), i, u)
                      /\ i = Len(u)
                           \/ (i + 1 = Len(u) /\ u[i + 1].op = "add_link")
    BY DEF AddSlotframeOK
  <2>1. i = n + 1  BY <1>2, <1>6
  <2>2. size[h] # 0 => Before(Drop(h), n + 1, u)
    BY <1>1, <1>3, <1>6 DEF PoolInv
  <2>3. u[i] = a /\ i + 1 = n + 2  BY <1>6, <2>1
  <2> QED  BY <1>2, <1>6, <2>1, <2>2, <2>3
<1>8. AddLinkOK(u)
  <2> SUFFICES ASSUME NEW i \in 1 .. Len(u), u[i].op = "add_link"
               PROVE  /\ i = Len(u)
                      /\ LinkFits(u[i].link, i, u)
                      /\ u[i].replaces => Installed # Block
                           \/ \E x \in Block : Before(Unlink(x), i, u)
                      /\ u[i].do_remove => \A x \in Installed :
                           At(link[x], u[i].link) => Before(Unlink(x), i, u)
    BY DEF AddLinkOK
  <2>1. i = n + 2 /\ i - 1 = n + 1 /\ i > 1 /\ u[i] = b /\ u[i - 1] = a
    BY <1>2, <1>6
  <2>2. LinkFits(u[i].link, i, u)  BY <1>2, <2>1 DEF LinkFits
  <2>3. \A x \in Installed : Before(Unlink(x), i, u)  BY <1>3, <1>6, <2>1
  <2> QED  BY <1>2, <1>6, <2>1, <2>2, <2>3
<1>9. TodoOK(u)  BY <1>6, <1>7, <1>8 DEF TodoOK
<1> QED  BY <1>9 DEF u, t, s, a, b

(* Whatever call begins, what it has left to do fits the schedule.         *)
LEMMA SectionsOK ==
  ASSUME PoolTypeOK, PoolInv, NEW call \in Call
  PROVE  TodoOK(Sections(call))
<1>1. call \in CallRecord  BY ScheduleAssumption
<1>2. TodoOK(<<>>)  BY NothingIsRemoval, RemovalIsOK
<1>3. CASE call \in [op : {"add_slotframe"}, handle : Handle, size : Nat]
  <2>1. call.op = "add_slotframe" /\ call.handle \in Handle /\ call.size \in Nat
    BY <1>3
  <2>2. Sections(call) = IF call.size # 0 /\ size[call.handle] = 0
                           THEN <<call>> ELSE <<>>
    BY <2>1 DEF Sections
  <2>3. CASE call.size # 0 /\ size[call.handle] = 0
    <3> DEFINE s == <<call>>
    <3>1. call \in SectionRecord
      BY <1>3, <2>1, <2>3 DEF SectionRecord, CallSizes
    <3>2. s \in Seq(SectionRecord) /\ Len(s) = 1 /\ s[1] = call
          /\ DOMAIN s = 1 .. 1
      BY <3>1
    <3> HIDE DEF s
    <3>3. \A i \in 1 .. Len(s) : i = 1 /\ i = Len(s)  BY <3>2
    <3>4. TodoOK(s)
      BY <2>1, <2>3, <3>2, <3>3
      DEF TodoOK, IsInjective, RemovalOK, AddSlotframeOK, AddLinkOK
    <3> QED  BY <2>2, <2>3, <3>4 DEF s
  <2> QED  BY <1>2, <2>2, <2>3
<1>4. CASE call \in [op : {"remove_slotframe"}, handle : Handle]
  <2>1. call.op = "remove_slotframe" /\ call.handle \in Handle  BY <1>4
  <2>2. Sections(call) = IF size[call.handle] # 0
                           THEN RemovalOfSlotframe(call.handle) ELSE <<>>
    BY <2>1 DEF Sections
  <2> QED  BY <1>2, <2>1, <2>2, RemovalOfOne, RemovalIsOK
<1>5. CASE call \in [op : {"add_link"}, link : LinkRecord, do_remove : BOOLEAN]
  <2>1. call.op = "add_link"  BY <1>5
  <2>2. Sections(call) = IF size[call.link.slotframe_handle] # 0
                           THEN Addition(call) ELSE <<>>
    BY <2>1 DEF Sections
  <2> QED  BY <1>2, <1>5, <2>2, AdditionOK
<1>6. CASE call \in [op : {"remove_link_by_timeslot"}, handle : Handle,
                     timeslot : Nat, channel_offset : Nat]
  <2> DEFINE list == LinksAt(call.handle, call.timeslot, call.channel_offset)
  <2>1. call.op = "remove_link_by_timeslot" /\ call.handle \in Handle  BY <1>6
  <2>2. Sections(call) = Removals(list)  BY <2>1 DEF Sections
  <2>3. /\ list \in Seq(Block) /\ IsInjective(list)
        /\ Range(list) \subseteq Installed
    <3>1. /\ list \in Seq(Block) /\ IsInjective(list)
          /\ Range(list) = {b \in LinksOf(call.handle) :
                              /\ link[b].timeslot = call.timeslot
                              /\ link[b].channel_offset = call.channel_offset}
      BY <2>1, LinksAtPlace
    <3> HIDE DEF list
    <3> QED  BY <3>1 DEF LinksOf
  <2> HIDE DEF list
  <2> QED  BY <2>2, <2>3, RemovalsOfLinks, RemovalIsOK
<1>7. CASE call \in {c \in [op : {"create_minimal"}, link : LinkRecord,
                            size : Nat] : c.link.timeslot < c.size}
  <2>1. /\ call.op = "create_minimal" /\ call.link \in LinkRecord
        /\ call.size \in Nat /\ call.link.timeslot < call.size
    BY <1>7
  <2>2. Sections(call) =
          RemovalOfAll
            \o << [op |-> "add_slotframe", handle |-> call.link.slotframe_handle,
                   size |-> call.size],
                  [op |-> "add_link", link |-> call.link, do_remove |-> TRUE,
                   replaces |-> FALSE] >>
    BY <2>1 DEF Sections
  <2> DEFINE l == call.link
             length == call.size
  <2>3. l \in LinkRecord /\ length \in CallSizes /\ l.timeslot < length
    BY <2>1 DEF LinkRecord, CallSizes
  <2>4. Sections(call) =
          RemovalOfAll
            \o << [op |-> "add_slotframe", handle |-> l.slotframe_handle,
                   size |-> length],
                  [op |-> "add_link", link |-> l, do_remove |-> TRUE,
                   replaces |-> FALSE] >>
    BY <2>2
  <2> HIDE DEF l, length
  <2> QED  BY <2>3, <2>4, MinimalOK
<1> QED  BY <1>1, <1>3, <1>4, <1>5, <1>6, <1>7 DEF CallRecord

-----------------------------------------------------------------------------
(* What is left of a call after its next section. *)
LEMMA NextSection ==
  ASSUME NEW s \in Seq(SectionRecord), IsInjective(s), s # <<>>
  PROVE  /\ Len(s) \in Nat /\ 1 \in 1 .. Len(s)
         /\ Head(s) = s[1] /\ Head(s) \in SectionRecord
         /\ Tail(s) \in Seq(SectionRecord)
         /\ Len(Tail(s)) = Len(s) - 1
         /\ IsInjective(Tail(s))
         /\ \A i \in 1 .. Len(Tail(s)) :
              /\ i + 1 \in 1 .. Len(s)
              /\ Tail(s)[i] = s[i + 1]
              /\ s[i + 1] # Head(s)
              /\ \A r : Before(r, i + 1, s) => r = Head(s) \/ Before(r, i, Tail(s))
<1>1. Len(s) \in Nat /\ Len(s) # 0 /\ DOMAIN s = 1 .. Len(s)  BY EmptySeq
<1> DEFINE t == Tail(s)
           m == Len(t)
           n == Len(s)
<1>2. /\ t \in Seq(SectionRecord) /\ Len(t) = n - 1
      /\ \A i \in 1 .. Len(t) : t[i] = s[i + 1]
      /\ Head(s) = s[1] /\ DOMAIN t = 1 .. Len(t)
  BY HeadTailProperties
<1>3. n \in Nat /\ m = n - 1 /\ n # 0  BY <1>1, <1>2
<1>4. \A i \in 1 .. n : s[i] \in SectionRecord  OBVIOUS
<1> HIDE DEF t, n, m
<1>5. 1 \in 1 .. n /\ \A i \in 1 .. m : i + 1 \in 1 .. n /\ i + 1 # 1
  BY <1>3
<1>6. \A i, j \in 1 .. n : s[i] = s[j] => i = j
  BY <1>1 DEF IsInjective, n
<1>7. \A i \in 1 .. m : t[i] = s[i + 1] /\ s[i + 1] # s[1]
  BY <1>2, <1>5, <1>6 DEF m
<1>8. IsInjective(t)
  <2>1. \A i, j \in 1 .. m : t[i] = t[j] => i = j
    <3> SUFFICES ASSUME NEW i \in 1 .. m, NEW j \in 1 .. m, t[i] = t[j]
                 PROVE  i = j
      OBVIOUS
    <3>1. i + 1 = j + 1  BY <1>5, <1>6, <1>7
    <3> QED  BY <1>3, <3>1
  <2> QED  BY <1>2, <2>1 DEF IsInjective, m
<1>9. ASSUME NEW i \in 1 .. m, NEW r, Before(r, i + 1, s)
      PROVE  r = s[1] \/ Before(r, i, t)
  <2>1. PICK j \in 1 .. (i + 1) - 1 : s[j] = r  BY <1>9 DEF Before
  <2>2. CASE j = 1  BY <2>1, <2>2
  <2>3. CASE j # 1
    <3>1. j - 1 \in 1 .. i - 1 /\ j - 1 \in 1 .. m /\ (j - 1) + 1 = j
      BY <1>3, <2>1, <2>3
    <3>2. t[j - 1] = s[(j - 1) + 1]  BY <1>7, <3>1
    <3> QED  BY <2>1, <3>1, <3>2 DEF Before
  <2> QED  BY <2>2, <2>3
<1> QED
  <2>1. Head(s) = s[1]  BY <1>2
  <2> QED  BY <1>2, <1>3, <1>4, <1>5, <1>7, <1>8, <1>9, <2>1 DEF t, m, n

(* A removal that is done leaves what else the call is to do.              *)
LEMMA RemovalKeepsTodo ==
  ASSUME PoolTypeOK, TodoOK(todo), todo # <<>>, todo' = Tail(todo),
         Head(todo) \in RemovalRecord,
         Installed' \subseteq Installed,
         \A b \in Installed : b \in Installed' <=> Head(todo) # Unlink(b),
         \A b \in Installed' : link'[b] = link[b],
         \A h \in Range(slotframe_list) :
           h \in Range(slotframe_list') \/ Head(todo) = Drop(h),
         \A h \in Handle : /\ size'[h] = size[h] \/ size'[h] = 0
                           /\ Head(todo) = Drop(h) => size'[h] = 0
  PROVE  TodoOK(todo)'
<1> DEFINE n == Len(todo')
<1>1. /\ n \in Nat /\ Len(todo) = n + 1 /\ 1 \in 1 .. Len(todo)
      /\ Head(todo) = todo[1]
      /\ todo' \in Seq(SectionRecord) /\ IsInjective(todo')
      /\ \A i \in 1 .. n :
           /\ i + 1 \in 1 .. Len(todo)
           /\ todo'[i] = todo[i + 1]
           /\ todo[i + 1] # Head(todo)
           /\ \A r : Before(r, i + 1, todo)
                       => r = Head(todo) \/ Before(r, i, todo')
  <2>1. todo \in Seq(SectionRecord) /\ IsInjective(todo)  BY DEF TodoOK
  <2>2. /\ Len(todo) \in Nat /\ 1 \in 1 .. Len(todo)
        /\ Head(todo) = todo[1] /\ Head(todo) \in SectionRecord
        /\ Tail(todo) \in Seq(SectionRecord)
        /\ Len(Tail(todo)) = Len(todo) - 1
        /\ IsInjective(Tail(todo))
        /\ \A i \in 1 .. Len(Tail(todo)) :
             /\ i + 1 \in 1 .. Len(todo)
             /\ Tail(todo)[i] = todo[i + 1]
             /\ todo[i + 1] # Head(todo)
             /\ \A r : Before(r, i + 1, todo)
                         => r = Head(todo) \/ Before(r, i, Tail(todo))
    BY <2>1, NextSection, Zenon
  <2>3. Len(todo) - 1 \in Nat /\ Len(todo) = (Len(todo) - 1) + 1
    BY <2>2
  <2> QED  BY <2>2, <2>3
<1>2. \A i \in 1 .. n : todo[i + 1] \in SectionRecord
  BY <1>1 DEF TodoOK
<1>3. Head(todo).op \in {"remove_link", "remove_slotframe"}
  BY SectionFields
<1>4. Installed \subseteq Block  BY DEF Installed
<1> HIDE DEF n
<1>5. RemovalOK(todo)'
  <2>1. SUFFICES ASSUME NEW i \in 1 .. n
        PROVE  /\ todo'[i].op = "remove_link" => todo'[i].block \in Installed'
               /\ todo'[i].op = "remove_slotframe" =>
                    /\ todo'[i].handle \in Range(slotframe_list')
                    /\ \A b \in Installed' :
                         link'[b].slotframe_handle = todo'[i].handle
                           => Before(Unlink(b), i, todo')
    BY DEF RemovalOK, LinksOf, Before, n
  <2>2. i + 1 \in 1 .. Len(todo) /\ todo'[i] = todo[i + 1]
        /\ todo[i + 1] # Head(todo)
    BY <1>1
  <2>3. CASE todo[i + 1].op = "remove_link"
    <3>1. todo[i + 1].block \in Installed
      BY <2>2, <2>3 DEF TodoOK, RemovalOK
    <3>2. todo[i + 1] = Unlink(todo[i + 1].block)
      BY <1>2, <2>3 DEF SectionRecord, RemovalRecord, Unlink
    <3> QED  BY <2>2, <2>3, <3>1, <3>2
  <2>4. CASE todo[i + 1].op = "remove_slotframe"
    <3> DEFINE h == todo[i + 1].handle
    <3>1. h \in Range(slotframe_list)
          /\ \A b \in LinksOf(h) : Before(Unlink(b), i + 1, todo)
      BY <2>2, <2>4 DEF TodoOK, RemovalOK
    <3>2. todo[i + 1] = Drop(h)
      BY <1>2, <2>4 DEF SectionRecord, RemovalRecord, Drop
    <3>3. h \in Range(slotframe_list')  BY <2>2, <3>1, <3>2
    <3>4. ASSUME NEW b \in Installed', link'[b].slotframe_handle = h
          PROVE  Before(Unlink(b), i, todo')
      <4>1. b \in LinksOf(h) /\ Head(todo) # Unlink(b)  BY <3>4 DEF LinksOf
      <4> QED  BY <1>1, <3>1, <4>1
    <3> QED  BY <2>2, <2>4, <3>3, <3>4
  <2> QED  BY <2>2, <2>3, <2>4
<1>6. AddSlotframeOK(todo)'
  <2>1. SUFFICES ASSUME NEW i \in 1 .. n, todo'[i].op = "add_slotframe"
        PROVE  /\ \/ size'[todo'[i].handle] = 0
                  \/ Before(Drop(todo'[i].handle), i, todo')
               /\ i = n \/ (i + 1 = n /\ todo'[i + 1].op = "add_link")
    BY DEF AddSlotframeOK, Before, Drop, n
  <2> DEFINE h == todo[i + 1].handle
  <2>2. /\ i + 1 \in 1 .. Len(todo) /\ todo'[i] = todo[i + 1]
        /\ todo[i + 1].op = "add_slotframe" /\ h \in Handle
    BY <1>1, <1>2, <2>1 DEF SectionRecord, RemovalRecord
  <2>3. /\ size[h] = 0 \/ Before(Drop(h), i + 1, todo)
        /\ i + 1 = Len(todo)
             \/ ((i + 1) + 1 = Len(todo) /\ todo[(i + 1) + 1].op = "add_link")
    BY <2>2 DEF TodoOK, AddSlotframeOK
  <2>4. size'[h] = 0 \/ Before(Drop(h), i, todo')
    BY <1>1, <2>2, <2>3
  <2>5. i = n \/ (i + 1 = n /\ todo'[i + 1].op = "add_link")
    BY <1>1, <2>3
  <2> QED  BY <2>2, <2>4, <2>5
<1>7. AddLinkOK(todo)'
  <2>1. SUFFICES ASSUME NEW i \in 1 .. n, todo'[i].op = "add_link"
        PROVE  LET l == todo'[i].link
                   h == l.slotframe_handle
               IN /\ i = n
                  /\ IF i > 1 /\ todo'[i - 1].op = "add_slotframe"
                       THEN /\ todo'[i - 1].handle = h
                            /\ l.timeslot < todo'[i - 1].size
                       ELSE size'[h] # 0 => l.timeslot < size'[h]
                  /\ todo'[i].replaces =>
                       Installed' # Block
                         \/ \E b \in Block : Before(Unlink(b), i, todo')
                  /\ todo'[i].do_remove =>
                       \A b \in Installed' :
                         At(link'[b], l) => Before(Unlink(b), i, todo')
    BY DEF AddLinkOK, LinkFits, Before, At, n
  <2> DEFINE s == todo[i + 1]
             l == s.link
             h == l.slotframe_handle
  <2>2. /\ i + 1 \in 1 .. Len(todo) /\ todo'[i] = s
        /\ s.op = "add_link" /\ h \in Handle
    BY <1>1, <1>2, <2>1 DEF SectionRecord, RemovalRecord, LinkRecord
  <2>3. /\ i + 1 = Len(todo)
        /\ LinkFits(l, i + 1, todo)
        /\ s.replaces =>
             Installed # Block \/ \E b \in Block : Before(Unlink(b), i + 1, todo)
        /\ s.do_remove =>
             \A b \in Installed : At(link[b], l) => Before(Unlink(b), i + 1, todo)
    BY <2>2 DEF TodoOK, AddLinkOK
  <2> HIDE DEF s
  <2>4. i = n  BY <1>1, <2>3
  <2>5. IF i > 1 /\ todo'[i - 1].op = "add_slotframe"
          THEN todo'[i - 1].handle = h /\ l.timeslot < todo'[i - 1].size
          ELSE size'[h] # 0 => l.timeslot < size'[h]
    <3>1. IF i + 1 > 1 /\ todo[(i + 1) - 1].op = "add_slotframe"
            THEN todo[(i + 1) - 1].handle = h /\ l.timeslot < todo[(i + 1) - 1].size
            ELSE size[h] # 0 => l.timeslot < size[h]
      BY <2>3 DEF LinkFits
    <3>2. i + 1 > 1 /\ (i + 1) - 1 = i  BY <1>1
    <3>3. CASE i = 1
      <4>1. todo[i].op # "add_slotframe"  BY <1>1, <1>3, <3>3
      <4>2. size[h] # 0 => l.timeslot < size[h]  BY <3>1, <3>2, <4>1
      <4> QED  BY <2>2, <3>3, <4>2
    <3>4. CASE i # 1
      <4>1. i - 1 \in 1 .. n /\ (i - 1) + 1 = i /\ i > 1  BY <1>1, <3>4
      <4>2. todo'[i - 1] = todo[(i - 1) + 1]  BY <1>1, <4>1
      <4>3. todo'[i - 1] = todo[i]  BY <4>1, <4>2
      <4> QED  BY <2>2, <3>1, <3>2, <4>1, <4>3
    <3> QED  BY <3>3, <3>4
  <2>6. s.replaces => Installed' # Block
                        \/ \E b \in Block : Before(Unlink(b), i, todo')
    BY <1>1, <1>4, <2>3
  <2>7. s.do_remove => \A b \in Installed' :
                         At(link'[b], l) => Before(Unlink(b), i, todo')
    BY <1>1, <2>3
  <2> QED  BY <2>2, <2>4, <2>5, <2>6, <2>7
<1>8. (todo \in Seq(SectionRecord))' /\ IsInjective(todo)'
  BY <1>1 DEF IsInjective
<1> QED  BY <1>5, <1>6, <1>7, <1>8 DEF TodoOK

-----------------------------------------------------------------------------
(* The operations on the schedule, one by one. *)
LEMMA SamePool ==
  ASSUME PoolTypeOK, PoolInv, UNCHANGED poolVars, TodoOK(todo')
  PROVE  PoolTypeOK' /\ PoolInv' /\ TodoOK(todo)'
<1>1. /\ slotframe_list' = slotframe_list /\ size' = size
      /\ links_list' = links_list /\ link' = link
  BY DEF poolVars
<1>2. Installed' = Installed  BY <1>1 DEF Installed
<1>3. PoolTypeOK' /\ PoolInv'
  BY <1>1, <1>2 DEF PoolTypeOK, PoolInv, LinksOf
<1>4. RemovalOK(todo)'
  BY <1>1, <1>2 DEF TodoOK, RemovalOK, LinksOf, Before, Unlink
<1>5. AddSlotframeOK(todo)'
  BY <1>1 DEF TodoOK, AddSlotframeOK, Before, Drop
<1>6. AddLinkOK(todo)'
  BY <1>1, <1>2 DEF TodoOK, AddLinkOK, LinkFits, At, Before, Unlink
<1>7. (todo \in Seq(SectionRecord))' /\ IsInjective(todo)'
  BY DEF TodoOK, IsInjective
<1> QED  BY <1>3, <1>4, <1>5, <1>6, <1>7 DEF TodoOK

(* The sections of a call are in order when it starts. *)
LEMMA StartKeeps ==
  ASSUME PoolTypeOK, PoolInv, Start
  PROVE  PoolTypeOK' /\ PoolInv' /\ TodoOK(todo)'
<1>1. PICK call \in Call : todo' = Sections(call)  BY DEF Start
<1>2. TodoOK(todo')  BY <1>1, SectionsOK
<1> QED  BY <1>2, SamePool DEF Start

(* The section that runs is the first of what is left. *)
LEMMA SectionRuns ==
  ASSUME TodoOK(todo), NEW op, Section(op)
  PROVE  /\ todo # <<>> /\ todo' = Tail(todo) /\ Head(todo) = todo[1]
         /\ Head(todo).op = op /\ Head(todo) \in SectionRecord
         /\ 1 \in 1 .. Len(todo)
         /\ \A r : ~Before(r, 1, todo)
<1>1. todo \in Seq(SectionRecord) /\ IsInjective(todo) /\ todo # <<>>
      /\ todo' = Tail(todo) /\ Head(todo).op = op
  BY DEF TodoOK, Section
<1>2. /\ Head(todo) = todo[1] /\ Head(todo) \in SectionRecord
      /\ 1 \in 1 .. Len(todo)
  BY <1>1, NextSection
<1> QED  BY <1>1, <1>2 DEF Before

(* Each section keeps pool, lists and what is left in order. *)
LEMMA RemoveLinkKeeps ==
  ASSUME PoolTypeOK, PoolInv, TodoOK(todo), RemoveLink
  PROVE  PoolTypeOK' /\ PoolInv' /\ TodoOK(todo)'
<1> DEFINE b == Head(todo).block
           h == link[b].slotframe_handle
<1>1. /\ todo # <<>> /\ todo' = Tail(todo) /\ Head(todo) = todo[1]
      /\ Head(todo).op = "remove_link" /\ Head(todo) \in SectionRecord
      /\ 1 \in 1 .. Len(todo)
  BY SectionRuns DEF RemoveLink
<1>2. /\ links_list' = [links_list EXCEPT ![h] = RemoveFirst(@, b)]
      /\ link' = [link EXCEPT ![b] = Free]
      /\ slotframe_list' = slotframe_list /\ size' = size
  BY DEF RemoveLink
<1>3. Head(todo) = Unlink(b) /\ Head(todo) \in RemovalRecord /\ b \in Installed
  <2>1. b \in Installed  BY <1>1 DEF TodoOK, RemovalOK
  <2>2. Head(todo) \in RemovalRecord /\ Head(todo) = Unlink(b)
    BY <1>1 DEF SectionRecord, RemovalRecord, Unlink
  <2> QED  BY <2>1, <2>2
<1>4. b \in Block /\ link[b] \in LinkRecord /\ h \in Handle
  BY <1>3 DEF PoolTypeOK, Installed, LinkRecord
<1> HIDE DEF b, h
<1>5. /\ link' \in [Block -> LinkRecord \cup {Free}]
      /\ link'[b] = Free
      /\ \A c \in Block : c # b => link'[c] = link[c]
  BY <1>2, <1>4 DEF PoolTypeOK
<1>6. Installed' = Installed \ {b}
  BY <1>3, <1>4, <1>5 DEF Installed
<1>12. h = link[b].slotframe_handle  BY DEF h
<1>7. \A g \in Handle :
        /\ links_list'[g] \in Seq(Block)
        /\ IsInjective(links_list'[g])
        /\ Range(links_list'[g]) = LinksOf(g) \ {b}
  <2> SUFFICES ASSUME NEW g \in Handle
               PROVE  /\ links_list'[g] \in Seq(Block)
                      /\ IsInjective(links_list'[g])
                      /\ Range(links_list'[g]) = LinksOf(g) \ {b}
    OBVIOUS
  <2>1. /\ links_list[g] \in Seq(Block) /\ IsInjective(links_list[g])
        /\ Range(links_list[g]) = LinksOf(g)
    BY DEF PoolTypeOK, PoolInv
  <2>2. CASE g = h
    <3>1. links_list'[g] = RemoveFirst(links_list[g], b)
      BY <1>2, <1>4, <2>2 DEF PoolTypeOK
    <3> QED  BY <2>1, <3>1, RemoveFirstElements
  <2>3. CASE g # h
    <3>1. links_list'[g] = links_list[g]  BY <1>2, <1>4, <2>3 DEF PoolTypeOK
    <3>2. b \notin LinksOf(g)  BY <1>12, <2>3 DEF LinksOf
    <3> QED  BY <2>1, <3>1, <3>2
  <2> QED  BY <2>2, <2>3
<1>8. \A g \in Handle : LinksOf(g)' = LinksOf(g) \ {b}
  BY <1>5, <1>6 DEF LinksOf, Installed
<1>9. PoolTypeOK'
  <2>1. links_list' \in [Handle -> Seq(Block)]
    BY <1>2, <1>7 DEF PoolTypeOK
  <2> QED  BY <1>2, <1>5, <2>1 DEF PoolTypeOK
<1>10. PoolInv'
  <2>1. \A c \in Installed' :
          link'[c].timeslot < size'[link'[c].slotframe_handle]
    BY <1>2, <1>5, <1>6 DEF PoolInv, Installed
  <2> QED  BY <1>2, <1>7, <1>8, <2>1 DEF PoolInv
<1>11. TodoOK(todo)'
  <2>1. \A c \in Installed : c \in Installed' <=> Head(todo) # Unlink(c)
    BY <1>3, <1>6, SectionFields
  <2>2. \A c \in Installed' : link'[c] = link[c]
    BY <1>5, <1>6 DEF Installed
  <2>3. \A g : Head(todo) # Drop(g)  BY <1>1, SectionFields
  <2>4. Installed' \subseteq Installed  BY <1>6
  <2> QED  BY <1>1, <1>2, <1>3, <2>1, <2>2, <2>3, <2>4, RemovalKeepsTodo
<1> QED  BY <1>9, <1>10, <1>11

(* A slotframe is removed when it has no links left. *)
LEMMA RemoveSlotframeKeeps ==
  ASSUME PoolTypeOK, PoolInv, TodoOK(todo), RemoveSlotframe
  PROVE  PoolTypeOK' /\ PoolInv' /\ TodoOK(todo)'
<1> DEFINE h == Head(todo).handle
<1>1. /\ todo # <<>> /\ todo' = Tail(todo) /\ Head(todo) = todo[1]
      /\ Head(todo).op = "remove_slotframe" /\ Head(todo) \in SectionRecord
      /\ 1 \in 1 .. Len(todo) /\ \A r : ~Before(r, 1, todo)
  BY SectionRuns DEF RemoveSlotframe
<1>2. /\ slotframe_list' = RemoveFirst(slotframe_list, h)
      /\ size' = [size EXCEPT ![h] = 0]
      /\ links_list' = links_list /\ link' = link
  BY DEF RemoveSlotframe
<1>3. /\ h \in Range(slotframe_list) /\ LinksOf(h) = {}
      /\ Head(todo) = Drop(h) /\ Head(todo) \in RemovalRecord /\ h \in Handle
  <2>1. h \in Range(slotframe_list)
        /\ \A b \in LinksOf(h) : Before(Unlink(b), 1, todo)
    BY <1>1 DEF TodoOK, RemovalOK
  <2>2. Head(todo) = Drop(h) /\ Head(todo) \in RemovalRecord /\ h \in Handle
    BY <1>1 DEF SectionRecord, RemovalRecord, Drop
  <2> QED  BY <1>1, <2>1, <2>2
<1> HIDE DEF h
<1>4. Installed' = Installed /\ \A g \in Handle : LinksOf(g)' = LinksOf(g)
  BY <1>2 DEF Installed, LinksOf
<1>5. /\ slotframe_list' \in Seq(Handle)
      /\ Range(slotframe_list') = Range(slotframe_list) \ {h}
      /\ IsInjective(slotframe_list')
  BY <1>2, RemoveFirstElements DEF PoolTypeOK, PoolInv
<1>6. /\ size' \in [Handle -> Nat] /\ size'[h] = 0
      /\ \A g \in Handle : g # h => size'[g] = size[g]
  BY <1>2, <1>3 DEF PoolTypeOK
<1>7. PoolTypeOK'  BY <1>2, <1>5, <1>6 DEF PoolTypeOK
<1>8. PoolInv'
  <2>1. \A c \in Installed :
          link[c].slotframe_handle \in Handle /\ link[c].slotframe_handle # h
    BY <1>3 DEF PoolTypeOK, LinksOf, Installed, LinkRecord
  <2>2. \A c \in Installed' :
          link'[c].timeslot < size'[link'[c].slotframe_handle]
    BY <1>2, <1>4, <1>6, <2>1 DEF PoolInv
  <2>3. \A g \in Handle : size'[g] # 0 <=> g \in Range(slotframe_list')
    BY <1>5, <1>6 DEF PoolInv
  <2> QED  BY <1>2, <1>4, <1>5, <2>2, <2>3 DEF PoolInv
<1>9. TodoOK(todo)'
  <2>1. \A c : Head(todo) # Unlink(c)  BY <1>1, SectionFields
  <2>2. \A g \in Range(slotframe_list) :
          g \in Range(slotframe_list') \/ Head(todo) = Drop(g)
    BY <1>3, <1>5
  <2>3. \A g : Head(todo) = Drop(g) => g = h  BY <1>3, SectionFields
  <2>4. \A g \in Handle : /\ size'[g] = size[g] \/ size'[g] = 0
                          /\ Head(todo) = Drop(g) => size'[g] = 0
    BY <1>6, <2>3
  <2>5. /\ Installed' \subseteq Installed
        /\ \A b \in Installed : b \in Installed' <=> Head(todo) # Unlink(b)
        /\ \A b \in Installed' : link'[b] = link[b]
    BY <1>2, <1>4, <2>1
  <2> QED  BY <1>1, <1>3, <2>2, <2>4, <2>5, RemovalKeepsTodo
<1> QED  BY <1>7, <1>8, <1>9

(* The last section of a call leaves nothing to do. *)
LEMMA NothingLeft ==
  ASSUME todo' = <<>> PROVE TodoOK(todo)'
<1>1. todo' \in Seq(SectionRecord) /\ Len(todo') = 0 /\ DOMAIN todo' = {}
  OBVIOUS
<1> QED
  BY <1>1 DEF TodoOK, IsInjective, RemovalOK, AddSlotframeOK, AddLinkOK

(* A link is added to a slotframe that exists and has its timeslot. *)
LEMMA AddLinkKeeps ==
  ASSUME PoolTypeOK, PoolInv, TodoOK(todo), AddLink
  PROVE  PoolTypeOK' /\ PoolInv' /\ TodoOK(todo)'
<1> DEFINE l == Head(todo).link
           h == l.slotframe_handle
<1>1. /\ todo # <<>> /\ todo' = Tail(todo) /\ Head(todo) = todo[1]
      /\ Head(todo).op = "add_link" /\ Head(todo) \in SectionRecord
      /\ 1 \in 1 .. Len(todo)
  BY SectionRuns DEF AddLink
<1>2. /\ 1 = Len(todo) /\ LinkFits(l, 1, todo)
      /\ l \in LinkRecord /\ h \in Handle /\ l # Free
  BY <1>1, ScheduleAssumption
  DEF TodoOK, AddLinkOK, SectionRecord, RemovalRecord, LinkRecord
<1>3. TodoOK(todo)'
  <2>1. todo \in Seq(SectionRecord)  BY DEF TodoOK
  <2>2. todo' = <<>>  BY <1>1, <1>2, <2>1
  <2> QED  BY <2>2, NothingLeft
<1>4. size[h] # 0 => l.timeslot < size[h]
  <2>1. ~(1 > 1)  OBVIOUS
  <2> QED  BY <1>2, <2>1 DEF LinkFits
<1>5. slotframe_list' = slotframe_list /\ size' = size  BY DEF AddLink
<1>6. CASE links_list' = links_list /\ link' = link
  <2>1. Installed' = Installed  BY <1>6 DEF Installed
  <2>2. PoolTypeOK' /\ PoolInv'
    BY <1>5, <1>6, <2>1 DEF PoolTypeOK, PoolInv, LinksOf
  <2> QED  BY <1>3, <2>2
<1>7. CASE size[h] # 0 /\ \E b \in Block \ Installed :
             /\ link' = [link EXCEPT ![b] = l]
             /\ links_list' = [links_list EXCEPT ![h] = Append(@, b)]
  <2>1. PICK b \in Block \ Installed :
          /\ link' = [link EXCEPT ![b] = l]
          /\ links_list' = [links_list EXCEPT ![h] = Append(@, b)]
    BY <1>7
  <2>11. h = l.slotframe_handle  OBVIOUS
  <2> HIDE DEF h, l
  <2>2. /\ link' \in [Block -> LinkRecord \cup {Free}] /\ link'[b] = l
        /\ \A c \in Block : c # b => link'[c] = link[c]
    BY <1>2, <2>1 DEF PoolTypeOK
  <2>3. Installed' = Installed \cup {b}  BY <1>2, <2>2 DEF Installed
  <2>4. \A g \in Handle : LinksOf(g)' = IF g = h THEN LinksOf(g) \cup {b}
                                                 ELSE LinksOf(g)
    BY <2>2, <2>3, <2>11 DEF LinksOf, Installed
  <2>5. \A g \in Handle :
          /\ links_list'[g] \in Seq(Block)
          /\ IsInjective(links_list'[g])
          /\ Range(links_list'[g]) = LinksOf(g)'
    <3> SUFFICES ASSUME NEW g \in Handle
                 PROVE  /\ links_list'[g] \in Seq(Block)
                        /\ IsInjective(links_list'[g])
                        /\ Range(links_list'[g]) = LinksOf(g)'
      OBVIOUS
    <3>1. /\ links_list[g] \in Seq(Block) /\ IsInjective(links_list[g])
          /\ Range(links_list[g]) = LinksOf(g) /\ b \notin LinksOf(g)
      BY DEF PoolTypeOK, PoolInv, LinksOf
    <3>2. CASE g = h
      <4>1. links_list'[g] = Append(links_list[g], b)
        BY <1>2, <2>1, <3>2 DEF PoolTypeOK
      <4> DEFINE list == links_list[g]
      <4>2. b \in Block /\ list \in Seq(Block) /\ IsInjective(list)
            /\ b \notin Range(list)
        BY <3>1
      <4> HIDE DEF list
      <4>3. /\ Append(list, b) \in Seq(Block)
            /\ Range(Append(list, b)) = Range(list) \cup {b}
            /\ IsInjective(Append(list, b))
        BY <4>2, AppendElements
      <4> QED  BY <2>4, <3>1, <3>2, <4>1, <4>3 DEF list
    <3>3. CASE g # h
      <4>1. links_list'[g] = links_list[g]
        BY <1>2, <2>1, <3>3 DEF PoolTypeOK
      <4> QED  BY <2>4, <3>1, <3>3, <4>1
    <3> QED  BY <3>2, <3>3
  <2>6. PoolTypeOK'
    <3>1. links_list' \in [Handle -> Seq(Block)]
      BY <2>1, <2>5 DEF PoolTypeOK
    <3> QED  BY <1>5, <2>2, <3>1 DEF PoolTypeOK
  <2>7. PoolInv'
    <3>1. \A c \in Installed' :
            link'[c].timeslot < size'[link'[c].slotframe_handle]
      BY <1>4, <1>5, <1>7, <2>2, <2>3, <2>11 DEF PoolInv, Installed
    <3> QED  BY <1>5, <2>5, <3>1 DEF PoolInv
  <2> QED  BY <1>3, <2>6, <2>7
<1> QED  BY <1>6, <1>7 DEF AddLink

(* A slotframe is added once. *)
LEMMA AddSlotframeKeeps ==
  ASSUME PoolTypeOK, PoolInv, TodoOK(todo), AddSlotframe
  PROVE  PoolTypeOK' /\ PoolInv' /\ TodoOK(todo)'
<1> DEFINE h == Head(todo).handle
           length == Head(todo).size
<1>1. /\ todo # <<>> /\ todo' = Tail(todo) /\ Head(todo) = todo[1]
      /\ Head(todo).op = "add_slotframe" /\ Head(todo) \in SectionRecord
      /\ 1 \in 1 .. Len(todo) /\ \A r : ~Before(r, 1, todo)
  BY SectionRuns DEF AddSlotframe
<1>2. h \in Handle /\ length \in Nat \ {0}
  BY <1>1, CallSizesArePositive DEF SectionRecord, RemovalRecord
<1>3. /\ size[h] = 0
      /\ 1 = Len(todo) \/ (1 + 1 = Len(todo) /\ todo[1 + 1].op = "add_link")
  BY <1>1 DEF TodoOK, AddSlotframeOK
<1>4. links_list' = links_list /\ link' = link  BY DEF AddSlotframe
<1>5. Installed' = Installed /\ \A g \in Handle : LinksOf(g)' = LinksOf(g)
  BY <1>4 DEF Installed, LinksOf
<1>6. /\ PoolTypeOK' /\ PoolInv'
      /\ \A g \in Handle : size'[g] = size[g] \/ (g = h /\ size'[g] = length)
  <2>1. CASE slotframe_list' = slotframe_list /\ size' = size
    BY <1>4, <1>5, <2>1 DEF PoolTypeOK, PoolInv
  <2>2. CASE /\ slotframe_list' = Append(slotframe_list, h)
             /\ size' = [size EXCEPT ![h] = length]
    <3> HIDE DEF h, length
    <3>1. h \notin Range(slotframe_list)  BY <1>2, <1>3 DEF PoolInv
    <3>2. /\ slotframe_list' \in Seq(Handle)
          /\ Range(slotframe_list') = Range(slotframe_list) \cup {h}
          /\ IsInjective(slotframe_list')
      BY <1>2, <2>2, <3>1, AppendElements DEF PoolTypeOK, PoolInv
    <3>3. /\ size' \in [Handle -> Nat] /\ size'[h] = length
          /\ \A g \in Handle : g # h => size'[g] = size[g]
      BY <1>2, <2>2 DEF PoolTypeOK
    <3>4. PoolTypeOK'  BY <1>4, <3>2, <3>3 DEF PoolTypeOK
    <3>5. \A c \in Installed : /\ link[c].slotframe_handle \in Handle
                               /\ link[c].slotframe_handle # h
      BY <1>3 DEF PoolTypeOK, PoolInv, Installed, LinkRecord
    <3>6. \A c \in Installed' :
            link'[c].timeslot < size'[link'[c].slotframe_handle]
      BY <1>4, <1>5, <3>3, <3>5 DEF PoolInv
    <3>7. \A g \in Handle : size'[g] # 0 <=> g \in Range(slotframe_list')
      BY <1>2, <3>2, <3>3 DEF PoolInv
    <3>8. PoolInv'  BY <1>4, <1>5, <3>2, <3>6, <3>7 DEF PoolInv
    <3> QED  BY <3>3, <3>4, <3>8
  <2> QED  BY <2>1, <2>2 DEF AddSlotframe
<1>7. todo \in Seq(SectionRecord) /\ IsInjective(todo)  BY DEF TodoOK
<1>8. CASE 1 = Len(todo)
  <2>1. todo' = <<>>  BY <1>1, <1>7, <1>8
  <2> QED  BY <1>6, <2>1, NothingLeft
<1>9. CASE 2 = Len(todo) /\ todo[2].op = "add_link"
  <2> DEFINE x == todo[2]
             l == x.link
             g == l.slotframe_handle
  <2>1. 2 \in 1 .. Len(todo)  BY <1>9
  <2>2. /\ x \in SectionRecord /\ x.op = "add_link" /\ g \in Handle
    <3>1. x \in SectionRecord /\ x.op = "add_link"  BY <1>7, <1>9, <2>1
    <3> HIDE DEF x
    <3> QED  BY <3>1 DEF SectionRecord, RemovalRecord, LinkRecord
  <2>3. /\ LinkFits(l, 2, todo)
        /\ x.replaces =>
             Installed # Block \/ \E b \in Block : Before(Unlink(b), 2, todo)
        /\ x.do_remove =>
             \A b \in Installed : At(link[b], l) => Before(Unlink(b), 2, todo)
    BY <1>9, <2>1 DEF TodoOK, AddLinkOK
  <2>4. \A b : ~Before(Unlink(b), 2, todo)
    BY <1>1, SectionFields DEF Before
  <2>5. g = h /\ l.timeslot < length
    BY <1>1, <2>3 DEF LinkFits
  <2> HIDE DEF x
  <2>6. size'[g] # 0 => l.timeslot < size'[g]
    BY <1>2, <1>3, <1>6, <2>2, <2>5
  <2>7. todo' \in Seq(SectionRecord) /\ Len(todo') = 1 /\ todo'[1] = x
        /\ DOMAIN todo' = {1}
    <3>1. /\ Tail(todo) \in Seq(SectionRecord)
          /\ Len(Tail(todo)) = Len(todo) - 1
          /\ \A i \in 1 .. Len(Tail(todo)) : Tail(todo)[i] = todo[i + 1]
      BY <1>1, <1>7, HeadTailProperties
    <3>2. /\ todo' \in Seq(SectionRecord) /\ Len(todo') = 1
          /\ todo'[1] = todo[1 + 1]
      BY <1>1, <1>9, <3>1
    <3> QED  BY <3>2 DEF x
  <2>8. \A i \in 1 .. Len(todo') : i = 1 /\ i = Len(todo')  BY <2>7
  <2>9. AddLinkOK(todo)'
    <3>1. LinkFits(todo[1].link, 1, todo)'
      <4>1. ~(1 > 1)  OBVIOUS
      <4> QED  BY <2>6, <2>7, <4>1 DEF LinkFits
    <3>2. (todo[1].replaces => Installed # Block)'
      BY <1>5, <2>3, <2>4, <2>7
    <3>3. (todo[1].do_remove => \A b \in Installed : ~At(link[b], todo[1].link))'
      BY <1>4, <1>5, <2>3, <2>4, <2>7 DEF At
    <3> QED  BY <2>8, <3>1, <3>2, <3>3 DEF AddLinkOK
  <2>10. AddSlotframeOK(todo)' /\ RemovalOK(todo)' /\ IsInjective(todo)'
    BY <2>2, <2>7, <2>8 DEF AddSlotframeOK, RemovalOK, IsInjective
  <2> QED  BY <1>6, <2>7, <2>9, <2>10 DEF TodoOK
<1> QED  BY <1>3, <1>8, <1>9

-----------------------------------------------------------------------------
(* The counters of the neighbours follow the links that come and go. *)
LEMMA CountedLinks ==
  /\ IsFiniteSet(Installed)
  /\ \A a : /\ TxLinks(a) \subseteq Installed /\ IsFiniteSet(TxLinks(a))
            /\ DedicatedLinks(a) \subseteq Installed
            /\ IsFiniteSet(DedicatedLinks(a))
            /\ Cardinality(TxLinks(a)) \in Nat
            /\ Cardinality(DedicatedLinks(a)) \in Nat
<1>1. IsFiniteSet(Block)  BY ScheduleAssumption
<1>2. IsFiniteSet(Installed)
  <2>1. Installed \subseteq Block  BY DEF Installed
  <2> QED  BY <1>1, <2>1, FS_Subset
<1>3. \A a : TxLinks(a) \subseteq Installed /\ DedicatedLinks(a) \subseteq Installed
  BY DEF TxLinks, DedicatedLinks
<1> QED  BY <1>2, <1>3, FS_Subset, FS_CardinalityType

(* Without a change of the links the counters are right as they are. *)
LEMMA SameLinksCount ==
  ASSUME CountInv, link' = link, UNCHANGED countVars PROVE CountInv'
<1>1. \A a : TxLinks(a)' = TxLinks(a) /\ DedicatedLinks(a)' = DedicatedLinks(a)
  BY DEF TxLinks, DedicatedLinks, Installed
<1> QED  BY <1>1 DEF CountInv, CountTypeOK, Counted, countVars

(* The counters of a neighbour without Tx links are 0: coming back to the  *)
(* table does not change them.                                             *)
LEMMA AbsentIsZero ==
  ASSUME CountInv, NEW a \in Address \ missed, tx_links_count[a] = 0
  PROVE  TxLinks(a) = {} /\ dedicated_tx_links_count[a] = 0
<1>1. Cardinality(TxLinks(a)) = 0  BY DEF CountInv, Counted
<1>2. IsFiniteSet(Installed)
  BY ScheduleAssumption, FS_Subset DEF Installed
<1>3. IsFiniteSet(TxLinks(a))
  BY <1>2, FS_Subset DEF TxLinks
<1>4. TxLinks(a) = {}  BY <1>1, <1>3, FS_EmptySet
<1>5. DedicatedLinks(a) = {}  BY <1>4 DEF DedicatedLinks, TxLinks
<1> QED  BY <1>4, <1>5, FS_EmptySet DEF CountInv, Counted

LEMMA DedicatedIsKept ==
  ASSUME CountInv, NEW a \in Address \ missed
  PROVE  Dedicated(a) = {dedicated_tx_links_count[a]}
BY AbsentIsZero DEF Dedicated, MayBeAbsent

(* Of every other neighbour nothing changes; of the neighbour of a Tx link *)
(* both counters move with the link, or it is, or becomes, one that missed *)
(* a link.                                                                 *)
LEMMA CountLinkCounts ==
  ASSUME CountInv, NEW l \in LinkRecord, NEW n \in {1, -1}, CountLink(l, n)
  PROVE  /\ CountTypeOK'
         /\ missed \subseteq missed'
         /\ \A a \in Address : ~(l.tx /\ l.addr = a) =>
              /\ tx_links_count'[a] = tx_links_count[a]
              /\ dedicated_tx_links_count'[a] = dedicated_tx_links_count[a]
         /\ l.tx /\ l.addr \notin missed' =>
              \/ /\ tx_links_count'[l.addr] = tx_links_count[l.addr] + n
                 /\ dedicated_tx_links_count'[l.addr] =
                      IF l.shared THEN dedicated_tx_links_count[l.addr]
                                  ELSE dedicated_tx_links_count[l.addr] + n
              \/ n = -1 /\ tx_links_count[l.addr] = 0
<1>1. l.addr \in Address /\ l.tx \in BOOLEAN /\ l.shared \in BOOLEAN
  BY DEF LinkRecord
<1>2. CountTypeOK  BY DEF CountInv
<1>3. CASE ~l.tx /\ UNCHANGED countVars
  BY <1>2, <1>3 DEF CountTypeOK, countVars
<1>4. CASE l.tx /\ Count(l, n) /\ UNCHANGED missed
  <2>1. PICK d \in Dedicated(l.addr) :
          /\ tx_links_count' = [tx_links_count EXCEPT ![l.addr] = @ + n]
          /\ dedicated_tx_links_count' =
               [dedicated_tx_links_count EXCEPT
                  ![l.addr] = IF l.shared THEN d ELSE d + n]
    BY <1>4 DEF Count
  <2>2. d \in Int  BY <1>1, <1>2, <2>1 DEF Dedicated, CountTypeOK
  <2>3. l.addr \notin missed => d = dedicated_tx_links_count[l.addr]
    BY <1>1, <2>1, DedicatedIsKept
  <2>4. CountTypeOK'  BY <1>1, <1>2, <1>4, <2>1, <2>2 DEF CountTypeOK
  <2> QED  BY <1>1, <1>2, <1>4, <2>1, <2>2, <2>3, <2>4 DEF CountTypeOK
<1>5. CASE /\ l.tx /\ MayBeAbsent(l.addr)
           /\ missed' = missed \cup Missing(l, n)
           /\ UNCHANGED <<tx_links_count, dedicated_tx_links_count>>
  <2>1. l.addr \notin Virtual /\ tx_links_count[l.addr] = 0
    BY <1>5 DEF MayBeAbsent
  <2>2. n = 1 => l.addr \in missed'  BY <1>5 DEF Missing
  <2>3. CountTypeOK'  BY <1>1, <1>2, <1>5, <2>1 DEF CountTypeOK, Missing
  <2> QED  BY <1>5, <2>1, <2>2, <2>3
<1> QED  BY <1>3, <1>4, <1>5 DEF CountLink

(* Such counters do not wrap. *)
LEMMA CountersAreNat ==
  ASSUME CountInv, NEW a \in Address \ missed
  PROVE  tx_links_count[a] >= 0 /\ dedicated_tx_links_count[a] >= 0
<1>1. Cardinality(TxLinks(a)) \in Nat /\ Cardinality(DedicatedLinks(a)) \in Nat
  BY CountedLinks
<1> QED  BY <1>1 DEF CountInv, Counted

(* A link that is added is counted once. *)
LEMMA AddLinkCounts ==
  ASSUME PoolTypeOK, CountInv, TodoOK(todo), AddLink
  PROVE  CountInv'
<1> DEFINE l == Head(todo).link
<1>1. l \in LinkRecord /\ l # Free
  <2>1. Head(todo).op = "add_link" /\ Head(todo) \in SectionRecord
    BY SectionRuns DEF AddLink
  <2> QED  BY <2>1, ScheduleAssumption DEF SectionRecord, RemovalRecord
<1>2. CASE link' = link /\ UNCHANGED countVars
  BY <1>2, SameLinksCount
<1>3. CASE CountLink(l, 1) /\ \E b \in Block \ Installed :
                                link' = [link EXCEPT ![b] = l]
  <2>1. PICK b \in Block \ Installed : link' = [link EXCEPT ![b] = l]
    BY <1>3
  <2> HIDE DEF l
  <2>2. link'[b] = l /\ \A c \in Block : c # b => link'[c] = link[c]
    BY <2>1 DEF PoolTypeOK
  <2>3. Installed' = Installed \cup {b} /\ b \notin Installed
    BY <1>1, <2>1, <2>2 DEF Installed
  <2>4. \A a : /\ TxLinks(a)' = IF l.tx /\ l.addr = a THEN TxLinks(a) \cup {b}
                                                      ELSE TxLinks(a)
               /\ DedicatedLinks(a)' = IF l.tx /\ l.addr = a /\ ~l.shared
                    THEN DedicatedLinks(a) \cup {b} ELSE DedicatedLinks(a)
    BY <2>2, <2>3 DEF TxLinks, DedicatedLinks, Installed
  <2>5. \A a : /\ Cardinality(TxLinks(a) \cup {b}) = Cardinality(TxLinks(a)) + 1
               /\ Cardinality(DedicatedLinks(a) \cup {b})
                    = Cardinality(DedicatedLinks(a)) + 1
    <3>1. \A a : b \notin TxLinks(a) /\ b \notin DedicatedLinks(a)
      BY <2>3 DEF TxLinks, DedicatedLinks
    <3> QED  BY <3>1, CountedLinks, FS_AddElement
  <2>6. /\ CountTypeOK'
        /\ missed \subseteq missed'
        /\ \A a \in Address : ~(l.tx /\ l.addr = a) =>
             /\ tx_links_count'[a] = tx_links_count[a]
             /\ dedicated_tx_links_count'[a] = dedicated_tx_links_count[a]
        /\ l.tx /\ l.addr \notin missed' =>
             /\ tx_links_count'[l.addr] = tx_links_count[l.addr] + 1
             /\ dedicated_tx_links_count'[l.addr] =
                  IF l.shared THEN dedicated_tx_links_count[l.addr]
                              ELSE dedicated_tx_links_count[l.addr] + 1
    BY <1>1, <1>3, CountLinkCounts
  <2>7. ASSUME NEW a \in Address \ missed' PROVE Counted(a)'
    <3>1. Counted(a)  BY <2>6 DEF CountInv
    <3>2. CASE ~(l.tx /\ l.addr = a)
      BY <2>4, <2>6, <3>1, <3>2 DEF Counted
    <3>3. CASE l.tx /\ l.addr = a
      BY <2>4, <2>5, <2>6, <3>1, <3>3 DEF Counted
    <3> QED  BY <3>2, <3>3
  <2> QED  BY <2>6, <2>7 DEF CountInv
<1> QED  BY <1>2, <1>3 DEF AddLink

(* A link that is removed is no longer counted: its neighbour, if counted, *)
(* has a Tx link, and so an entry.                                         *)
LEMMA RemoveLinkCounts ==
  ASSUME PoolTypeOK, CountInv, TodoOK(todo), RemoveLink
  PROVE  CountInv'
<1> DEFINE b == Head(todo).block
           l == link[b]
<1>1. b \in Installed
  <2>1. /\ Head(todo).op = "remove_link" /\ Head(todo) = todo[1]
        /\ 1 \in 1 .. Len(todo)
    BY SectionRuns DEF RemoveLink
  <2> QED  BY <2>1 DEF TodoOK, RemovalOK
<1>2. link' = [link EXCEPT ![b] = Free] /\ CountLink(l, -1)
  BY DEF RemoveLink
<1> HIDE DEF b
<1>3. l \in LinkRecord  BY <1>1 DEF PoolTypeOK, Installed
<1>4. link'[b] = Free /\ \A c \in Block : c # b => link'[c] = link[c]
  BY <1>1, <1>2 DEF PoolTypeOK, Installed
<1>5. Installed' = Installed \ {b}
  BY <1>4 DEF Installed
<1>6. \A a : /\ TxLinks(a)' = TxLinks(a) \ {b}
             /\ DedicatedLinks(a)' = DedicatedLinks(a) \ {b}
             /\ b \in TxLinks(a) <=> l.tx /\ l.addr = a
             /\ b \in DedicatedLinks(a) <=> l.tx /\ l.addr = a /\ ~l.shared
  BY <1>1, <1>4, <1>5 DEF TxLinks, DedicatedLinks, Installed
<1>7. \A a : /\ Cardinality(TxLinks(a) \ {b}) =
                  IF l.tx /\ l.addr = a THEN Cardinality(TxLinks(a)) - 1
                                        ELSE Cardinality(TxLinks(a))
             /\ Cardinality(DedicatedLinks(a) \ {b}) =
                  IF l.tx /\ l.addr = a /\ ~l.shared
                    THEN Cardinality(DedicatedLinks(a)) - 1
                    ELSE Cardinality(DedicatedLinks(a))
  BY <1>6, CountedLinks, FS_RemoveElement
<1> HIDE DEF l
<1>8. \A a : Cardinality(TxLinks(a)) \in Nat /\ Cardinality(DedicatedLinks(a)) \in Nat
  BY CountedLinks
<1>9. /\ CountTypeOK'
      /\ missed \subseteq missed'
      /\ \A a \in Address : ~(l.tx /\ l.addr = a) =>
           /\ tx_links_count'[a] = tx_links_count[a]
           /\ dedicated_tx_links_count'[a] = dedicated_tx_links_count[a]
      /\ l.tx /\ l.addr \notin missed' =>
           \/ /\ tx_links_count'[l.addr] = tx_links_count[l.addr] + -1
              /\ dedicated_tx_links_count'[l.addr] =
                   IF l.shared THEN dedicated_tx_links_count[l.addr]
                               ELSE dedicated_tx_links_count[l.addr] + -1
           \/ tx_links_count[l.addr] = 0
  BY <1>2, <1>3, CountLinkCounts
<1>10. ASSUME NEW a \in Address \ missed' PROVE Counted(a)'
  <2>1. Counted(a) /\ a \notin missed  BY <1>9 DEF CountInv
  <2>2. CASE ~(l.tx /\ l.addr = a)
    BY <1>6, <1>7, <1>9, <2>1, <2>2 DEF Counted
  <2>3. CASE l.tx /\ l.addr = a
    <3>1. b \in TxLinks(a)  BY <1>6, <2>3
    <3>2. tx_links_count[a] # 0  BY <2>1, <3>1, AbsentIsZero
    <3> QED  BY <1>6, <1>7, <1>8, <1>9, <2>1, <2>3, <3>2 DEF Counted
  <2> QED  BY <2>2, <2>3
<1> QED  BY <1>9, <1>10 DEF CountInv

-----------------------------------------------------------------------------
(* Every operation keeps the schedule, and the rest of its call, in order. *)
LEMMA EditKeeps ==
  ASSUME EditInv, Edit PROVE EditInv'
<1> USE DEF EditInv
<1>1. CASE Start
  <2>1. link' = link /\ UNCHANGED countVars  BY <1>1 DEF Start, poolVars
  <2> QED  BY <1>1, <2>1, StartKeeps, SameLinksCount
<1>2. CASE AddSlotframe
  <2>1. link' = link /\ UNCHANGED countVars  BY <1>2 DEF AddSlotframe
  <2> QED  BY <1>2, <2>1, AddSlotframeKeeps, SameLinksCount
<1>3. CASE RemoveSlotframe
  <2>1. link' = link /\ UNCHANGED countVars  BY <1>3 DEF RemoveSlotframe
  <2> QED  BY <1>3, <2>1, RemoveSlotframeKeeps, SameLinksCount
<1>4. CASE AddLink
  BY <1>4, AddLinkKeeps, AddLinkCounts
<1>5. CASE RemoveLink
  BY <1>5, RemoveLinkKeeps, RemoveLinkCounts
<1> QED  BY <1>1, <1>2, <1>3, <1>4, <1>5 DEF Edit

(* Looking up a link changes none of it. *)
LEMMA EditInvStable ==
  ASSUME EditInv, UNCHANGED <<poolVars, countVars, todo>> PROVE EditInv'
<1>1. TodoOK(todo')  BY DEF EditInv
<1>2. PoolTypeOK' /\ PoolInv' /\ TodoOK(todo)'
  BY <1>1, SamePool DEF EditInv
<1>3. link' = link /\ UNCHANGED countVars  BY DEF poolVars
<1> QED  BY <1>2, <1>3, SameLinksCount DEF EditInv

(* tsch_schedule_init leaves the schedule in order. *)
LEMMA ScheduleInitOK == ASSUME ScheduleInit PROVE EditInv
<1> USE DEF ScheduleInit
<1>1. Installed = {}  BY DEF Installed
<1>2. Range(<<>>) = {} /\ IsInjective(<<>>)  BY DEF Range, IsInjective
<1>3. PoolTypeOK  BY DEF PoolTypeOK
<1>4. PoolInv  BY <1>1, <1>2 DEF PoolInv, LinksOf
<1>5. TodoOK(todo)  BY NothingIsRemoval, RemovalIsOK
<1>6. \A a : TxLinks(a) = {} /\ DedicatedLinks(a) = {}
  BY <1>1 DEF TxLinks, DedicatedLinks
<1>7. CountInv
  <2>1. CountTypeOK  BY DEF CountTypeOK
  <2>2. Cardinality({}) = 0  BY FS_EmptySet
  <2>3. \A a \in Address : Counted(a)  BY <1>6, <2>2 DEF Counted
  <2> QED  BY <2>1, <2>3 DEF CountInv
<1> QED  BY <1>3, <1>4, <1>5, <1>7 DEF EditInv

(* So the schedule is always in order. *)
LEMMA EditInvariant == ScheduleSpec => []EditInv
<1>1. ScheduleInit => EditInv  BY ScheduleInitOK
<1>2. EditInv /\ [ScheduleNext]_scheduleVars => EditInv'
  BY EditKeeps, EditInvStable DEF ScheduleNext, LookUp, scheduleVars
<1> QED  BY <1>1, <1>2, PTL DEF ScheduleSpec

(* A block of link_memb is allocated exactly while it is at one place of   *)
(* one list: the lists and the pool never drift apart.                     *)
THEOREM LinkKeepsPlace == ScheduleSpec => []LinkHasOnePlace
<1>1. EditInv => LinkHasOnePlace
  BY AllLinksOnce DEF EditInv, LinkHasOnePlace
<1> QED  BY <1>1, EditInvariant, PTL

(* The counters of each neighbour are those of the links installed.        *)
THEOREM CountersMatch == ScheduleSpec => []LinkCountersMatch
<1>1. \A a : DedicatedLinks(a) = {b \in TxLinks(a) : ~link[b].shared}
  BY DEF DedicatedLinks, TxLinks
<1>2. EditInv => LinkCountersMatch
  BY <1>1 DEF EditInv, CountInv, Counted, LinkCountersMatch, TxLinks
<1> QED  BY <1>2, EditInvariant, PTL

(* add_link that replaces finds a free block: replacing never leaves a     *)
(* timeslot without a link.                                                *)
THEOREM ReplacementAlwaysFits == ScheduleSpec => []ReplacementFits
<1>1. ASSUME EditInv, todo # <<>>, Head(todo).op = "add_link",
             Head(todo).replaces
      PROVE  Installed # Block
  <2>1. TodoOK(todo) /\ todo \in Seq(SectionRecord) /\ IsInjective(todo)
    BY <1>1 DEF EditInv, TodoOK
  <2>2. Head(todo) = todo[1] /\ 1 \in 1 .. Len(todo)
    BY <1>1, <2>1, NextSection
  <2>3. \A r : ~Before(r, 1, todo)  BY DEF Before
  <2> QED  BY <1>1, <2>1, <2>2, <2>3 DEF TodoOK, AddLinkOK
<1>2. EditInv => ReplacementFits  BY <1>1 DEF ReplacementFits
<1> QED  BY <1>2, EditInvariant, PTL

(* A link that replaces is then the only one at its place, however many    *)
(* were there before the call.                                             *)
THEOREM ReplacesAll == ScheduleSpec => ReplacesAtTimeslot
<1> DEFINE Alone ==
      LET l == Head(todo).link
      IN \A b, c \in Installed' :
           /\ link'[b].slotframe_handle = l.slotframe_handle
           /\ link'[b].timeslot = l.timeslot
           /\ link'[b].channel_offset = l.channel_offset
           /\ link'[c].slotframe_handle = l.slotframe_handle
           /\ link'[c].timeslot = l.timeslot
           /\ link'[c].channel_offset = l.channel_offset
           => b = c
<1>1. ASSUME EditInv, AddLink, Head(todo).do_remove PROVE Alone
  <2> DEFINE l == Head(todo).link
  <2>1. /\ TodoOK(todo) /\ Head(todo) = todo[1] /\ 1 \in 1 .. Len(todo)
        /\ Head(todo).op = "add_link" /\ \A r : ~Before(r, 1, todo)
    <3>1. TodoOK(todo)  BY <1>1 DEF EditInv
    <3> QED  BY <1>1, <3>1, SectionRuns DEF AddLink
  <2>2. \A b \in Installed : ~At(link[b], l)
    BY <1>1, <2>1 DEF TodoOK, AddLinkOK
  <2>3. CASE link' = link
    <3>1. Installed' = Installed  BY <2>3 DEF Installed
    <3> QED  BY <2>2, <2>3, <3>1 DEF At
  <2>4. CASE \E x \in Block : link' = [link EXCEPT ![x] = l]
    <3>1. PICK x \in Block : link' = [link EXCEPT ![x] = l]  BY <2>4
    <3>2. \A b \in Block : b # x => link'[b] = link[b]
      BY <1>1, <3>1 DEF EditInv, PoolTypeOK
    <3>3. \A b \in Installed' : b # x => b \in Installed /\ link'[b] = link[b]
      BY <3>2 DEF Installed
    <3>4. \A b \in Installed' : b # x => ~At(link'[b], l)  BY <2>2, <3>3
    <3> QED  BY <3>4 DEF At
  <2> QED  BY <1>1, <2>3, <2>4 DEF AddLink
<1>2. EditInv /\ [ScheduleNext]_scheduleVars
        => [AddLink /\ Head(todo).do_remove => Alone]_scheduleVars
  BY <1>1
<1> QED  BY <1>2, EditInvariant, PTL DEF ScheduleSpec, ReplacesAtTimeslot
=============================================================================
