--------------------------- MODULE RegistryProofs ---------------------------
(***************************************************************************)
(* Proofs about WSRegistry.tla, for any callers, keys and channels and any *)
(* number of subscriptions and messages: the inductive invariant           *)
(* RegistryInv and, with it, RegisteredListedOnce and QuietAgreement.      *)
(***************************************************************************)
EXTENDS WSRegistry, SequenceTheorems, TLAPS

Entries == Subs \cup {NoSub}

-----------------------------------------------------------------------------
(* Slices.                                                                 *)

\* A slice in bounds has its elements in its array.
LEMMA ElemType ==
  ASSUME RegTypeOK, NEW slice \in Slices, InBounds(slice), NEW i \in 1 .. slice.len
  PROVE  /\ slice.arr \in DOMAIN arrays
         /\ i \in DOMAIN arrays[slice.arr]
         /\ arrays[slice.arr] \in Seq(Entries)
         /\ Elem(slice, i) \in Entries
<1>1. slice.arr \in DOMAIN arrays /\ slice.len \in 0 .. Len(arrays[slice.arr])
  BY DEF InBounds, NilSlice, Slices
<1>2. arrays[slice.arr] \in Seq(Entries)
  BY <1>1 DEF RegTypeOK, Entries
<1> QED
  BY <1>1, <1>2 DEF Elem, Slices

\* append: where the slice and its array are afterwards, what is kept and
\* what is written.
AppendEffect(ch, s, a) ==
  /\ channelHandlers' = [channelHandlers EXCEPT ![ch] = [arr |-> a, len |-> channelHandlers[ch].len + 1]]
  /\ arrays' \in Seq(Seq(Entries))
  /\ a \in DOMAIN arrays' /\ DOMAIN arrays \subseteq DOMAIN arrays'
  /\ a = channelHandlers[ch].arr \/ a \notin DOMAIN arrays
  /\ channelHandlers[ch].len + 1 <= Len(arrays'[a])
  /\ \A i \in 1 .. channelHandlers[ch].len : arrays'[a][i] = arrays[channelHandlers[ch].arr][i]
  /\ arrays'[a][channelHandlers[ch].len + 1] = s
  /\ \A b \in DOMAIN arrays : Len(arrays'[b]) = Len(arrays[b])
  /\ \A b \in DOMAIN arrays : \A i \in DOMAIN arrays[b] :
       b # a \/ i # channelHandlers[ch].len + 1 => arrays'[b][i] = arrays[b][i]

LEMMA AppendWrites ==
  ASSUME RegTypeOK, NEW ch \in Channels, NEW s \in Subs, AppendTo(ch, s)
  PROVE  \E a \in Nat \ {0} : AppendEffect(ch, s, a)
<1> DEFINE slice == channelHandlers[ch]
           n == slice.len
           room == slice.arr # 0 /\ n < Len(arrays[slice.arr])
<1>0. slice \in Slices /\ InBounds(slice) /\ n \in Nat /\ arrays \in Seq(Seq(Entries)) /\ s \in Entries
  BY DEF RegTypeOK, Slices, Entries
<1>1. CASE room
  <2>1. /\ arrays' = [arrays EXCEPT ![slice.arr] = [@ EXCEPT ![n + 1] = s]]
        /\ channelHandlers' = [channelHandlers EXCEPT ![ch] = [arr |-> slice.arr, len |-> n + 1]]
    BY <1>1 DEF AppendTo
  <2>2. slice.arr \in DOMAIN arrays /\ slice.arr \in Nat \ {0}
    BY <1>0, <1>1 DEF InBounds, NilSlice, Slices
  <2>3. arrays[slice.arr] \in Seq(Entries) /\ n + 1 \in DOMAIN arrays[slice.arr]
    BY <1>0, <1>1, <2>2
  <2> DEFINE new == [arrays[slice.arr] EXCEPT ![n + 1] = s]
  <2>4. new \in Seq(Entries) /\ Len(new) = Len(arrays[slice.arr]) /\ DOMAIN new = DOMAIN arrays[slice.arr]
    BY <1>0, <2>3
  <2>5. new[n + 1] = s /\ \A i \in DOMAIN arrays[slice.arr] \ {n + 1} : new[i] = arrays[slice.arr][i]
    BY <2>3
  <2> HIDE DEF new
  <2>6. arrays' = [arrays EXCEPT ![slice.arr] = new]
    BY <2>1 DEF new
  <2>7. arrays' \in Seq(Seq(Entries)) /\ DOMAIN arrays' = DOMAIN arrays /\ arrays'[slice.arr] = new
        /\ \A b \in DOMAIN arrays \ {slice.arr} : arrays'[b] = arrays[b]
    BY <1>0, <2>2, <2>4, <2>6
  <2>8. \A i \in 1 .. n : i \in DOMAIN arrays[slice.arr] \ {n + 1}
    BY <1>0, <2>3
  <2>9. n + 1 <= Len(new)
    BY <1>0, <1>1, <2>4
  <2> QED
    BY <2>1, <2>2, <2>4, <2>5, <2>7, <2>8, <2>9 DEF AppendEffect
<1>2. CASE ~room
  <2> DEFINE a == Len(arrays) + 1
             size == IF n = 0 THEN 1 ELSE 2 * n
             grown == [i \in 1 .. size |-> IF i <= n THEN Elem(slice, i) ELSE NoSub]
             new == [grown EXCEPT ![n + 1] = s]
  <2>1. /\ arrays' = [Append(arrays, grown) EXCEPT ![a] = [@ EXCEPT ![n + 1] = s]]
        /\ channelHandlers' = [channelHandlers EXCEPT ![ch] = [arr |-> a, len |-> n + 1]]
    BY <1>2 DEF AppendTo, Grown
  <2>2. size \in Nat /\ n + 1 \in 1 .. size
    BY <1>0
  <2>3. \A i \in 1 .. size : (IF i <= n THEN Elem(slice, i) ELSE NoSub) \in Entries
    BY <1>0, ElemType DEF Entries
  <2>4. grown \in [1 .. size -> Entries]
    BY <2>3
  <2>5. new \in [1 .. size -> Entries]
    BY <1>0, <2>2, <2>4
  <2>6. new \in Seq(Entries) /\ Len(new) = size /\ grown \in Seq(Entries)
    BY <2>2, <2>4, <2>5, SeqDef, LenProperties
  <2>7. new[n + 1] = s /\ \A i \in 1 .. n : new[i] = Elem(slice, i)
    BY <1>0, <2>2
  <2> HIDE DEF grown, new, size
  <2>8. /\ Append(arrays, grown) \in Seq(Seq(Entries)) /\ Len(Append(arrays, grown)) = a
        /\ Append(arrays, grown)[a] = grown
        /\ \A b \in DOMAIN arrays : Append(arrays, grown)[b] = arrays[b]
    BY <1>0, <2>6
  <2>9. arrays' = [Append(arrays, grown) EXCEPT ![a] = new]
    BY <2>1, <2>8 DEF new
  <2>10. a \in Nat \ {0} /\ a \notin DOMAIN arrays
    BY <1>0
  <2>11. /\ arrays' \in Seq(Seq(Entries)) /\ a \in DOMAIN arrays' /\ DOMAIN arrays \subseteq DOMAIN arrays'
         /\ arrays'[a] = new /\ \A b \in DOMAIN arrays : arrays'[b] = arrays[b]
    <3> DEFINE base == Append(arrays, grown)
    <3>1. base \in Seq(Seq(Entries)) /\ Len(base) = a /\ a \in 1 .. Len(base)
      BY <1>0, <2>8
    <3>2. new \in Seq(Entries) /\ arrays' = [base EXCEPT ![a] = new]
      BY <2>6, <2>9
    <3>3. DOMAIN arrays = 1 .. Len(arrays) /\ DOMAIN base = 1 .. a
      BY <1>0, <3>1
    <3>4. \A b \in DOMAIN arrays : base[b] = arrays[b] /\ b # a /\ b \in 1 .. Len(base)
      BY <1>0, <2>8, <3>1, <3>3
    <3> HIDE DEF base
    <3>5. arrays' \in Seq(Seq(Entries)) /\ DOMAIN arrays' = DOMAIN base
          /\ \A j \in 1 .. Len(base) : arrays'[j] = IF j = a THEN new ELSE base[j]
      BY <3>1, <3>2
    <3> QED
      BY <1>0, <3>1, <3>3, <3>4, <3>5
  <2>12. n + 1 <= Len(new)
    BY <2>2, <2>6
  <2> QED
    BY <2>1, <2>7, <2>10, <2>11, <2>12 DEF AppendEffect, Elem
<1> QED
  BY <1>1, <1>2

\* Removal from a list without repetitions: the array is shifted in place from
\* the removed element on, and the list has lost this element and no other.
RemoveEffect(ch, s) ==
  /\ channelHandlers' \in [Channels -> Slices]
  /\ \A other \in Channels \ {ch} : channelHandlers'[other] = channelHandlers[other]
  /\ channelHandlers'[ch].arr = channelHandlers[ch].arr
  /\ InBounds(channelHandlers[ch])'
  /\ channelHandlers'[ch].len <= channelHandlers[ch].len
  /\ arrays' \in Seq(Seq(Entries)) /\ DOMAIN arrays' = DOMAIN arrays
  /\ \A b \in DOMAIN arrays : Len(arrays'[b]) = Len(arrays[b])
  /\ \A b \in DOMAIN arrays : \A i \in DOMAIN arrays[b] :
       \/ arrays'[b][i] = arrays[b][i]
       \/ /\ b = channelHandlers[ch].arr /\ i + 1 \in 1 .. channelHandlers[ch].len
          /\ arrays'[b][i] = arrays[b][i + 1]
  /\ Listed(ch)' = Listed(ch) \ {s}
  /\ \A i, j \in 1 .. channelHandlers'[ch].len :
       arrays'[channelHandlers[ch].arr][i] = arrays'[channelHandlers[ch].arr][j] => i = j

LEMMA RemoveShifts ==
  ASSUME RegTypeOK, ListedInPlace, NEW ch \in Channels, NEW s \in Subs, RemoveFrom(ch, s)
  PROVE  RemoveEffect(ch, s)
<1> DEFINE slice == channelHandlers[ch]
           n == slice.len
           place == {i \in 1 .. n : Elem(slice, i) = s}
<1>0. /\ slice \in Slices /\ InBounds(slice) /\ n \in Nat /\ arrays \in Seq(Seq(Entries))
      /\ channelHandlers \in [Channels -> Slices]
  BY DEF RegTypeOK, Slices, Entries
<1>a. \A i, j \in 1 .. n : Elem(slice, i) = Elem(slice, j) => i = j
  BY DEF ListedInPlace
<1>1. CASE place = {}
  <2>1. UNCHANGED <<arrays, channelHandlers>>
    BY <1>1 DEF RemoveFrom
  <2>2. s \notin Listed(ch)
    BY <1>1 DEF Listed
  <2>3. Listed(ch)' = Listed(ch) /\ InBounds(slice)'
    BY <1>0, <2>1 DEF Listed, Elem, InBounds
  <2> QED
    BY <1>0, <1>a, <2>1, <2>2, <2>3 DEF RemoveEffect, Elem
<1>2. ASSUME NEW f \in 1 .. n, Elem(slice, f) = s
      PROVE  RemoveEffect(ch, s)
  <2> DEFINE old == arrays[slice.arr]
             new == [i \in DOMAIN old |-> IF f <= i /\ i < n THEN old[i + 1] ELSE old[i]]
  <2>1. place = {f}
    BY <1>a, <1>2
  <2>2. (CHOOSE i \in place : \A j \in place : i <= j) = f
    BY <2>1
  <2>3. /\ arrays' = [arrays EXCEPT ![slice.arr] = new]
        /\ channelHandlers' = [channelHandlers EXCEPT ![ch].len = n - 1]
    BY <2>1, <2>2 DEF RemoveFrom
  <2>4. /\ slice.arr \in DOMAIN arrays /\ n \in 1 .. Len(old) /\ old \in Seq(Entries)
        /\ Len(old) \in Nat /\ f \in 1 .. n
    BY <1>0, <1>2 DEF InBounds, NilSlice
  <2>5. old \in [1 .. Len(old) -> Entries] /\ DOMAIN old = 1 .. Len(old)
    BY <2>4
  <2>6. new \in [1 .. Len(old) -> Entries]
    BY <2>4, <2>5
  <2>7. new \in Seq(Entries) /\ Len(new) = Len(old)
    <3> DEFINE m == Len(old)
    <3>1. m \in Nat /\ new \in [1 .. m -> Entries]
      BY <2>4, <2>6
    <3> HIDE DEF m, new
    <3>2. new \in Seq(Entries)
      BY <3>1, SeqDef
    <3>3. Len(new) = m
      BY <3>1, <3>2, LenProperties
    <3> QED
      BY <3>2, <3>3 DEF m
  <2>8. \A i \in 1 .. Len(old) : new[i] = IF f <= i /\ i < n THEN old[i + 1] ELSE old[i]
    BY <2>5
  <2> HIDE DEF new
  <2>s. ASSUME NEW i \in 1 .. n - 1
        PROVE  /\ f <= i => new[i] = old[i + 1] /\ i + 1 \in 1 .. n /\ i + 1 # f
               /\ ~(f <= i) => new[i] = old[i] /\ i \in 1 .. n /\ i # f
    <3>1. i \in 1 .. Len(old) /\ i < n /\ f \in Nat /\ i \in Nat
      BY <1>0, <2>4
    <3> QED
      BY <1>0, <2>8, <3>1
  <2>9. /\ arrays' \in Seq(Seq(Entries)) /\ DOMAIN arrays' = DOMAIN arrays
        /\ arrays'[slice.arr] = new
        /\ \A b \in DOMAIN arrays \ {slice.arr} : arrays'[b] = arrays[b]
    BY <1>0, <2>3, <2>4, <2>7
  <2>10. /\ channelHandlers' \in [Channels -> Slices]
         /\ \A other \in Channels \ {ch} : channelHandlers'[other] = channelHandlers[other]
         /\ channelHandlers'[ch].arr = slice.arr /\ channelHandlers'[ch].len = n - 1
    <3> DEFINE shorter == [slice EXCEPT !.len = n - 1]
    <3>1. n - 1 \in Nat
      BY <1>0, <2>4
    <3>2. shorter \in Slices /\ shorter.arr = slice.arr /\ shorter.len = n - 1
      BY <1>0, <3>1 DEF Slices
    <3>3. channelHandlers' = [channelHandlers EXCEPT ![ch] = shorter]
      BY <2>3
    <3> HIDE DEF shorter
    <3>4. channelHandlers'[ch] = shorter /\ channelHandlers' \in [Channels -> Slices]
          /\ \A other \in Channels \ {ch} : channelHandlers'[other] = channelHandlers[other]
      BY <1>0, <3>2, <3>3
    <3> QED
      BY <3>2, <3>4
  <2>11. InBounds(channelHandlers[ch])'
    <3>1. Len(arrays'[slice.arr]) = Len(old) /\ n - 1 \in 0 .. Len(old)
      BY <2>4, <2>7, <2>9
    <3> QED
      BY <2>4, <2>9, <2>10, <3>1 DEF InBounds
  <2>12. \A i \in 1 .. n : old[i] = Elem(slice, i)
    BY DEF Elem
  <2>13. \A i, j \in 1 .. n - 1 : new[i] = new[j] => i = j
    <3> SUFFICES ASSUME NEW i \in 1 .. n - 1, NEW j \in 1 .. n - 1, new[i] = new[j]
                 PROVE  i = j
      OBVIOUS
    <3> DEFINE At(x) == IF f <= x THEN x + 1 ELSE x
    <3>1. At(i) \in 1 .. n /\ At(j) \in 1 .. n
      BY <1>0
    <3>2. new[i] = old[At(i)] /\ new[j] = old[At(j)]
      BY <2>s
    <3> DEFINE k == At(i)
               l == At(j)
    <3>3. k \in 1 .. n /\ l \in 1 .. n /\ old[k] = old[l]
      BY <3>1, <3>2
    <3> HIDE DEF At, k, l
    <3>4. k = l
      BY <1>a, <2>12, <3>3
    <3> QED
      BY <2>4, <3>4 DEF At, k, l
  <2>14. Listed(ch)' = Listed(ch) \ {s}
    <3>1. Listed(ch)' = {new[i] : i \in 1 .. n - 1}
      BY <2>9, <2>10 DEF Listed, Elem
    <3>2. Listed(ch) = {old[i] : i \in 1 .. n}
      BY <2>12 DEF Listed
    <3>3. ASSUME NEW i \in 1 .. n - 1
          PROVE  new[i] \in {old[j] : j \in 1 .. n} \ {s}
      <4> DEFINE j == IF f <= i THEN i + 1 ELSE i
      <4>1. j \in 1 .. n /\ j # f /\ new[i] = old[j]
        BY <2>s
      <4> HIDE DEF j
      <4>2. old[j] # s
        BY <1>a, <1>2, <2>12, <4>1
      <4> QED
        BY <4>1, <4>2
    <3>4. ASSUME NEW j \in 1 .. n, old[j] # s
          PROVE  old[j] \in {new[i] : i \in 1 .. n - 1}
      <4> DEFINE i == IF f < j THEN j - 1 ELSE j
      <4>1. j # f
        BY <1>2, <2>12, <3>4
      <4>2. i \in 1 .. n - 1 /\ (f < j => i + 1 = j /\ f <= i) /\ (~(f < j) => i = j /\ ~(f <= i))
        BY <1>0, <2>4, <4>1
      <4>3. new[i] = old[j]
        BY <2>s, <4>2
      <4> QED
        BY <4>2, <4>3
    <3> QED
      BY <3>1, <3>2, <3>3, <3>4
  <2>15. \A i \in DOMAIN old : new[i] = old[i] \/ (i + 1 \in 1 .. n /\ new[i] = old[i + 1])
    BY <1>0, <2>5, <2>8
  <2>16. \A b \in DOMAIN arrays : Len(arrays'[b]) = Len(arrays[b])
    BY <2>7, <2>9
  <2>17. \A b \in DOMAIN arrays : \A i \in DOMAIN arrays[b] :
           \/ arrays'[b][i] = arrays[b][i]
           \/ b = slice.arr /\ i + 1 \in 1 .. n /\ arrays'[b][i] = arrays[b][i + 1]
    BY <2>9, <2>15
  <2>18. \A i, j \in 1 .. channelHandlers'[ch].len :
           arrays'[slice.arr][i] = arrays'[slice.arr][j] => i = j
    BY <2>9, <2>10, <2>13
  <2>19. channelHandlers'[ch].len <= n
    BY <1>0, <2>10
  <2> HIDE DEF slice, n, old
  <2> QED
    BY <2>9, <2>10, <2>11, <2>14, <2>16, <2>17, <2>18, <2>19 DEF RemoveEffect, slice, n
<1> QED
  BY <1>1, <1>2

-----------------------------------------------------------------------------
(* What a step does to the registry.                                       *)

\* What every step keeps of the registry, whoever still holds a slice of it:
\* subscriptions stay what they are, a channel changes its array only for a
\* new one, and what is written into an array is of the channel it belongs to.
Written(slice, i) ==
  \E ch \in Channels : /\ channelHandlers[ch].arr = slice.arr
                       /\ Elem(slice, i)' \in Live' /\ ChannelOf[created'[Elem(slice, i)']] = ch

Moves ==
  /\ Live \subseteq Live' /\ \A s \in Live : created'[s] = created[s]
  /\ \A ch \in Channels : \/ channelHandlers'[ch].arr \in {0, channelHandlers[ch].arr}
                          \/ channelHandlers'[ch].arr \notin DOMAIN arrays
  /\ \A slice \in Slices : InBounds(slice) =>
       /\ InBounds(slice)'
       /\ \A i \in 1 .. slice.len : Elem(slice, i)' = Elem(slice, i) \/ Written(slice, i)

\* The invariants that are about the registry alone.
ListsInPlace == RegTypeOK /\ ArraysInPlace /\ ListedInPlace

LEMMA HandlersType ==
  ASSUME RegTypeOK
  PROVE  /\ \A ch \in Channels : /\ channelHandlers[ch] \in Slices /\ InBounds(channelHandlers[ch])
                                 /\ channelHandlers[ch].arr \in Nat /\ channelHandlers[ch].len \in Nat
         /\ \A k \in Keys : ChannelOf[k] \in Channels
         /\ Len(created) \in Nat /\ created \in Seq(Keys)
         /\ \A s \in Live : created[s] \in Keys /\ ChanOf(s) \in Channels
         /\ arrays \in Seq(Seq(Entries)) /\ DOMAIN arrays = 1 .. Len(arrays)
BY RegistryAssumption DEF RegTypeOK, Slices, Entries, Live, ChanOf, KeyOf

\* What the slices of the channels list.
LEMMA ListedElems ==
  ASSUME RegTypeOK, NEW ch \in Channels, NEW i \in 1 .. channelHandlers[ch].len
  PROVE  /\ Elem(channelHandlers[ch], i) \in Listed(ch)
         /\ channelHandlers[ch].arr \in DOMAIN arrays /\ channelHandlers[ch].arr # 0
         /\ i \in DOMAIN arrays[channelHandlers[ch].arr]
<1>1. channelHandlers[ch] \in Slices /\ InBounds(channelHandlers[ch]) /\ 0 \notin DOMAIN arrays
  BY HandlersType
<1> QED
  BY <1>1, ElemType DEF Listed

\* A new handler: s is listed last under its channel and nothing else changes.
LEMMA InsertLists ==
  ASSUME ListsInPlace, NEW c \in Callers, CallTypeOK, Insert(c),
         NEW k, k = key[c], NEW ch, ch = ChannelOf[k], NEW s, s = Len(created) + 1
  PROVE  /\ s \in Subs /\ s \notin Live /\ Live' = Live \cup {s} /\ k \in Keys /\ created'[s] = k
         /\ Listed(ch)' = Listed(ch) \cup {s}
         /\ \A other \in Channels \ {ch} : Listed(other)' = Listed(other)
         /\ Moves /\ ListsInPlace'
<1> DEFINE n == channelHandlers[ch].len
<1>1. k \in Keys /\ ch \in Channels /\ s \in Subs /\ n \in Nat /\ RegTypeOK
  BY HandlersType DEF Insert, CallTypeOK, ListsInPlace, Subs
<1>2. s \notin Live /\ Live' = Live \cup {s} /\ created'[s] = k /\ created' \in Seq(Keys) /\ Len(created') <= MaxSubs
      /\ \A x \in Live : created'[x] = created[x]
  BY <1>1, HandlersType DEF Insert, Live
<1>3. AppendTo(ch, s)
  BY DEF Insert
<1>4. PICK a \in Nat \ {0} : AppendEffect(ch, s, a)
  BY <1>1, <1>3, AppendWrites
<1>5. /\ \A other \in Channels \ {ch} : channelHandlers'[other] = channelHandlers[other]
      /\ channelHandlers'[ch] = [arr |-> a, len |-> n + 1]
      /\ channelHandlers' \in [Channels -> Slices]
  <2>1. [arr |-> a, len |-> n + 1] \in Slices
    BY <1>1 DEF Slices
  <2> QED
    BY <1>1, <1>4, <2>1 DEF AppendEffect, RegTypeOK
<1>6. ASSUME NEW slice \in Slices, InBounds(slice)
      PROVE  InBounds(slice)'
  BY <1>4, <1>6, HandlersType, <1>1 DEF InBounds, AppendEffect
<1>7. ASSUME NEW slice \in Slices, InBounds(slice), NEW i \in 1 .. slice.len
      PROVE  \/ Elem(slice, i)' = Elem(slice, i)
             \/ slice.arr = channelHandlers[ch].arr /\ i = n + 1 /\ Elem(slice, i)' = s
  <2>1. slice.arr \in DOMAIN arrays /\ i \in DOMAIN arrays[slice.arr]
    BY <1>1, <1>7, ElemType
  <2> QED
    BY <1>4, <2>1 DEF AppendEffect, Elem
<1>8. ASSUME NEW i \in 1 .. n + 1
      PROVE  Elem(channelHandlers[ch], i)' = IF i = n + 1 THEN s ELSE Elem(channelHandlers[ch], i)
  <2>1. Elem(channelHandlers[ch], i)' = arrays'[a][i]
    BY <1>5 DEF Elem
  <2>2. i = n + 1 \/ i \in 1 .. n
    BY <1>1
  <2> QED
    BY <1>1, <1>4, <2>1, <2>2 DEF AppendEffect, Elem
<1>9. ASSUME NEW other \in Channels \ {ch}, NEW i \in 1 .. channelHandlers[other].len
      PROVE  Elem(channelHandlers[other], i)' = Elem(channelHandlers[other], i)
  <2>1. channelHandlers[other].arr # channelHandlers[ch].arr /\ channelHandlers[other] \in Slices
        /\ InBounds(channelHandlers[other])
    BY <1>1, HandlersType, ListedElems DEF ListsInPlace, ArraysInPlace
  <2>2. channelHandlers'[other] = channelHandlers[other]
    BY <1>5
  <2> DEFINE slice == channelHandlers[other]
  <2>3. \E x \in Slices : x = slice /\ InBounds(x)
    BY <2>1
  <2>4. PICK x \in Slices : x = slice /\ InBounds(x)
    BY <2>3
  <2>5. Elem(x, i)' = Elem(x, i)
    BY <1>7, <2>1, <2>4
  <2> QED
    BY <2>2, <2>4, <2>5 DEF Elem
<1>10. Listed(ch)' = Listed(ch) \cup {s}
  <2> SUFFICES ASSUME NEW x PROVE x \in Listed(ch)' <=> x \in Listed(ch) \/ x = s
    OBVIOUS
  <2>1. x \in Listed(ch)' <=> \E i \in 1 .. n + 1 : x = Elem(channelHandlers[ch], i)'
    BY <1>5 DEF Listed
  <2>2. x \in Listed(ch) <=> \E i \in 1 .. n : x = Elem(channelHandlers[ch], i)
    BY DEF Listed
  <2>3. \A i \in 1 .. n : i \in 1 .. n + 1 /\ i # n + 1
    BY <1>1
  <2>4. n + 1 \in 1 .. n + 1 /\ \A i \in 1 .. n + 1 : i = n + 1 \/ i \in 1 .. n
    BY <1>1
  <2>5. x \in Listed(ch)' => x \in Listed(ch) \/ x = s
    BY <1>8, <2>1, <2>2, <2>4
  <2>6. x \in Listed(ch) \/ x = s => x \in Listed(ch)'
    BY <1>8, <2>1, <2>2, <2>3, <2>4
  <2> QED
    BY <2>5, <2>6
<1>11. ASSUME NEW other \in Channels \ {ch} PROVE Listed(other)' = Listed(other)
  BY <1>5, <1>9 DEF Listed
<1>12. Moves
  <2>1. ASSUME NEW other \in Channels
        PROVE  \/ channelHandlers'[other].arr \in {0, channelHandlers[other].arr}
               \/ channelHandlers'[other].arr \notin DOMAIN arrays
    BY <1>4, <1>5 DEF AppendEffect
  <2>2. ASSUME NEW slice \in Slices, InBounds(slice), NEW i \in 1 .. slice.len
        PROVE  Elem(slice, i)' = Elem(slice, i) \/ Written(slice, i)
    BY <1>1, <1>2, <1>7, <2>2 DEF Written
  <2> QED
    BY <1>2, <1>6, <2>1, <2>2 DEF Moves
<1>13. RegTypeOK'
  <2>1. subscriptions' \in [Keys -> Subs \cup {NoSub}] /\ closed' \subseteq Live'
    BY <1>1, <1>2 DEF Insert, RegTypeOK
  <2>2. \A other \in Channels : InBounds(channelHandlers[other])'
    <3>1. InBounds(channelHandlers[ch])'
      BY <1>1, <1>4, <1>5 DEF InBounds, AppendEffect
    <3>2. ASSUME NEW other \in Channels \ {ch} PROVE InBounds(channelHandlers[other])'
      <4>1. PICK x \in Slices : x = channelHandlers[other] /\ InBounds(x)
        BY <1>1, HandlersType
      <4>2. InBounds(x)'
        BY <1>6, <4>1
      <4> QED
        BY <1>5, <4>1, <4>2 DEF InBounds
    <3> QED
      BY <3>1, <3>2
  <2> QED
    BY <1>2, <1>4, <1>5, <2>1, <2>2 DEF RegTypeOK, AppendEffect, Entries
<1>14. ArraysInPlace'
  <2>1. \A other \in Channels : channelHandlers[other].arr \in DOMAIN arrays \/ channelHandlers[other].arr = 0
    BY <1>1, HandlersType DEF InBounds, NilSlice
  <2>2. channelHandlers'[ch].arr = a /\ a # 0
    BY <1>5
  <2>3. \A other \in Channels \ {ch} :
          channelHandlers'[other].arr = channelHandlers[other].arr /\ channelHandlers[other].arr # a
    BY <1>1, <1>4, <1>5, <2>1, <2>2 DEF ArraysInPlace, ListsInPlace, AppendEffect
  <2> QED
    BY <2>2, <2>3 DEF ArraysInPlace, ListsInPlace
<1>15. ListedInPlace'
  <2>1. ASSUME NEW i \in 1 .. n + 1
        PROVE  Elem(channelHandlers[ch], i)' \in Live' /\ ChanOf(Elem(channelHandlers[ch], i))' = ch
    BY <1>1, <1>2, <1>8 DEF ListsInPlace, ListedInPlace, ChanOf, KeyOf
  <2>2. ASSUME NEW i \in 1 .. n + 1, NEW j \in 1 .. n + 1,
               Elem(channelHandlers[ch], i)' = Elem(channelHandlers[ch], j)'
        PROVE  i = j
    <3>1. \A x \in 1 .. n : Elem(channelHandlers[ch], x) \in Live
      BY <1>1 DEF ListsInPlace, ListedInPlace
    <3>2. \A x, y \in 1 .. n : Elem(channelHandlers[ch], x) = Elem(channelHandlers[ch], y) => x = y
      BY <1>1 DEF ListsInPlace, ListedInPlace
    <3>3. (i = n + 1 \/ i \in 1 .. n) /\ (j = n + 1 \/ j \in 1 .. n) /\ n + 1 \notin 1 .. n
      BY <1>1
    <3>4. i = n + 1 <=> j = n + 1
      BY <1>2, <1>8, <2>2, <3>1, <3>3
    <3> QED
      BY <1>8, <2>2, <3>2, <3>3, <3>4
  <2>3. ASSUME NEW other \in Channels \ {ch}, NEW i \in 1 .. channelHandlers'[other].len
        PROVE  /\ Elem(channelHandlers[other], i)' \in Live' /\ ChanOf(Elem(channelHandlers[other], i))' = other
               /\ \A j \in 1 .. channelHandlers'[other].len :
                    Elem(channelHandlers[other], i)' = Elem(channelHandlers[other], j)' => i = j
    BY <1>1, <1>2, <1>5, <1>9 DEF ListsInPlace, ListedInPlace, ChanOf, KeyOf
  <2> QED
    BY <1>5, <2>1, <2>2, <2>3 DEF ListedInPlace
<1> QED
  BY <1>1, <1>2, <1>10, <1>11, <1>12, <1>13, <1>14, <1>15 DEF ListsInPlace

\* A removal: the handler of the key is listed no more, nothing else changes,
\* and its channel was open.
LEMMA RemoveLists ==
  ASSUME ListsInPlace, RegisteredInPlace, NEW k \in Keys, RemoveSubscription(k),
         NEW s, s = subscriptions[k], s # NoSub, NEW ch, ch = ChannelOf[k]
  PROVE  /\ s \in Live /\ KeyOf(s) = k /\ created' = created /\ ~crashed'
         /\ closed' = closed \cup {s} /\ subscriptions' = [subscriptions EXCEPT ![k] = NoSub]
         /\ Listed(ch)' = Listed(ch) \ {s}
         /\ \A other \in Channels \ {ch} : Listed(other)' = Listed(other)
         /\ Moves /\ ListsInPlace'
<1> DEFINE n == channelHandlers[ch].len
<1>1. /\ RegTypeOK /\ ArraysInPlace /\ ListedInPlace /\ ch \in Channels /\ n \in Nat
      /\ s \in Live /\ s \in Subs /\ KeyOf(s) = k /\ s \notin closed
  BY HandlersType DEF ListsInPlace, RegisteredInPlace, RegTypeOK
<1>2. /\ created' = created /\ ~crashed' /\ closed' = closed \cup {s}
      /\ subscriptions' = [subscriptions EXCEPT ![k] = NoSub] /\ RemoveFrom(ch, s)
  BY <1>1 DEF RemoveSubscription, ChanOf
<1>3. RemoveEffect(ch, s)
  BY <1>1, <1>2, RemoveShifts
<1>4. \A x \in Live : x \in Live' /\ created'[x] = created[x] /\ (ChanOf(x))' = ChanOf(x)
  BY <1>2 DEF Live, ChanOf, KeyOf
<1>5. ASSUME NEW slice \in Slices, InBounds(slice)
      PROVE  InBounds(slice)'
  BY <1>3, <1>5 DEF InBounds, RemoveEffect
<1>6. ASSUME NEW slice \in Slices, InBounds(slice), NEW i \in 1 .. slice.len
      PROVE  \/ Elem(slice, i)' = Elem(slice, i)
             \/ slice.arr = channelHandlers[ch].arr /\ Elem(slice, i)' \in Listed(ch)
  <2>1. slice.arr \in DOMAIN arrays /\ i \in DOMAIN arrays[slice.arr]
    BY <1>1, <1>6, ElemType
  <2>2. CASE arrays'[slice.arr][i] = arrays[slice.arr][i]
    BY <2>2 DEF Elem
  <2>3. CASE /\ slice.arr = channelHandlers[ch].arr /\ i + 1 \in 1 .. n
             /\ arrays'[slice.arr][i] = arrays[slice.arr][i + 1]
    <3>1. Elem(slice, i)' = Elem(channelHandlers[ch], i + 1)
      BY <2>3 DEF Elem
    <3> QED
      BY <1>1, <2>3, <3>1, ListedElems
  <2> QED
    BY <1>3, <2>1, <2>2, <2>3 DEF RemoveEffect
<1>7. ASSUME NEW other \in Channels \ {ch}, NEW i \in 1 .. channelHandlers[other].len
      PROVE  Elem(channelHandlers[other], i)' = Elem(channelHandlers[other], i)
  <2>1. channelHandlers[other].arr # channelHandlers[ch].arr /\ channelHandlers[other] \in Slices
        /\ InBounds(channelHandlers[other])
    BY <1>1, HandlersType, ListedElems DEF ArraysInPlace
  <2>2. channelHandlers'[other] = channelHandlers[other]
    BY <1>3 DEF RemoveEffect
  <2>3. PICK x \in Slices : x = channelHandlers[other] /\ InBounds(x)
    BY <2>1
  <2>4. Elem(x, i)' = Elem(x, i)
    BY <1>6, <2>1, <2>3
  <2> QED
    BY <2>2, <2>3, <2>4 DEF Elem
<1>8. Listed(ch)' = Listed(ch) \ {s} /\ \A other \in Channels \ {ch} : Listed(other)' = Listed(other)
  <2>1. ASSUME NEW other \in Channels \ {ch} PROVE Listed(other)' = Listed(other)
    <3>1. channelHandlers'[other] = channelHandlers[other]
      BY <1>3 DEF RemoveEffect
    <3> QED
      BY <1>7, <3>1 DEF Listed
  <2> QED
    BY <1>3, <2>1 DEF RemoveEffect
<1>9. \A x \in Listed(ch) : x \in Live /\ ChanOf(x) = ch
  BY <1>1 DEF ListedInPlace, Listed
<1>10. Moves
  <2>1. \A other \in Channels : channelHandlers'[other].arr = channelHandlers[other].arr
    BY <1>1, <1>3 DEF RemoveEffect
  <2>2. ASSUME NEW slice \in Slices, InBounds(slice), NEW i \in 1 .. slice.len
        PROVE  Elem(slice, i)' = Elem(slice, i) \/ Written(slice, i)
    BY <1>1, <1>4, <1>6, <1>9, <2>2 DEF Written, ChanOf, KeyOf
  <2> QED
    BY <1>4, <1>5, <2>1, <2>2 DEF Moves
<1>11. RegTypeOK'
  <2>1. subscriptions' \in [Keys -> Subs \cup {NoSub}] /\ closed' \subseteq Live' /\ created' \in Seq(Keys)
        /\ Len(created') <= MaxSubs
    BY <1>1, <1>2, <1>4 DEF RegTypeOK
  <2>2. \A other \in Channels \ {ch} : InBounds(channelHandlers[other])'
    <3> SUFFICES ASSUME NEW other \in Channels \ {ch} PROVE InBounds(channelHandlers[other])'
      OBVIOUS
    <3>1. PICK x \in Slices : x = channelHandlers[other] /\ InBounds(x)
      BY <1>1, HandlersType
    <3>2. InBounds(x)' /\ channelHandlers'[other] = x
      BY <1>3, <1>5, <3>1 DEF RemoveEffect
    <3> QED
      BY <3>2 DEF InBounds
  <2>3. InBounds(channelHandlers[ch])'
    BY <1>3 DEF RemoveEffect
  <2> QED
    BY <1>3, <2>1, <2>2, <2>3 DEF RegTypeOK, RemoveEffect, Entries
<1>12. ArraysInPlace'
  BY <1>1, <1>3 DEF ArraysInPlace, RemoveEffect
<1>13. ListedInPlace'
  <2>1. ASSUME NEW i \in 1 .. channelHandlers'[ch].len
        PROVE  Elem(channelHandlers[ch], i)' \in Live' /\ (ChanOf(Elem(channelHandlers[ch], i)))' = ch
    <3> DEFINE x == Elem(channelHandlers[ch], i)'
    <3>1. x \in Listed(ch)'
      BY DEF Listed
    <3>2. x \in Live /\ ChanOf(x) = ch
      BY <1>8, <1>9, <3>1
    <3> QED
      BY <1>2, <3>2 DEF Live, ChanOf, KeyOf
  <2>2. ASSUME NEW i \in 1 .. channelHandlers'[ch].len, NEW j \in 1 .. channelHandlers'[ch].len,
               Elem(channelHandlers[ch], i)' = Elem(channelHandlers[ch], j)'
        PROVE  i = j
    BY <1>3, <2>2 DEF RemoveEffect, Elem
  <2>3. ASSUME NEW other \in Channels \ {ch}, NEW i \in 1 .. channelHandlers'[other].len
        PROVE  /\ Elem(channelHandlers[other], i)' \in Live' /\ (ChanOf(Elem(channelHandlers[other], i)))' = other
               /\ \A j \in 1 .. channelHandlers'[other].len :
                    Elem(channelHandlers[other], i)' = Elem(channelHandlers[other], j)' => i = j
    <3>1. channelHandlers'[other] = channelHandlers[other]
      BY <1>3 DEF RemoveEffect
    <3> QED
      BY <1>1, <1>2, <1>7, <3>1 DEF ListedInPlace, Live, ChanOf, KeyOf
  <2> QED
    BY <2>1, <2>2, <2>3 DEF ListedInPlace
<1> QED
  BY <1>1, <1>2, <1>8, <1>10, <1>11, <1>12, <1>13 DEF ListsInPlace

\* Disconnect forgets the lists.
LEMMA DisconnectLists ==
  ASSUME ListsInPlace, RegisteredInPlace, NEW c \in Callers, Disconnect(c)
  PROVE  /\ ~crashed' /\ created' = created /\ \A k \in Keys : subscriptions'[k] = NoSub
         /\ \A ch \in Channels : Listed(ch)' = {}
         /\ Moves /\ ListsInPlace'
<1>1. \A ch \in Channels : channelHandlers'[ch] = NilSlice
  BY DEF Disconnect
<1>2. NilSlice \in Slices /\ 1 .. NilSlice.len = {} /\ NilSlice.arr = 0
  BY DEF NilSlice, Slices
<1>3. \A k \in Keys : subscriptions[k] # NoSub => subscriptions[k] \in Live \ closed
  BY DEF RegisteredInPlace
<1>4. ~crashed' /\ closed' \subseteq Live' /\ created' = created /\ arrays' = arrays
  BY <1>3 DEF Disconnect, Registered, ListsInPlace, RegTypeOK, Live
<1>5. RegTypeOK'
  BY <1>1, <1>2, <1>4 DEF Disconnect, ListsInPlace, RegTypeOK, InBounds
<1>6. ArraysInPlace' /\ ListedInPlace' /\ \A ch \in Channels : Listed(ch)' = {}
  BY <1>1, <1>2 DEF ArraysInPlace, ListedInPlace, Listed
<1>7. Moves
  BY <1>1, <1>2, <1>4 DEF Moves, Live, InBounds, Elem
<1> QED
  BY <1>4, <1>5, <1>6, <1>7 DEF ListsInPlace, Disconnect

\* A step that leaves the registry alone.
LEMMA FrameLists ==
  ASSUME ListsInPlace, UNCHANGED regVars
  PROVE  /\ Moves /\ ListsInPlace' /\ (RegisteredInPlace => RegisteredInPlace')
         /\ Live' = Live /\ \A ch \in Channels : Listed(ch)' = Listed(ch)
<1> USE DEF regVars, Elem, Live, KeyOf, ChanOf, Listed
<1>1. RegTypeOK'
  BY DEF ListsInPlace, RegTypeOK, InBounds
<1>2. ArraysInPlace' /\ ListedInPlace'
  BY DEF ListsInPlace, ArraysInPlace, ListedInPlace
<1>3. Moves
  BY DEF Moves, InBounds
<1>4. RegisteredInPlace => RegisteredInPlace'
  BY DEF RegisteredInPlace
<1> QED
  BY <1>1, <1>2, <1>3, <1>4 DEF ListsInPlace

-----------------------------------------------------------------------------
(* Every step.  The registry is changed by Insert, by an Unsubscribe that   *)
(* finds a subscription and by Disconnect.                                  *)

\* A new subscription s of key k, and the end of subscription s of key k.
Inserted(k, s) ==
  /\ k \in Keys /\ s \in Subs /\ s # NoSub /\ s \notin Live /\ Live' = Live \cup {s}
  /\ created'[s] = k /\ \A x \in Live : created'[x] = created[x]
  /\ subscriptions'[k] = s /\ \A j \in Keys \ {k} : subscriptions'[j] = subscriptions[j]
  /\ closed' = closed
  /\ Listed(ChannelOf[k])' = Listed(ChannelOf[k]) \cup {s}
  /\ \A ch \in Channels \ {ChannelOf[k]} : Listed(ch)' = Listed(ch)

Removed(k, s) ==
  /\ s \in Live /\ s = subscriptions[k] /\ created' = created
  /\ subscriptions'[k] = NoSub /\ \A j \in Keys \ {k} : subscriptions'[j] = subscriptions[j]
  /\ closed' = closed \cup {s} /\ ~crashed'
  /\ Listed(ChannelOf[k])' = Listed(ChannelOf[k]) \ {s}
  /\ \A ch \in Channels \ {ChannelOf[k]} : Listed(ch)' = Listed(ch)

LEMMA InsertSteps ==
  ASSUME ListsInPlace, CallTypeOK, NEW c \in Callers, Insert(c)
  PROVE  Moves /\ ListsInPlace' /\ \E k, s : k = key[c] /\ Inserted(k, s)
<1>1. PICK k, ch, s : k = key[c] /\ ch = ChannelOf[k] /\ s = Len(created) + 1
  OBVIOUS
<1>2. /\ s \in Subs /\ s \notin Live /\ Live' = Live \cup {s} /\ k \in Keys /\ created'[s] = k
      /\ Listed(ch)' = Listed(ch) \cup {s}
      /\ \A other \in Channels \ {ch} : Listed(other)' = Listed(other)
      /\ Moves /\ ListsInPlace'
  BY <1>1, InsertLists
<1>3. /\ subscriptions'[k] = s /\ \A j \in Keys \ {k} : subscriptions'[j] = subscriptions[j]
      /\ closed' = closed
  BY <1>1, <1>2 DEF Insert, ListsInPlace, RegTypeOK
<1>4. s # NoSub
  BY <1>2 DEF Subs, NoSub
<1>5. \A x \in Live : created'[x] = created[x]
  BY <1>2 DEF Moves
<1>6. Inserted(k, s)
  BY <1>1, <1>2, <1>3, <1>4, <1>5 DEF Inserted
<1> QED
  BY <1>1, <1>2, <1>6

LEMMA UnsubscribeSteps ==
  ASSUME ListsInPlace, RegisteredInPlace, NEW c \in Callers, NEW k \in Keys, Unsubscribe(c, k)
  PROVE  /\ Moves /\ ListsInPlace'
         /\ \/ UNCHANGED <<regVars, crashed>> /\ subscriptions[k] = NoSub
            \/ \E s : Removed(k, s)
<1>1. CASE subscriptions[k] = NoSub
  <2>1. UNCHANGED <<regVars, crashed>>
    BY <1>1 DEF Unsubscribe, RemoveSubscription
  <2> QED
    BY <1>1, <2>1, FrameLists
<1>2. CASE subscriptions[k] # NoSub
  <2>1. PICK s, ch : s = subscriptions[k] /\ ch = ChannelOf[k]
    OBVIOUS
  <2>2. /\ s \in Live /\ KeyOf(s) = k /\ created' = created /\ ~crashed'
        /\ closed' = closed \cup {s} /\ subscriptions' = [subscriptions EXCEPT ![k] = NoSub]
        /\ Listed(ch)' = Listed(ch) \ {s}
        /\ \A other \in Channels \ {ch} : Listed(other)' = Listed(other)
        /\ Moves /\ ListsInPlace'
    BY <1>2, <2>1, RemoveLists DEF Unsubscribe
  <2>3. subscriptions'[k] = NoSub /\ \A j \in Keys \ {k} : subscriptions'[j] = subscriptions[j]
    BY <2>2 DEF ListsInPlace, RegTypeOK
  <2> QED
    BY <2>1, <2>2, <2>3 DEF Removed
<1> QED
  BY <1>1, <1>2

\* The other steps leave the registry alone.
LEMMA OtherSteps ==
  ASSUME [Next]_vars
  PROVE  \/ \E c \in Callers : \/ Insert(c) \/ Disconnect(c)
                               \/ \E k \in Keys : Unsubscribe(c, k)
         \/ UNCHANGED regVars
BY DEF Next, vars, CallerStep, ReaderStep, Subscribe, CheckExisting,
   WriteSubscribe, WriteUnsubscribe, ConnectionLost, Connect, Receive, Pick, Send, EndDispatch, Handle

LEMMA NextLists ==
  ASSUME ListsInPlace, RegisteredInPlace, CallTypeOK, [Next]_vars
  PROVE  Moves /\ ListsInPlace'
BY OtherSteps, InsertSteps, UnsubscribeSteps, DisconnectLists, FrameLists

LEMMA NextRegistered ==
  ASSUME ListsInPlace, RegisteredInPlace, CallTypeOK, [Next]_vars
  PROVE  RegisteredInPlace'
<1>0. /\ closed \subseteq Live /\ \A j \in Keys : ChannelOf[j] \in Channels
  BY HandlersType DEF ListsInPlace, RegTypeOK
<1>1. ASSUME NEW c \in Callers, Insert(c) PROVE RegisteredInPlace'
  <2>1. PICK k, s : Inserted(k, s)
    BY <1>1, InsertSteps
  <2>2. \A other \in Channels : Listed(other) \subseteq Listed(other)'
    BY <2>1 DEF Inserted
  <2> QED
    BY <1>0, <2>1, <2>2 DEF RegisteredInPlace, KeyOf, Inserted
<1>2. ASSUME NEW c \in Callers, NEW k \in Keys, Unsubscribe(c, k) PROVE RegisteredInPlace'
  <2>1. CASE UNCHANGED regVars
    BY <2>1, FrameLists
  <2>2. ASSUME NEW s, Removed(k, s) PROVE RegisteredInPlace'
    <3>1. \A j \in Keys \ {k} : subscriptions[j] # NoSub => subscriptions[j] # s
      BY <2>2 DEF RegisteredInPlace, Removed
    <3>2. \A other \in Channels : Listed(other) \ {s} \subseteq Listed(other)'
      BY <2>2 DEF Removed
    <3> QED
      BY <1>0, <2>2, <3>1, <3>2 DEF RegisteredInPlace, KeyOf, Live, Removed
  <2> QED
    BY <1>2, <2>1, <2>2, UnsubscribeSteps
<1>3. ASSUME NEW c \in Callers, Disconnect(c) PROVE RegisteredInPlace'
  BY <1>3, DisconnectLists DEF RegisteredInPlace
<1>4. CASE UNCHANGED regVars
  BY <1>4, FrameLists
<1> QED
  BY <1>1, <1>2, <1>3, <1>4, OtherSteps

-----------------------------------------------------------------------------
(* The dispatcher.                                                         *)

LEMMA ReaderTypes ==
  ASSUME ReadTypeOK
  PROVE  /\ reader.at \in {"read", "pick", "send"} /\ reader.msg \in Keys /\ reader.slice \in Slices
         /\ reader.next \in Nat /\ reader.picked \in Subs \cup {NoSub}
         /\ reader.slice.len \in Nat /\ reader.slice.arr \in Nat
         /\ ChannelOf[reader.msg] \in Channels
BY RegistryAssumption DEF ReadTypeOK, Slices

LEMMA ReaderTypeFrom ==
  ASSUME NEW at \in {"read", "pick", "send"}, NEW msg \in Keys, NEW slice \in Slices, NEW next \in Nat,
         NEW picked \in Subs \cup {NoSub}, messages' \in 0 .. MaxMessages,
         reader' = [at |-> at, msg |-> msg, slice |-> slice, next |-> next, picked |-> picked]
  PROVE  ReadTypeOK'
BY DEF ReadTypeOK

\* The reader stands still: what happens to the registry leaves its slice in
\* place.
LEMMA ReaderWaits ==
  ASSUME RegTypeOK, ReadTypeOK, ReaderInPlace, Moves, reader' = reader
  PROVE  ReaderInPlace'
<1> DEFINE ch == ChannelOf[reader.msg]
<1>1. PICK slice \in Slices : slice = reader.slice
  BY ReaderTypes
<1>2. /\ InBounds(slice) /\ reader.next \in 1 .. slice.len + 1
      /\ \A other \in Channels : slice.arr # 0 /\ channelHandlers[other].arr = slice.arr => other = ch
      /\ \A i \in 1 .. slice.len : Elem(slice, i) \in Live /\ ChanOf(Elem(slice, i)) = ch
  BY <1>1 DEF ReaderInPlace
<1>3. slice.arr \in DOMAIN arrays \/ slice = NilSlice
  BY <1>2 DEF InBounds
<1>4. \A i \in 1 .. slice.len : slice.arr \in DOMAIN arrays /\ slice.arr # 0
  <2>1. 0 \notin DOMAIN arrays
    BY HandlersType
  <2> QED
    BY <1>2, <2>1, ElemType
<1>5. InBounds(slice)'
  BY <1>2 DEF Moves
<1>6. ASSUME NEW other \in Channels, slice.arr # 0, channelHandlers'[other].arr = slice.arr
      PROVE  other = ch
  BY <1>2, <1>3, <1>6 DEF Moves, NilSlice
<1>7. ASSUME NEW i \in 1 .. slice.len
      PROVE  Elem(slice, i)' \in Live' /\ ChannelOf[created'[Elem(slice, i)']] = ch
  <2>1. CASE Elem(slice, i)' = Elem(slice, i)
    BY <1>2, <2>1 DEF Moves, ChanOf, KeyOf
  <2>2. CASE Written(slice, i)
    BY <1>2, <1>4, <2>2 DEF Written
  <2> QED
    BY <1>2, <2>1, <2>2 DEF Moves
<1>8. reader.at = "send" => /\ reader.picked \in Live' /\ ChannelOf[created'[reader.picked]] = ch
                            /\ (ch \in MatchAll \/ created'[reader.picked] = reader.msg)
                            /\ reader.next <= slice.len
  BY <1>1 DEF ReaderInPlace, Moves, ChanOf, KeyOf, Matches
<1>9. (InBounds(reader.slice))'
  BY <1>1, <1>5 DEF InBounds
<1>10. \A i \in 1 .. slice.len : Elem(slice, i)' = (Elem(reader.slice, i))'
  BY <1>1 DEF Elem
<1> QED
  BY <1>1, <1>2, <1>6, <1>7, <1>8, <1>9, <1>10 DEF ReaderInPlace, ChanOf, KeyOf, Matches

\* The reader takes a step.
LEMMA ReaderGoes ==
  ASSUME ListsInPlace, ReadTypeOK, ReaderInPlace, ~(UNCHANGED readVars), ReaderStep
  PROVE  ReaderInPlace' /\ ReadTypeOK' /\ UNCHANGED regVars
<1> DEFINE ch == ChannelOf[reader.msg]
           slice == reader.slice
<1> USE ReaderTypes
<1>0. RegTypeOK /\ ArraysInPlace /\ ListedInPlace
  BY DEF ListsInPlace
<1>1. \A s \in Live : s \in Subs /\ (regVars' = regVars => ChanOf(s)' = ChanOf(s) /\ s \in Live')
  <2>1. \A s \in Live : s \in Subs
    BY <1>0, HandlersType, RegistryAssumption DEF RegTypeOK, Live, Subs
  <2>2. regVars' = regVars => created' = created
    BY DEF regVars
  <2> QED
    BY <2>1, <2>2 DEF Live, ChanOf, KeyOf
<1>r. reader = [at |-> reader.at, msg |-> reader.msg, slice |-> slice, next |-> reader.next, picked |-> reader.picked]
      /\ messages \in 0 .. MaxMessages
  BY DEF ReadTypeOK
<1>2. ASSUME NEW m \in Keys, Receive(m) PROVE ReaderInPlace' /\ ReadTypeOK' /\ UNCHANGED regVars
  <2>1. /\ UNCHANGED regVars /\ messages' = messages + 1 /\ messages < MaxMessages
        /\ reader' = [reader EXCEPT !.at = "pick", !.msg = m, !.next = 1, !.slice = channelHandlers[ChannelOf[m]]]
    BY <1>2 DEF Receive
  <2>2. ChannelOf[m] \in Channels /\ channelHandlers[ChannelOf[m]] \in Slices
        /\ InBounds(channelHandlers[ChannelOf[m]]) /\ channelHandlers[ChannelOf[m]].len \in Nat
    BY <1>0, HandlersType
  <2>3. /\ reader'.at = "pick" /\ reader'.msg = m /\ reader'.next = 1 /\ reader'.slice = channelHandlers[ChannelOf[m]]
        /\ reader'.picked = reader.picked
    BY <2>1 DEF ReadTypeOK
  <2>r. reader' = [at |-> "pick", msg |-> m, slice |-> channelHandlers[ChannelOf[m]], next |-> 1, picked |-> reader.picked]
        /\ messages' \in 0 .. MaxMessages
    <3>1. messages' \in 0 .. MaxMessages
      BY <1>r, <2>1, RegistryAssumption
    <3>2. reader' = [at |-> "pick", msg |-> m, slice |-> channelHandlers[ChannelOf[m]], next |-> 1,
                     picked |-> reader.picked]
      BY <1>r, <2>1
    <3> QED
      BY <3>1, <3>2
  <2>4. ReadTypeOK'
    BY <2>r, <2>2, ReaderTypeFrom
  <2>5. (InBounds(reader.slice))'
    BY <2>1, <2>2, <2>3 DEF InBounds, regVars
  <2>6. \A i \in 1 .. channelHandlers[ChannelOf[m]].len :
          /\ Elem(channelHandlers[ChannelOf[m]], i) \in Live
          /\ ChanOf(Elem(channelHandlers[ChannelOf[m]], i)) = ChannelOf[m]
    BY <1>0, <2>2 DEF ListedInPlace
  <2>7. \A other \in Channels :
          channelHandlers[ChannelOf[m]].arr # 0 /\ channelHandlers[other].arr = channelHandlers[ChannelOf[m]].arr
            => other = ChannelOf[m]
    BY <1>0, <2>2 DEF ArraysInPlace
  <2>8. \A i \in 1 .. channelHandlers[ChannelOf[m]].len :
          /\ Elem(channelHandlers[ChannelOf[m]], i) \in Live'
          /\ (ChanOf(Elem(reader.slice, i)))' = ChannelOf[m]
          /\ (Elem(reader.slice, i))' = Elem(channelHandlers[ChannelOf[m]], i)
    BY <2>1, <2>3, <2>6 DEF regVars, Elem, Live, ChanOf, KeyOf
  <2>9. UNCHANGED channelHandlers
    BY <2>1 DEF regVars
  <2> QED
    BY <2>1, <2>2, <2>3, <2>4, <2>5, <2>7, <2>8, <2>9 DEF ReaderInPlace
<1>3. CASE Pick
  <2> DEFINE s == Elem(slice, reader.next)
  <2>1. /\ UNCHANGED <<regVars, messages>> /\ reader.next <= slice.len /\ reader.next \in 1 .. slice.len
        /\ reader' = IF Matches(s, reader.msg) THEN [reader EXCEPT !.at = "send", !.picked = s]
                     ELSE [reader EXCEPT !.next = @ + 1]
    BY <1>3 DEF Pick, ReaderInPlace
  <2>2. s \in Live /\ s \in Subs /\ ChanOf(s) = ch
    BY <1>1, <2>1 DEF ReaderInPlace
  <2> HIDE DEF s
  <2>3. /\ reader'.msg = reader.msg /\ reader'.slice = slice
        /\ \/ reader'.at = "send" /\ reader'.picked = s /\ reader'.next = reader.next /\ Matches(s, reader.msg)
           \/ reader'.at = reader.at /\ reader'.next = reader.next + 1 /\ reader.at # "send"
    BY <1>3, <2>1 DEF ReadTypeOK, Pick
  <2>r. \/ reader' = [at |-> "send", msg |-> reader.msg, slice |-> slice, next |-> reader.next, picked |-> s]
        \/ reader' = [at |-> reader.at, msg |-> reader.msg, slice |-> slice, next |-> reader.next + 1,
                      picked |-> reader.picked]
    BY <1>r, <2>1
  <2>4. ReadTypeOK'
    BY <1>r, <2>1, <2>2, <2>r, ReaderTypeFrom
  <2>5. (InBounds(reader.slice))'
    BY <2>1, <2>3 DEF InBounds, regVars, ReaderInPlace
  <2>6. \A i \in 1 .. slice.len : Elem(slice, i)' \in Live' /\ ChanOf(Elem(slice, i))' = ch
    BY <2>1, <2>3 DEF ReaderInPlace, regVars, Elem, Live, ChanOf, KeyOf
  <2>7. \A other \in Channels : slice.arr # 0 /\ channelHandlers'[other].arr = slice.arr => other = ch
    BY <2>1 DEF ReaderInPlace, regVars
  <2>8. reader'.at = "send" => /\ reader'.picked \in Live' /\ (ChanOf(reader.picked))' = ch
                               /\ Matches(reader.picked, reader.msg)' /\ reader'.next <= slice.len
    BY <2>1, <2>2, <2>3 DEF Matches, regVars, Live, ChanOf, KeyOf
  <2> QED
    BY <2>1, <2>3, <2>4, <2>5, <2>6, <2>7, <2>8 DEF ReaderInPlace, regVars
<1>4. CASE Send \/ EndDispatch
  <2>1. UNCHANGED <<regVars, messages>>
    BY <1>4 DEF Send, EndDispatch
  <2>2. CASE Send
    <3>1. /\ reader.at = "send" /\ reader' = [reader EXCEPT !.at = "pick", !.next = @ + 1]
          /\ reader.next \in 1 .. slice.len
      BY <2>2 DEF Send, ReaderInPlace
    <3>2. /\ reader'.msg = reader.msg /\ reader'.slice = slice /\ reader'.at = "pick"
          /\ reader'.next \in 1 .. slice.len + 1
      BY <3>1 DEF ReadTypeOK
    <3>r. reader' = [at |-> "pick", msg |-> reader.msg, slice |-> slice, next |-> reader.next + 1,
                     picked |-> reader.picked]
      BY <1>r, <3>1
    <3>3. ReadTypeOK'
      BY <1>r, <2>1, <3>r, ReaderTypeFrom
    <3> QED
      BY <2>1, <3>2, <3>3 DEF ReaderInPlace, regVars, InBounds, Elem, Live, ChanOf, KeyOf
  <2>3. CASE EndDispatch
    <3>1. reader' = [reader EXCEPT !.at = "read", !.msg = AnyKey, !.slice = NilSlice, !.next = 1, !.picked = NoSub]
      BY <2>3 DEF EndDispatch
    <3>2. AnyKey \in Keys /\ NilSlice \in Slices /\ NilSlice.len = 0 /\ NilSlice.arr = 0
      BY RegistryAssumption DEF AnyKey, NilSlice, Slices
    <3>3. /\ reader'.at = "read" /\ reader'.slice = NilSlice /\ reader'.next = 1
      BY <3>1 DEF ReadTypeOK
    <3>4. ReadTypeOK'
      BY <2>1, <3>1, <3>2 DEF ReadTypeOK
    <3> QED
      BY <2>1, <3>2, <3>3, <3>4 DEF ReaderInPlace, InBounds, regVars
  <2> QED
    BY <1>4, <2>2, <2>3
<1> QED
  BY <1>2, <1>3, <1>4 DEF ReaderStep

LEMMA NextReader ==
  ASSUME ListsInPlace, RegisteredInPlace, CallTypeOK, ReadTypeOK, ReaderInPlace, [Next]_vars
  PROVE  ReaderInPlace' /\ ReadTypeOK'
<1>1. CASE UNCHANGED readVars
  <2>1. ReadTypeOK' /\ reader' = reader
    BY <1>1 DEF readVars, ReadTypeOK
  <2> QED
    BY <2>1, NextLists, ReaderWaits DEF ListsInPlace
<1>2. CASE ~(UNCHANGED readVars)
  <2>1. ReaderStep
    BY <1>2 DEF Next, vars, CallerStep, Subscribe, CheckExisting, Insert, Unsubscribe, Disconnect,
       WriteSubscribe, WriteUnsubscribe, ConnectionLost, Connect, Handle
  <2> QED
    BY <1>2, <2>1, ReaderGoes
<1> QED
  BY <1>1, <1>2

-----------------------------------------------------------------------------
(* Types.                                                                  *)

LEMMA CallTypes ==
  ASSUME CallTypeOK, [Next]_vars
  PROVE  CallTypeOK'
<1> USE DEF CallTypeOK
<1>0. AnyKey \in Keys
  BY RegistryAssumption DEF AnyKey
<1>1. ASSUME NEW c \in Callers, NEW k \in Keys, Subscribe(c, k) PROVE CallTypeOK'
  BY <1>1 DEF Subscribe, Noting
<1>2. ASSUME NEW c \in Callers, NEW k \in Keys, Unsubscribe(c, k) PROVE CallTypeOK'
  BY <1>2 DEF Unsubscribe, Noting
<1>3. ASSUME NEW c \in Callers, CheckExisting(c) PROVE CallTypeOK'
  BY <1>3 DEF CheckExisting
<1>4. ASSUME NEW c \in Callers, Insert(c) PROVE CallTypeOK'
  BY <1>4 DEF Insert
<1>5. ASSUME NEW c \in Callers, WriteSubscribe(c) PROVE CallTypeOK'
  BY <1>0, <1>5 DEF WriteSubscribe
<1>6. ASSUME NEW c \in Callers, WriteUnsubscribe(c) PROVE CallTypeOK'
  BY <1>0, <1>6 DEF WriteUnsubscribe
<1>7. ASSUME NEW c \in Callers, Disconnect(c) PROVE CallTypeOK'
  BY <1>7 DEF Disconnect, InCall
<1>8. CASE ConnectionLost
  BY <1>8 DEF ConnectionLost, InCall
<1>9. CASE UNCHANGED callVars
  BY <1>9 DEF callVars
<1> QED
  BY <1>1, <1>2, <1>3, <1>4, <1>5, <1>6, <1>7, <1>8, <1>9 DEF Next, vars, CallerStep, ReaderStep,
     Connect, Receive, Pick, Send, EndDispatch, Handle

\* The Go channels of the subscriptions stay within their capacity.
BuffersType ==
  buffer \in [Subs -> Seq(0 .. MaxMessages)] /\ \A s \in Subs : Len(buffer[s]) <= BufferSize

LEMMA BufferTypes ==
  ASSUME RegTypeOK, ReadTypeOK, ReaderInPlace, BuffersType, [Next]_vars
  PROVE  BuffersType'
<1> USE DEF BuffersType
<1>1. CASE Send
  <2> DEFINE s == reader.picked
  <2>1. s \in Subs
    <3>1. s \in Live
      BY <1>1 DEF Send, ReaderInPlace
    <3> QED
      BY <3>1, HandlersType, RegistryAssumption DEF RegTypeOK, Live, Subs
  <2>2. buffer' = buffer \/ (Len(buffer[s]) # BufferSize /\ buffer' = [buffer EXCEPT ![s] = Append(buffer[s], messages)])
    BY <1>1 DEF Send
  <2> HIDE DEF s
  <2>3. messages \in 0 .. MaxMessages /\ buffer[s] \in Seq(0 .. MaxMessages) /\ Len(buffer[s]) <= BufferSize
    BY <2>1 DEF ReadTypeOK
  <2> DEFINE new == Append(buffer[s], messages)
  <2>4. new \in Seq(0 .. MaxMessages) /\ Len(new) = Len(buffer[s]) + 1 /\ Len(buffer[s]) \in Nat
    BY <2>3
  <2> HIDE DEF new
  <2>5. Len(buffer[s]) # BufferSize => Len(new) <= BufferSize
    BY <2>3, <2>4, RegistryAssumption
  <2>6. CASE Len(buffer[s]) # BufferSize /\ buffer' = [buffer EXCEPT ![s] = new]
    <3>1. buffer'[s] = new /\ \A x \in Subs \ {s} : buffer'[x] = buffer[x]
      BY <2>1, <2>6
    <3> QED
      BY <2>1, <2>4, <2>5, <2>6, <3>1
  <2> QED
    BY <2>2, <2>6 DEF new
<1>2. ASSUME NEW s \in Subs, Handle(s) PROVE BuffersType'
  <2>1. buffer[s] # <<>> /\ buffer' = [buffer EXCEPT ![s] = Tail(buffer[s])]
    BY <1>2 DEF Handle
  <2>2. buffer[s] \in Seq(0 .. MaxMessages) /\ Len(buffer[s]) <= BufferSize
    OBVIOUS
  <2> DEFINE new == Tail(buffer[s])
  <2>3. new \in Seq(0 .. MaxMessages) /\ Len(new) = Len(buffer[s]) - 1 /\ Len(buffer[s]) \in Nat
    BY <2>1, <2>2
  <2> HIDE DEF new
  <2>4. Len(new) <= BufferSize
    BY <2>2, <2>3, RegistryAssumption
  <2>5. buffer' = [buffer EXCEPT ![s] = new]
    BY <2>1 DEF new
  <2>6. buffer'[s] = new /\ \A x \in Subs \ {s} : buffer'[x] = buffer[x]
    BY <2>5
  <2> QED
    BY <2>3, <2>4, <2>5, <2>6
<1>3. CASE UNCHANGED buffer
  BY <1>3
<1> QED
  BY <1>1, <1>2, <1>3 DEF Next, vars, CallerStep, ReaderStep, Subscribe, CheckExisting, Insert, Unsubscribe,
     WriteSubscribe, WriteUnsubscribe, Disconnect, ConnectionLost, Connect, Receive, Pick, EndDispatch

LEMMA ConnectionTypes ==
  ASSUME CallTypeOK, open \in BOOLEAN, feeds \subseteq Keys, crashed \in BOOLEAN, [Next]_vars
  PROVE  open' \in BOOLEAN /\ feeds' \subseteq Keys /\ crashed' \in BOOLEAN
<1>1. open' \in BOOLEAN
  BY DEF Next, vars, CallerStep, ReaderStep, Subscribe, CheckExisting, Insert, Unsubscribe,
     WriteSubscribe, WriteUnsubscribe, Disconnect, ConnectionLost, Connect, Receive, Pick, Send, EndDispatch,
     Handle, connVars
<1>2. feeds' \subseteq Keys
  <2>1. \A c \in Callers : key[c] \in Keys
    BY DEF CallTypeOK
  <2> QED
    BY <2>1 DEF Next, vars, CallerStep, ReaderStep, Subscribe, CheckExisting, Insert, Unsubscribe,
     WriteSubscribe, WriteUnsubscribe, Disconnect, ConnectionLost, Connect, Receive, Pick, Send, EndDispatch,
     Handle, connVars
<1>3. crashed' \in BOOLEAN
  <2>1. ASSUME NEW c \in Callers, NEW k \in Keys, Unsubscribe(c, k) PROVE crashed' \in BOOLEAN
    <3>1. crashed' = crashed \/ crashed' = (subscriptions[k] \in closed)
      BY <2>1 DEF Unsubscribe, RemoveSubscription
    <3>2. CASE crashed' = crashed
      BY <3>2
    <3>3. CASE crashed' = (subscriptions[k] \in closed)
      BY <3>3
    <3> QED
      BY <3>1, <3>2, <3>3
  <2>2. ASSUME NEW c \in Callers, Disconnect(c) PROVE crashed' \in BOOLEAN
    <3>1. crashed' = (Registered \cap closed # {})
      BY <2>2 DEF Disconnect
    <3>2. (Registered \cap closed # {}) \in BOOLEAN
      OBVIOUS
    <3> QED
      BY <3>1, <3>2, Zenon
  <2>3. CASE Send
    <3>1. crashed' = (reader.picked \in closed)
      BY <2>3 DEF Send
    <3> QED
      BY <3>1
  <2>4. CASE UNCHANGED crashed
    BY <2>4
  <2> QED
    BY <2>1, <2>2, <2>3, <2>4 DEF Next, vars, CallerStep, ReaderStep, Subscribe, CheckExisting, Insert,
     WriteSubscribe, WriteUnsubscribe, ConnectionLost, Connect, Receive, Pick, EndDispatch, Handle
<1> QED
  BY <1>1, <1>2, <1>3

-----------------------------------------------------------------------------
(* Calls and the server.                                                   *)

Busy(c) == pc[c] # "idle"

\* The moves of a caller between the points of a call.
Goes(c, k, l) ==
  /\ key'[c] = k /\ pc'[c] = l
  /\ \A d \in Callers \ {c} : key'[d] = key[d] /\ pc'[d] = pc[d]

LEMMA CallerMoves ==
  ASSUME CallTypeOK, NEW c \in Callers
  PROVE  /\ \A k \in Keys : /\ Subscribe(c, k) => Goes(c, k, IF UserOf[k] = NoUser THEN "insert" ELSE "check")
                            /\ Unsubscribe(c, k) => Goes(c, k, "unsubscribe")
         /\ CheckExisting(c) => Goes(c, key[c], IF SameUserListed(key[c]) THEN "subscribe" ELSE "insert")
         /\ Insert(c) => Goes(c, key[c], "subscribe")
         /\ WriteSubscribe(c) \/ WriteUnsubscribe(c) => Goes(c, AnyKey, "idle")
BY DEF CallTypeOK, Goes, Subscribe, Unsubscribe, CheckExisting, Insert, WriteSubscribe, WriteUnsubscribe

\* What is unclear stays so.
LEMMA UnclearGrows ==
  ASSUME [Next]_vars
  PROVE  unclear \subseteq unclear'
BY DEF Next, vars, callVars, CallerStep, ReaderStep, Noting, Subscribe, CheckExisting, Insert, Unsubscribe,
   WriteSubscribe, WriteUnsubscribe, Disconnect, ConnectionLost, Connect, Receive, Pick, Send, EndDispatch, Handle

LEMMA NextUsers ==
  ASSUME ListsInPlace, RegisteredInPlace, CallTypeOK, CallsInPlace, UsersInPlace, [Next]_vars
  PROVE  UsersInPlace'
<1>0. /\ \A k \in Keys : ChannelOf[k] \in Channels
      /\ \A ch \in Channels : Listed(ch) \subseteq Live
  BY HandlersType DEF ListsInPlace, ListedInPlace, Listed
<1>1. ASSUME NEW c \in Callers, Insert(c) PROVE UsersInPlace'
  <2>1. PICK k, s : k = key[c] /\ Inserted(k, s)
    BY <1>1, InsertSteps
  <2>2. ASSUME NEW j \in Keys \ unclear', UserOf[j] # NoUser, NEW x \in Listed(ChannelOf[j])',
               created'[x] = j
        PROVE  subscriptions'[j] = x
    <3>1. j \notin unclear
      BY <2>2, UnclearGrows
    <3>2. CASE j = k
      <4>1. \A y \in Listed(ChannelOf[j]) : created[y] # j
        BY <1>1, <2>1, <2>2, <3>1, <3>2 DEF CallsInPlace, Insert, KeyOf
      <4>2. x = s
        BY <1>0, <2>1, <2>2, <3>2, <4>1 DEF Inserted
      <4> QED
        BY <2>1, <3>2, <4>2 DEF Inserted
    <3>3. CASE j # k
      <4>1. x # s
        BY <2>1, <2>2, <3>3 DEF Inserted
      <4>2. x \in Listed(ChannelOf[j]) /\ created[x] = j
        BY <1>0, <2>1, <2>2, <4>1 DEF Inserted
      <4> QED
        BY <2>1, <2>2, <3>1, <3>3, <4>2 DEF UsersInPlace, Inserted, KeyOf
    <3> QED
      BY <3>2, <3>3
  <2> QED
    BY <2>2 DEF UsersInPlace, KeyOf
<1>2. ASSUME NEW c \in Callers, NEW k \in Keys, Unsubscribe(c, k) PROVE UsersInPlace'
  <2>1. CASE UNCHANGED regVars
    BY <1>0, <2>1, UnclearGrows, FrameLists DEF UsersInPlace, regVars, KeyOf
  <2>2. ASSUME NEW s, Removed(k, s) PROVE UsersInPlace'
    <3>1. ASSUME NEW j \in Keys \ unclear', UserOf[j] # NoUser, NEW x \in Listed(ChannelOf[j])',
                 created'[x] = j
          PROVE  subscriptions'[j] = x
      <4>1. j \notin unclear /\ x \in Listed(ChannelOf[j]) /\ created[x] = j
        BY <1>0, <2>2, <3>1, UnclearGrows DEF Removed
      <4>2. subscriptions[j] = x
        BY <3>1, <4>1 DEF UsersInPlace, KeyOf
      <4>3. j # k
        BY <2>2, <3>1, <4>2 DEF Removed
      <4> QED
        BY <2>2, <4>2, <4>3 DEF Removed
    <3> QED
      BY <3>1 DEF UsersInPlace, KeyOf
  <2> QED
    BY <1>2, <2>1, <2>2, UnsubscribeSteps
<1>3. ASSUME NEW c \in Callers, Disconnect(c) PROVE UsersInPlace'
  BY <1>0, <1>3, DisconnectLists DEF UsersInPlace
<1>4. CASE UNCHANGED regVars
  BY <1>0, <1>4, UnclearGrows, FrameLists DEF UsersInPlace, regVars, KeyOf
<1> QED
  BY <1>1, <1>2, <1>3, <1>4, OtherSteps

\* Where a call stands, of any two callers: the parts of CallsInPlace.
Noted == \A c, d \in Callers : c # d /\ Busy(c) /\ Busy(d) /\ key[c] = key[d] => key[c] \in unclear

Standing(c) ==
  /\ pc[c] = "check" => UserOf[key[c]] # NoUser
  /\ key[c] \notin unclear =>
       /\ pc[c] = "subscribe" /\ Solo(key[c]) => subscriptions[key[c]] # NoSub
       /\ pc[c] = "unsubscribe" => subscriptions[key[c]] = NoSub
       /\ pc[c] = "insert" /\ UserOf[key[c]] # NoUser =>
            \A s \in Listed(ChannelOf[key[c]]) : created[s] # key[c]

LEMMA CallsParts == CallsInPlace <=> Noted /\ \A c \in Callers : Standing(c)
BY DEF CallsInPlace, Noted, Standing, Busy, KeyOf

\* A call that overlaps another about its key has noted it.
LEMMA NextNoted ==
  ASSUME CallTypeOK, Noted, [Next]_vars
  PROVE  Noted'
<1>0. unclear \subseteq unclear'
  BY UnclearGrows
<1>1. ASSUME NEW c \in Callers, NEW k \in Keys, Goes(c, k, "insert") \/ Goes(c, k, "check") \/ Goes(c, k, "unsubscribe"),
             unclear' = Noting(c, k)
      PROVE  Noted'
  <2>1. \A d \in Callers \ {c} : Busy(d) /\ key[d] = k => k \in unclear'
    BY <1>1 DEF Noting, Overlaps, Busy
  <2> QED
    BY <1>0, <1>1, <2>1 DEF Noted, Goes, Busy
<1>2. ASSUME NEW c \in Callers, NEW k, NEW l, Goes(c, k, l), (k = key[c] /\ Busy(c)) \/ l = "idle"
      PROVE  Noted'
  BY <1>0, <1>2 DEF Noted, Goes, Busy
<1>3. CASE UNCHANGED <<pc, key>>
  BY <1>0, <1>3 DEF Noted, Busy
<1>4. ASSUME NEW c \in Callers, NEW k \in Keys, Subscribe(c, k) \/ Unsubscribe(c, k) PROVE Noted'
  <2>1. unclear' = Noting(c, k)
    BY <1>4 DEF Subscribe, Unsubscribe
  <2> QED
    BY <1>1, <1>4, <2>1, CallerMoves
<1>5. ASSUME NEW c \in Callers, CheckExisting(c) \/ Insert(c) PROVE Noted'
  <2>1. Busy(c)
    BY <1>5 DEF CheckExisting, Insert, Busy
  <2> QED
    BY <1>2, <1>5, <2>1, CallerMoves
<1>6. ASSUME NEW c \in Callers, WriteSubscribe(c) \/ WriteUnsubscribe(c) PROVE Noted'
  BY <1>2, <1>6, CallerMoves
<1> QED
  BY <1>3, <1>4, <1>5, <1>6 DEF Next, vars, callVars, CallerStep, ReaderStep, Disconnect, ConnectionLost,
     Connect, Receive, Pick, Send, EndDispatch, Handle

\* What others do leaves a clear call where it stands.
LEMMA StandsStill ==
  ASSUME ListsInPlace, RegisteredInPlace, CallTypeOK, Noted, [Next]_vars,
         NEW d \in Callers, Standing(d), pc'[d] = pc[d], key'[d] = key[d]
  PROVE  Standing(d)'
<1> DEFINE j == key[d]
<1>0. /\ unclear \subseteq unclear' /\ j \in Keys /\ ChannelOf[j] \in Channels
      /\ Listed(ChannelOf[j]) \subseteq Live
  BY UnclearGrows, HandlersType DEF CallTypeOK, ListsInPlace, ListedInPlace, Listed
<1>1. ASSUME j \notin unclear', Busy(d)
      PROVE  /\ subscriptions'[j] = subscriptions[j] \/ \E c \in Callers : Disconnect(c)
             /\ \A x \in Listed(ChannelOf[j])' :
                  (x \in Listed(ChannelOf[j]) /\ created'[x] = created[x]) \/ created'[x] # j
  <2>1. ASSUME NEW c \in Callers, Insert(c)
        PROVE  /\ subscriptions'[j] = subscriptions[j]
               /\ \A x \in Listed(ChannelOf[j])' :
                    (x \in Listed(ChannelOf[j]) /\ created'[x] = created[x]) \/ created'[x] # j
    <3>1. PICK k, s : k = key[c] /\ Inserted(k, s)
      BY <2>1, InsertSteps
    <3>2. c # d
      BY <2>1 DEF Insert, CallTypeOK
    <3>3. k # j
      BY <1>0, <1>1, <2>1, <3>1, <3>2 DEF Noted, Busy, Insert
    <3> QED
      BY <1>0, <3>1, <3>3 DEF Inserted
  <2>2. ASSUME NEW c \in Callers, NEW k \in Keys, Unsubscribe(c, k)
        PROVE  /\ subscriptions'[j] = subscriptions[j]
               /\ \A x \in Listed(ChannelOf[j])' :
                    (x \in Listed(ChannelOf[j]) /\ created'[x] = created[x]) \/ created'[x] # j
    <3>1. CASE UNCHANGED regVars
      BY <1>0, <3>1, FrameLists DEF regVars
    <3>2. ASSUME NEW s, Removed(k, s)
          PROVE  /\ subscriptions'[j] = subscriptions[j]
                 /\ \A x \in Listed(ChannelOf[j])' : x \in Listed(ChannelOf[j]) /\ created'[x] = created[x]
      <4>1. c # d
        BY <1>1, <2>2 DEF Unsubscribe, Busy
      <4>2. k # j
        BY <1>1, <2>2, <4>1 DEF Unsubscribe, Noting, Overlaps, Busy
      <4> QED
        BY <1>0, <3>2, <4>2 DEF Removed
    <3> QED
      BY <2>2, <3>1, <3>2, UnsubscribeSteps
  <2>3. ASSUME NEW c \in Callers, Disconnect(c)
        PROVE  Listed(ChannelOf[j])' = {}
    BY <1>0, <2>3, DisconnectLists
  <2>4. CASE UNCHANGED regVars
    BY <1>0, <2>4, FrameLists DEF regVars
  <2> QED
    BY <2>1, <2>2, <2>3, <2>4, OtherSteps
<1>2. ASSUME NEW c \in Callers, Disconnect(c), Busy(d) PROVE j \in unclear'
  BY <1>2 DEF Disconnect, InCall, Busy
<1>3. CASE ~Busy(d) \/ j \in unclear'
  BY <1>0, <1>3 DEF Standing, Busy
<1>4. CASE Busy(d) /\ j \notin unclear'
  <2>1. /\ subscriptions'[j] = subscriptions[j] /\ j \notin unclear
        /\ \A x \in Listed(ChannelOf[j])' :
             (x \in Listed(ChannelOf[j]) /\ created'[x] = created[x]) \/ created'[x] # j
    BY <1>0, <1>1, <1>2, <1>4
  <2>2. pc'[d] = "check" => UserOf[key'[d]] # NoUser
    BY DEF Standing
  <2>3. /\ pc'[d] = "subscribe" /\ Solo(key'[d]) => subscriptions'[key'[d]] # NoSub
        /\ pc'[d] = "unsubscribe" => subscriptions'[key'[d]] = NoSub
    BY <2>1 DEF Standing, Solo
  <2>4. ASSUME pc'[d] = "insert", UserOf[j] # NoUser
        PROVE  \A x \in Listed(ChannelOf[j])' : created'[x] # j
    <3>1. \A x \in Listed(ChannelOf[j]) : created[x] # j
      BY <2>1, <2>4 DEF Standing
    <3> QED
      BY <2>1, <3>1
  <2> QED
    BY <2>2, <2>3, <2>4 DEF Standing, Solo
<1> QED
  BY <1>3, <1>4

\* The caller that acts stands as its step leaves it.
LEMMA StandsAfter ==
  ASSUME ListsInPlace, RegisteredInPlace, CallTypeOK, CallsInPlace, UsersInPlace,
         NEW c \in Callers, CallerStep(c)
  PROVE  Standing(c)' \/ (pc'[c] = pc[c] /\ key'[c] = key[c])
<1>0. /\ Standing(c) /\ key[c] \in Keys /\ ChannelOf[key[c]] \in Channels
      /\ \A ch \in Channels : Listed(ch) \subseteq Live
  BY CallsParts, HandlersType DEF CallTypeOK, ListsInPlace, ListedInPlace, Listed
<1>1. ASSUME NEW k \in Keys, Subscribe(c, k) PROVE Standing(c)'
  <2>1. Goes(c, k, IF UserOf[k] = NoUser THEN "insert" ELSE "check")
    BY <1>1, CallerMoves
  <2> QED
    BY <2>1 DEF Standing, Goes
<1>2. ASSUME NEW k \in Keys, Unsubscribe(c, k) PROVE Standing(c)'
  <2>1. Goes(c, k, "unsubscribe")
    BY <1>2, CallerMoves
  <2>2. subscriptions'[k] = NoSub
    BY <1>2, UnsubscribeSteps DEF regVars, Removed
  <2> QED
    BY <2>1, <2>2 DEF Standing, Goes
<1>3. CASE CheckExisting(c)
  <2>1. PICK k, ch : k = key[c] /\ ch = ChannelOf[k]
    OBVIOUS
  <2>2. /\ Goes(c, k, IF SameUserListed(k) THEN "subscribe" ELSE "insert")
        /\ UNCHANGED <<regVars, unclear>> /\ UserOf[k] # NoUser /\ k \in Keys /\ ch \in Channels
    BY <1>0, <1>3, <2>1, CallerMoves DEF CheckExisting, Standing
  <2>3. Listed(ch)' = Listed(ch) /\ created' = created /\ subscriptions' = subscriptions
    BY <2>2, FrameLists DEF regVars
  <2>4. CASE SameUserListed(k)
    <3>1. PICK s \in Listed(ch) : UserOf[created[s]] = UserOf[k]
      BY <2>1, <2>4 DEF SameUserListed, KeyOf
    <3>2. ASSUME k \notin unclear, Solo(k) PROVE subscriptions[k] # NoSub
      <4>1. s \in Live /\ created[s] \in Keys /\ ChannelOf[created[s]] = ch
        BY <2>2, <3>1, HandlersType DEF ListsInPlace, ListedInPlace, Listed, ChanOf, KeyOf
      <4>2. created[s] = k
        BY <2>1, <2>2, <3>1, <3>2, <4>1 DEF Solo
      <4>3. subscriptions[k] = s
        BY <2>1, <2>2, <3>1, <3>2, <4>2 DEF UsersInPlace, KeyOf
      <4> QED
        BY <4>1, <4>3 DEF Live, NoSub
    <3> QED
      BY <2>2, <2>3, <2>4, <3>2 DEF Standing, Goes, Solo
  <2>5. CASE ~SameUserListed(k)
    <3>1. \A s \in Listed(ch) : created[s] # k
      BY <2>1, <2>5 DEF SameUserListed, KeyOf
    <3>2. key'[c] = k /\ pc'[c] = "insert"
      BY <2>2, <2>5 DEF Goes
    <3> QED
      BY <2>1, <2>3, <3>1, <3>2 DEF Standing
  <2> QED
    BY <2>4, <2>5
<1>4. CASE Insert(c)
  <2>1. PICK k, s : k = key[c] /\ Inserted(k, s)
    BY <1>4, InsertSteps
  <2>2. Goes(c, k, "subscribe")
    BY <1>4, <2>1, CallerMoves
  <2> QED
    BY <2>1, <2>2 DEF Standing, Goes, Inserted
<1>5. CASE WriteSubscribe(c) \/ WriteUnsubscribe(c)
  <2>1. Goes(c, AnyKey, "idle")
    BY <1>5, CallerMoves
  <2> QED
    BY <2>1 DEF Standing, Goes
<1>6. CASE Disconnect(c) \/ Connect(c)
  BY <1>6 DEF Disconnect, Connect, callVars
<1> QED
  BY <1>1, <1>2, <1>3, <1>4, <1>5, <1>6 DEF CallerStep

LEMMA NextCalls ==
  ASSUME ListsInPlace, RegisteredInPlace, CallTypeOK, CallsInPlace, UsersInPlace, [Next]_vars
  PROVE  CallsInPlace'
<1>1. Noted' /\ \A d \in Callers : Standing(d)
  BY CallsParts, NextNoted
<1>2. ASSUME NEW d \in Callers PROVE Standing(d)'
  <2>1. CASE pc'[d] = pc[d] /\ key'[d] = key[d]
    BY <1>1, <2>1, StandsStill, CallsParts
  <2>2. CASE ~(pc'[d] = pc[d] /\ key'[d] = key[d])
    <3>1. PICK c \in Callers : CallerStep(c)
      BY <2>2 DEF Next, vars, callVars, ReaderStep, ConnectionLost, Receive, Pick, Send, EndDispatch, Handle
    <3>2. CASE c = d
      BY <2>2, <3>1, <3>2, StandsAfter
    <3>3. CASE c # d
      <4>1. \/ \E k, l : Goes(c, k, l)
            \/ UNCHANGED <<pc, key>>
        BY <3>1, CallerMoves DEF CallerStep, Disconnect, Connect, callVars
      <4> QED
        BY <2>2, <3>3, <4>1 DEF Goes
    <3> QED
      BY <3>2, <3>3
  <2> QED
    BY <2>1, <2>2
<1>3. (Noted /\ \A d \in Callers : Standing(d))'
  BY <1>1, <1>2
<1> QED
  BY <1>3 DEF CallsInPlace, Noted, Standing, Busy, KeyOf

\* No caller is in a call about k.
Quiet(k) == \A c \in Callers : Busy(c) => key[c] # k

Agreed(k) == subscriptions[k] # NoSub <=> k \in feeds

LEMMA QuietParts == QuietAgreement <=> \A k \in Keys \ unclear : Solo(k) /\ Quiet(k) => Agreed(k)
BY DEF QuietAgreement, Quiet, Busy, Agreed

\* A connection that is not open streams nothing.
LEMMA NextFeeds ==
  ASSUME ~open => feeds = {}, [Next]_vars
  PROVE  (~open => feeds = {})'
<1>1. ASSUME NEW c \in Callers, WriteSubscribe(c) \/ WriteUnsubscribe(c) PROVE (~open => feeds = {})'
  BY <1>1 DEF WriteSubscribe, WriteUnsubscribe
<1>2. ASSUME NEW c \in Callers, Disconnect(c) \/ Connect(c) PROVE (~open => feeds = {})'
  BY <1>2 DEF Disconnect, Connect
<1>3. CASE ConnectionLost
  BY <1>3 DEF ConnectionLost
<1>4. CASE UNCHANGED connVars
  BY <1>4 DEF connVars
<1> QED
  BY <1>1, <1>2, <1>3, <1>4 DEF Next, vars, CallerStep, ReaderStep, Subscribe, CheckExisting, Insert,
     Unsubscribe, Receive, Pick, Send, EndDispatch, Handle

LEMMA NextQuiet ==
  ASSUME ListsInPlace, RegisteredInPlace, CallTypeOK, CallsInPlace, ~open => feeds = {},
         QuietAgreement, [Next]_vars
  PROVE  QuietAgreement'
<1> SUFFICES ASSUME NEW k \in Keys \ unclear', Solo(k), Quiet(k)'
             PROVE  Agreed(k)'
  <2>1. (\A j \in Keys \ unclear : Solo(j) /\ Quiet(j) => Agreed(j))' => QuietAgreement'
    BY DEF QuietAgreement, Quiet, Busy, Agreed, Solo
  <2> QED
    BY <2>1 DEF Solo
<1>0. /\ k \in Keys \ unclear
      /\ Quiet(k) => Agreed(k)
      /\ \A c \in Callers : Standing(c)
  BY UnclearGrows, QuietParts, CallsParts
<1>1. ASSUME NEW c \in Callers, NEW j, NEW l, Goes(c, j, l), j = key[c] \/ ~Busy(c), l # "idle"
      PROVE  j # k /\ Quiet(k)
  BY <1>1 DEF Goes, Quiet, Busy
<1>2. ASSUME NEW c \in Callers, Goes(c, AnyKey, "idle"), key[c] # k
      PROVE  Quiet(k)
  BY <1>2 DEF Goes, Quiet, Busy
<1>3. ASSUME NEW c \in Callers, NEW j \in Keys, Subscribe(c, j) PROVE Agreed(k)'
  <2>1. ~Busy(c) /\ UNCHANGED <<subscriptions, feeds>>
    BY <1>3 DEF Subscribe, Busy, regVars, connVars
  <2>2. Quiet(k)
    BY <1>1, <1>3, <2>1, CallerMoves
  <2> QED
    BY <1>0, <2>1, <2>2 DEF Agreed
<1>4. ASSUME NEW c \in Callers, NEW j \in Keys, Unsubscribe(c, j) PROVE Agreed(k)'
  <2>1. ~Busy(c) /\ UNCHANGED feeds
    BY <1>4 DEF Unsubscribe, Busy, connVars
  <2>2. j # k /\ Quiet(k)
    BY <1>1, <1>4, <2>1, CallerMoves
  <2>3. subscriptions'[k] = subscriptions[k]
    BY <1>4, <2>2, UnsubscribeSteps DEF Removed, regVars
  <2> QED
    BY <1>0, <2>1, <2>2, <2>3 DEF Agreed
<1>5. ASSUME NEW c \in Callers, CheckExisting(c) PROVE Agreed(k)'
  <2>1. Busy(c) /\ UNCHANGED <<subscriptions, feeds>>
    BY <1>5 DEF CheckExisting, Busy, regVars, connVars
  <2>2. Quiet(k)
    BY <1>1, <1>5, CallerMoves
  <2> QED
    BY <1>0, <2>1, <2>2 DEF Agreed
<1>6. ASSUME NEW c \in Callers, Insert(c) PROVE Agreed(k)'
  <2>1. UNCHANGED feeds
    BY <1>6 DEF Insert, connVars
  <2>2. key[c] # k /\ Quiet(k)
    BY <1>1, <1>6, CallerMoves
  <2>3. subscriptions'[k] = subscriptions[k]
    BY <1>6, <2>2, InsertSteps DEF Inserted
  <2> QED
    BY <1>0, <2>1, <2>2, <2>3 DEF Agreed
<1>7. ASSUME NEW c \in Callers, WriteSubscribe(c) PROVE Agreed(k)'
  <2>1. /\ pc[c] = "subscribe" /\ UNCHANGED subscriptions
        /\ feeds' = IF open THEN feeds \cup {key[c]} ELSE feeds
        /\ ~open => key[c] \in unclear'
    BY <1>7 DEF WriteSubscribe, regVars
  <2>2. CASE key[c] = k
    BY <1>0, <2>1, <2>2 DEF Standing, Agreed
  <2>3. CASE key[c] # k
    <3>1. Quiet(k)
      BY <1>2, <1>7, <2>3, CallerMoves
    <3> QED
      BY <1>0, <2>1, <2>3, <3>1 DEF Agreed
  <2> QED
    BY <2>2, <2>3
<1>8. ASSUME NEW c \in Callers, WriteUnsubscribe(c) PROVE Agreed(k)'
  <2>1. /\ pc[c] = "unsubscribe" /\ UNCHANGED subscriptions
        /\ feeds' = IF open THEN feeds \ {key[c]} ELSE feeds
    BY <1>8 DEF WriteUnsubscribe, regVars
  <2>2. CASE key[c] = k
    BY <1>0, <2>1, <2>2 DEF Standing, Agreed
  <2>3. CASE key[c] # k
    <3>1. Quiet(k)
      BY <1>2, <1>8, <2>3, CallerMoves
    <3> QED
      BY <1>0, <2>1, <2>3, <3>1 DEF Agreed
  <2> QED
    BY <2>2, <2>3
<1>9. ASSUME NEW c \in Callers, Disconnect(c) PROVE Agreed(k)'
  BY <1>9 DEF Disconnect, Agreed
<1>10. CASE ConnectionLost
  BY <1>10 DEF ConnectionLost, Agreed, regVars
<1>11. CASE UNCHANGED <<pc, key, subscriptions, feeds>>
  BY <1>0, <1>11 DEF Quiet, Busy, Agreed
<1> QED
  BY <1>3, <1>4, <1>5, <1>6, <1>7, <1>8, <1>9, <1>10, <1>11 DEF Next, vars, regVars, callVars, connVars, CallerStep,
     ReaderStep, Connect, Receive, Pick, Send, EndDispatch, Handle

-----------------------------------------------------------------------------
(* The invariant.                                                          *)

LEMMA RegistryInit ==
  ASSUME Init
  PROVE  RegistryInv /\ QuietAgreement
<1> USE RegistryAssumption DEF Init
<1>0. /\ AnyKey \in Keys /\ NilSlice \in Slices /\ NilSlice.arr = 0 /\ NilSlice.len = 0
      /\ 1 .. NilSlice.len = {} /\ Live = {}
  BY DEF AnyKey, NilSlice, Slices, Live
<1>1. RegTypeOK
  BY <1>0 DEF RegTypeOK, InBounds
<1>2. CallTypeOK
  BY <1>0 DEF CallTypeOK
<1>3. ReadTypeOK
  BY <1>0 DEF ReadTypeOK
<1>4. buffer \in [Subs -> Seq(0 .. MaxMessages)] /\ \A s \in Subs : Len(buffer[s]) <= BufferSize
  BY DEF Subs
<1>5. TypeOK
  BY <1>1, <1>2, <1>3, <1>4 DEF TypeOK
<1>6. ArraysInPlace /\ ListedInPlace /\ RegisteredInPlace /\ UsersInPlace
  BY <1>0 DEF ArraysInPlace, ListedInPlace, RegisteredInPlace, UsersInPlace, Listed
<1>7. ReaderInPlace
  BY <1>0 DEF ReaderInPlace, InBounds
<1>8. CallsInPlace /\ QuietAgreement
  BY DEF CallsInPlace, QuietAgreement
<1> QED
  BY <1>5, <1>6, <1>7, <1>8 DEF RegistryInv

LEMMA RegistryNext ==
  ASSUME RegistryInv, QuietAgreement, [Next]_vars
  PROVE  RegistryInv' /\ QuietAgreement'
<1>1. /\ ListsInPlace /\ RegTypeOK /\ CallTypeOK /\ ReadTypeOK /\ BuffersType
      /\ open \in BOOLEAN /\ feeds \subseteq Keys /\ crashed \in BOOLEAN
      /\ ArraysInPlace /\ ListedInPlace /\ RegisteredInPlace /\ ReaderInPlace
      /\ CallsInPlace /\ UsersInPlace /\ (~open => feeds = {})
  BY DEF RegistryInv, TypeOK, ListsInPlace, BuffersType
<1>2. ListsInPlace' /\ RegisteredInPlace'
  BY <1>1, NextLists, NextRegistered
<1>3. ReaderInPlace' /\ ReadTypeOK'
  BY <1>1, NextReader
<1>4. CallTypeOK' /\ BuffersType'
  BY <1>1, CallTypes, BufferTypes
<1>5. open' \in BOOLEAN /\ feeds' \subseteq Keys /\ crashed' \in BOOLEAN
  BY <1>1, ConnectionTypes
<1>6. CallsInPlace' /\ UsersInPlace'
  BY <1>1, NextCalls, NextUsers
<1>7. (~open => feeds = {})' /\ QuietAgreement'
  BY <1>1, NextFeeds, NextQuiet
<1>8. TypeOK'
  BY <1>2, <1>3, <1>4, <1>5 DEF TypeOK, ListsInPlace, BuffersType
<1> QED
  BY <1>2, <1>3, <1>6, <1>7, <1>8 DEF RegistryInv, ListsInPlace

LEMMA RegistryAlways == Spec => [](RegistryInv /\ QuietAgreement)
<1>1. Init => RegistryInv /\ QuietAgreement
  BY RegistryInit
<1>2. RegistryInv /\ QuietAgreement /\ [Next]_vars => (RegistryInv /\ QuietAgreement)'
  BY RegistryNext
<1> QED
  BY <1>1, <1>2, PTL DEF Spec

\* However callers, disconnects and the reader interleave: what is registered
\* is listed and has an open channel, which removeSubscription and Disconnect
\* therefore never close twice, and a reader that walks a slice while it is
\* shifted or appended to finds handlers of its message's channel only.
THEOREM RegistryInvariant == Spec => []RegistryInv
BY RegistryAlways, PTL

\* The map and the handler lists agree: a registered subscription is listed
\* exactly once, under its own channel.
THEOREM RegistryListedOnce == Spec => []RegisteredListedOnce
<1>1. RegistryInv => RegisteredListedOnce
  <2> SUFFICES ASSUME RegistryInv, NEW k \in Keys, subscriptions[k] # NoSub
               PROVE  LET slice == channelHandlers[ChannelOf[k]]
                          at == {i \in 1 .. slice.len : Elem(slice, i) = subscriptions[k]}
                      IN  \E i \in at : at = {i}
    BY DEF RegisteredListedOnce
  <2> DEFINE slice == channelHandlers[ChannelOf[k]]
             at == {i \in 1 .. slice.len : Elem(slice, i) = subscriptions[k]}
  <2>1. ChannelOf[k] \in Channels
    BY RegistryAssumption
  <2>2. PICK i \in 1 .. slice.len : Elem(slice, i) = subscriptions[k]
    BY DEF RegistryInv, RegisteredInPlace, Listed
  <2>3. \A j \in 1 .. slice.len : Elem(slice, i) = Elem(slice, j) => i = j
    BY <2>1, <2>2 DEF RegistryInv, ListedInPlace
  <2>4. i \in at /\ at = {i}
    BY <2>2, <2>3
  <2> QED
    BY <2>4
<1> QED
  BY <1>1, RegistryInvariant, PTL

\* Between calls, a key of its own whose calls neither overlapped nor failed
\* is registered exactly when the server streams it.
THEOREM RegistryQuietAgreement == Spec => []QuietAgreement
BY RegistryAlways, PTL

\* No caller ever closes a Go channel twice: the only step that can panic is
\* the reader's send, to a channel closed since it was picked.
THEOREM RegistryOnlySendPanics == Spec => [][~crashed /\ crashed' => Send]_vars
<1>1. ASSUME RegistryInv, [Next]_vars, ~crashed, crashed' PROVE Send
  <2>1. ListsInPlace /\ RegisteredInPlace /\ CallTypeOK
    BY <1>1 DEF RegistryInv, TypeOK, ListsInPlace
  <2>2. \A c \in Callers : ~Disconnect(c)
    BY <1>1, <2>1, DisconnectLists
  <2>3. \A c \in Callers, k \in Keys : ~Unsubscribe(c, k)
    BY <1>1, <2>1, UnsubscribeSteps DEF Removed
  <2> QED
    BY <1>1, <2>2, <2>3 DEF Next, vars, CallerStep, ReaderStep, Subscribe, CheckExisting, Insert,
       WriteSubscribe, WriteUnsubscribe, ConnectionLost, Connect, Receive, Pick, EndDispatch, Handle
<1>2. RegistryInv /\ [Next]_vars => [~crashed /\ crashed' => Send]_vars
  BY <1>1
<1> QED
  BY <1>2, RegistryInvariant, PTL DEF Spec
=============================================================================
