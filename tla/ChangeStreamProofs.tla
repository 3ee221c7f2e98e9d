--------------------------- MODULE ChangeStreamProofs ---------------------------
(***************************************************************************)
(* The mirror can be believed, and so can the journal that is written from   *)
(* it.                                                                        *)
(*                                                                          *)
(* A reader applies items one at a time, pages are cut anywhere, and the      *)
(* buffer forgets its oldest items.  The invariant (StreamInv) therefore says *)
(* where whole sequences of items lead: what is left of the page and what is  *)
(* behind the cursor leads the reader, and what is behind the baseline leads  *)
(* any reader, to a state that has all the connector knows (End).  A path of  *)
(* items is a function of states, as what a recursive definition computes     *)
(* cannot be reasoned about here.  Each step of the connector is shown to put *)
(* into the buffer what leads a reader at its end to the new end (Brings).    *)
(*                                                                          *)
(* What is recorded in the journal needs more (JournalInv): while a short     *)
(* page is applied the connector goes on, so that its reader comes to what    *)
(* was known when the page was read, not to what is known now.                *)
(***************************************************************************)
EXTENDS ChangeStream, ChangeFeedProofs, FiniteSetTheorems, SequenceTheorems

------------------------------------------------------------------------------
(* Paths: what a sequence of items makes of a reader.                        *)

\* Applied one after the other, the items lead a reader from state r to state q.
Path(r, items, q) ==
    \E h \in [0 .. Len(items) -> ReaderStates] :
        /\ h[0] = r /\ h[Len(items)] = q
        /\ \A k \in 1 .. Len(items) : h[k] = Apply(h[k - 1], items[k])

\* No items lead nowhere.
LEMMA PathNone == ASSUME NEW r \in ReaderStates PROVE Path(r, <<>>, r)
<1> DEFINE h == [k \in 0 .. 0 |-> r]
<1>1. h \in [0 .. 0 -> ReaderStates] /\ h[0] = r  OBVIOUS
<1>2. Len(<<>>) = 0  OBVIOUS
<1> HIDE DEF h
<1>3. QED  BY <1>1, <1>2 DEF Path

\* One item leads to what it does.
LEMMA PathOne ==
    ASSUME NEW r \in ReaderStates, NEW i, Apply(r, i) \in ReaderStates PROVE Path(r, <<i>>, Apply(r, i))
<1> DEFINE h == [k \in 0 .. 1 |-> IF k = 0 THEN r ELSE Apply(r, i)]
<1>1. h \in [0 .. Len(<<i>>) -> ReaderStates] /\ h[0] = r /\ h[1] = Apply(r, i)  OBVIOUS
<1>2. \A k \in 1 .. Len(<<i>>) : k = 1 /\ <<i>>[k] = i  OBVIOUS
<1> HIDE DEF h
<1>3. QED  BY <1>1, <1>2 DEF Path

\* What is applied after a path goes on from where the path ended.
LEMMA PathJoin ==
    ASSUME NEW items \in Seq(Items), NEW more \in Seq(Items), NEW r, NEW q, NEW p,
           Path(r, items, q), Path(q, more, p)
    PROVE  Path(r, items \o more, p)
<1>1. PICK n \in Nat, m \in Nat : n = Len(items) /\ m = Len(more)  BY LenProperties
<1>2. PICK h \in [0 .. n -> ReaderStates] :
          h[0] = r /\ h[n] = q /\ \A k \in 1 .. n : h[k] = Apply(h[k - 1], items[k])
  BY <1>1 DEF Path
<1>3. PICK g \in [0 .. m -> ReaderStates] :
          g[0] = q /\ g[m] = p /\ \A k \in 1 .. m : g[k] = Apply(g[k - 1], more[k])
  BY <1>1 DEF Path
<1>4. /\ Len(items \o more) = n + m
      /\ \A k \in 1 .. n + m : (items \o more)[k] = IF k <= n THEN items[k] ELSE more[k - n]
  BY <1>1, ConcatProperties
<1> DEFINE f == [k \in 0 .. n + m |-> IF k <= n THEN h[k] ELSE g[k - n]]
<1>5. f \in [0 .. n + m -> ReaderStates] /\ f[0] = r /\ f[n + m] = p  BY <1>2, <1>3
<1>8. /\ \A k \in 0 .. n : f[k] = h[k]
      /\ \A k \in n .. n + m : f[k] = g[k - n]
  BY <1>2, <1>3
<1> HIDE DEF f
<1>6. ASSUME NEW k \in 1 .. n + m PROVE f[k] = Apply(f[k - 1], (items \o more)[k])
  <2>1. CASE k <= n
    <3>1. k \in 1 .. n /\ f[k] = h[k] /\ f[k - 1] = h[k - 1]  BY <1>8, <2>1
    <3>2. QED  BY <1>2, <1>4, <2>1, <3>1
  <2>2. CASE k > n
    <3>1. PICK j \in 1 .. m : j = k - n  BY <2>2
    <3>2. k \in n .. n + m /\ k - 1 \in n .. n + m /\ (k - 1) - n = j - 1  BY <2>2, <3>1
    <3>3. f[k] = g[j] /\ f[k - 1] = g[j - 1]  BY <1>8, <3>1, <3>2
    <3>4. (items \o more)[k] = more[j]  BY <1>4, <2>2, <3>1
    <3>5. g[j] = Apply(g[j - 1], more[j])  BY <1>3
    <3>6. QED  BY <3>3, <3>4, <3>5
  <2>3. k <= n \/ k > n  OBVIOUS
  <2>4. QED  BY <2>1, <2>2, <2>3, Zenon
<1>7. QED  BY <1>4, <1>5, <1>6 DEF Path

\* Every path goes through a state between two parts of its items.
LEMMA PathSplit ==
    ASSUME NEW items \in Seq(Items), NEW more \in Seq(Items), NEW r, NEW q, Path(r, items \o more, q)
    PROVE  \E m \in ReaderStates : Path(r, items, m) /\ Path(m, more, q)
<1>1. PICK n \in Nat, m \in Nat : n = Len(items) /\ m = Len(more)  BY LenProperties
<1>2. /\ Len(items \o more) = n + m
      /\ \A k \in 1 .. n + m : (items \o more)[k] = IF k <= n THEN items[k] ELSE more[k - n]
  BY <1>1, ConcatProperties
<1>3. PICK f \in [0 .. n + m -> ReaderStates] :
          f[0] = r /\ f[n + m] = q /\ \A k \in 1 .. n + m : f[k] = Apply(f[k - 1], (items \o more)[k])
  BY <1>2 DEF Path
<1> DEFINE h == [k \in 0 .. n |-> f[k]]
           g == [k \in 0 .. m |-> f[n + k]]
<1>4. h \in [0 .. n -> ReaderStates] /\ h[0] = r /\ h[n] = f[n] /\ f[n] \in ReaderStates  BY <1>3
<1>5. g \in [0 .. m -> ReaderStates] /\ g[0] = f[n] /\ g[m] = q
  <2>1. \A k \in 0 .. m : n + k \in 0 .. n + m  OBVIOUS
  <2>2. QED  BY <1>3, <2>1
<1>11. \A k \in 0 .. n : h[k] = f[k]  OBVIOUS
<1>12. \A k \in 0 .. m : g[k] = f[n + k]  OBVIOUS
<1> HIDE DEF h, g
<1>6. ASSUME NEW k \in 1 .. n PROVE h[k] = Apply(h[k - 1], items[k])
  <2>1. k \in 1 .. n + m /\ (items \o more)[k] = items[k] /\ k \in 0 .. n /\ k - 1 \in 0 .. n  BY <1>2
  <2>2. h[k] = f[k] /\ h[k - 1] = f[k - 1]  BY <1>11, <2>1
  <2>3. QED  BY <1>3, <2>1, <2>2
<1>7. ASSUME NEW k \in 1 .. m PROVE g[k] = Apply(g[k - 1], more[k])
  <2>1. n + k \in 1 .. n + m /\ (n + k) - n = k /\ (n + k) - 1 = n + (k - 1) /\ ~(n + k <= n)
        /\ k \in 0 .. m /\ k - 1 \in 0 .. m
    OBVIOUS
  <2>2. (items \o more)[n + k] = more[k]  BY <1>2, <2>1
  <2>3. f[n + k] = Apply(f[(n + k) - 1], (items \o more)[n + k])  BY <1>3, <2>1
  <2>4. g[k] = f[n + k] /\ g[k - 1] = f[n + (k - 1)]  BY <1>12, <2>1
  <2>5. QED  BY <2>1, <2>2, <2>3, <2>4
<1>8. Path(r, items, f[n])  BY <1>1, <1>4, <1>6 DEF Path
<1>9. Path(f[n], more, q)  BY <1>1, <1>5, <1>7 DEF Path
<1>10. QED  BY <1>4, <1>8, <1>9

\* A reader that applied the first item goes on along its path.
LEMMA PathGoesOn ==
    ASSUME NEW items \in Seq(Items), items # <<>>, NEW r, NEW q, Path(r, items, q)
    PROVE  Path(Apply(r, Head(items)), Tail(items), q) /\ Apply(r, Head(items)) \in ReaderStates
<1>1. /\ Head(items) \in Items /\ Tail(items) \in Seq(Items) /\ <<Head(items)>> \in Seq(Items)
      /\ items = <<Head(items)>> \o Tail(items)
  <2>1. Head(items) \in Items /\ Tail(items) \in Seq(Items) /\ <<Head(items)>> \in Seq(Items)
    BY HeadTailProperties
  <2>2. items = <<Head(items)>> \o Tail(items)  OBVIOUS
  <2>3. QED  BY <2>1, <2>2
<1>2. PICK m \in ReaderStates : Path(r, <<Head(items)>>, m) /\ Path(m, Tail(items), q)
  BY <1>1, PathSplit
<1>3. m = Apply(r, Head(items))
  <2>1. Len(<<Head(items)>>) = 1 /\ <<Head(items)>>[1] = Head(items)  OBVIOUS
  <2>2. QED  BY <1>2, <2>1 DEF Path
<1>4. QED  BY <1>2, <1>3

------------------------------------------------------------------------------
(* The buffer: which items are kept, and where a position is after some were dropped. *)

\* The library's maximum, for the two numbers the buffer compares.
LEMMA MaxOfTwo == ASSUME NEW a \in Int, NEW b \in Int PROVE Max({a, b}) = IF a >= b THEN a ELSE b
  BY DEF Max

\* The library's minimum, for the two numbers a page is cut at.
LEMMA MinOfTwo == ASSUME NEW a \in Int, NEW b \in Int PROVE Min({a, b}) = IF a <= b THEN a ELSE b
  BY DEF Min

\* How many of a number of items are dropped.
Dropped(n) == IF n > BufferLen THEN n - BufferLen ELSE 0

\* What is kept of some items are the last ones, as many as the buffer holds.
LEMMA KeptItems ==
    ASSUME NEW all \in Seq(Items)
    PROVE  /\ Dropped(Len(all)) \in 0 .. Len(all)
           /\ Kept(all) \in Seq(Items) /\ Len(Kept(all)) = Len(all) - Dropped(Len(all))
           /\ Len(Kept(all)) <= BufferLen
           /\ \A i \in 1 .. Len(Kept(all)) : Kept(all)[i] = all[Dropped(Len(all)) + i]
<1>1. PICK n \in Nat : n = Len(all)  BY LenProperties
<1>2. BufferLen \in Nat  BY BufferAssumption
<1>3. PICK d \in 0 .. n : d = Dropped(n) /\ n - d <= BufferLen
  <2>1. Dropped(n) \in 0 .. n /\ n - Dropped(n) <= BufferLen  BY <1>2 DEF Dropped
  <2>2. QED  BY <2>1
<1>4. Max({1, n - BufferLen + 1}) = d + 1
  <2>1. n - BufferLen + 1 \in Int  BY <1>2
  <2>2. Max({1, n - BufferLen + 1}) = IF 1 >= n - BufferLen + 1 THEN 1 ELSE n - BufferLen + 1
    BY <2>1, MaxOfTwo
  <2>3. QED  BY <1>2, <1>3, <2>2 DEF Dropped
<1>5. Kept(all) = SubSeq(all, d + 1, n)  BY <1>1, <1>4 DEF Kept
<1>6. \A i \in d + 1 .. n : all[i] \in Items  BY <1>1, ElementOfSeq
<1>7. /\ SubSeq(all, d + 1, n) \in Seq(Items)
      /\ Len(SubSeq(all, d + 1, n)) = n - d
      /\ \A i \in 1 .. n - d : SubSeq(all, d + 1, n)[i] = all[d + i]
  <2>1. d + 1 \in Int /\ n \in Int /\ n - (d + 1) + 1 = n - d /\ (d + 1 <= n \/ n - d = 0)  OBVIOUS
  <2>2. \A i \in 1 .. n - d : (d + 1) + i - 1 = d + i  OBVIOUS
  <2>3. /\ SubSeq(all, d + 1, n) \in Seq(Items)
        /\ Len(SubSeq(all, d + 1, n)) = IF d + 1 <= n THEN n - (d + 1) + 1 ELSE 0
        /\ \A i \in 1 .. n - (d + 1) + 1 : SubSeq(all, d + 1, n)[i] = all[(d + 1) + i - 1]
    BY <1>6, <2>1, SubSeqProperties
  <2>4. QED  BY <2>1, <2>2, <2>3
<1>8. QED  BY <1>1, <1>3, <1>5, <1>7

\* The items of b after position p.
After(b, p) == SubSeq(b, p + 1, Len(b))

\* The items after a position are those the buffer has behind it.
LEMMA AfterItems ==
    ASSUME NEW b \in Seq(Items), NEW p \in 0 .. Len(b)
    PROVE  /\ After(b, p) \in Seq(Items) /\ Len(After(b, p)) = Len(b) - p
           /\ \A i \in 1 .. Len(b) - p : After(b, p)[i] = b[p + i]
<1>1. PICK n \in Nat : n = Len(b)  BY LenProperties
<1>2. p + 1 \in Int /\ n - (p + 1) + 1 = n - p /\ (p + 1 <= n \/ n - p = 0)  BY <1>1
<1>3. \A i \in 1 .. n - p : (p + 1) + i - 1 = p + i  BY <1>1
<1>4. \A i \in p + 1 .. n : b[i] \in Items  BY <1>1, ElementOfSeq
<1>5. /\ SubSeq(b, p + 1, n) \in Seq(Items)
      /\ Len(SubSeq(b, p + 1, n)) = IF p + 1 <= n THEN n - (p + 1) + 1 ELSE 0
      /\ \A i \in 1 .. n - (p + 1) + 1 : SubSeq(b, p + 1, n)[i] = b[(p + 1) + i - 1]
  BY <1>1, <1>2, <1>4, SubSeqProperties
<1>6. QED  BY <1>1, <1>2, <1>3, <1>5 DEF After

\* What is appended comes after what was in front of a position that is kept.
LEMMA AfterPut ==
    ASSUME buf \in Seq(Items), NEW items \in Seq(Items), NEW p \in 0 .. Len(buf),
           Dropped(Len(buf \o items)) <= p
    PROVE  /\ p - Dropped(Len(buf \o items)) \in 0 .. Len(Kept(buf \o items))
           /\ After(Kept(buf \o items), p - Dropped(Len(buf \o items))) = After(buf, p) \o items
<1>1. PICK n \in Nat, m \in Nat : n = Len(buf) /\ m = Len(items)  BY LenProperties
<1>2. /\ buf \o items \in Seq(Items) /\ Len(buf \o items) = n + m
      /\ \A i \in 1 .. n + m : (buf \o items)[i] = IF i <= n THEN buf[i] ELSE items[i - n]
  BY <1>1, ConcatProperties
<1>3. PICK all \in Seq(Items) : all = buf \o items  BY <1>2
<1>14. p \in Nat /\ p <= n  BY <1>1
<1>4. PICK d \in Nat : d = Dropped(n + m) /\ d <= p /\ d <= n + m
  <2>1. Dropped(n + m) \in 0 .. n + m  BY <1>2, <1>3, KeptItems
  <2>2. Dropped(n + m) <= p  BY <1>2
  <2>3. QED  BY <2>1, <2>2
<1>5. PICK kept \in Seq(Items), w \in Nat :
          /\ kept = Kept(all) /\ w = n + m - d /\ Len(kept) = w
          /\ \A i \in 1 .. w : kept[i] = all[d + i]
  <2>1. PICK w \in Nat : w = n + m - d  BY <1>4
  <2>2. Len(all) = n + m  BY <1>2, <1>3
  <2>3. /\ Kept(all) \in Seq(Items) /\ Len(Kept(all)) = Len(all) - Dropped(Len(all))
        /\ \A i \in 1 .. Len(Kept(all)) : Kept(all)[i] = all[Dropped(Len(all)) + i]
    BY KeptItems
  <2>4. Dropped(Len(all)) = d /\ Len(all) - Dropped(Len(all)) = w  BY <1>4, <2>1, <2>2
  <2>5. Kept(all) \in Seq(Items) /\ Len(Kept(all)) = w /\ \A i \in 1 .. w : Kept(all)[i] = all[d + i]
    BY <2>3, <2>4, Zenon
  <2>6. QED  BY <2>1, <2>5
<1>6. PICK e \in Nat, v \in Nat, u \in Nat :
          e = p - d /\ e <= w /\ v = w - e /\ v = n + m - p /\ u = n - p /\ u + m = v
  <2>1. p - d \in Nat /\ w - (p - d) \in Nat /\ w - (p - d) = n + m - p /\ n - p \in Nat
        /\ (n - p) + m = n + m - p /\ p - d <= w
    BY <1>4, <1>5, <1>14
  <2>2. QED  BY <2>1
<1>7. /\ After(kept, e) \in Seq(Items) /\ Len(After(kept, e)) = v
      /\ \A i \in 1 .. v : After(kept, e)[i] = kept[e + i]
  <2>1. e \in 0 .. Len(kept) /\ Len(kept) - e = v  BY <1>5, <1>6
  <2>2. /\ After(kept, e) \in Seq(Items) /\ Len(After(kept, e)) = Len(kept) - e
        /\ \A i \in 1 .. Len(kept) - e : After(kept, e)[i] = kept[e + i]
    BY <2>1, AfterItems
  <2>3. QED  BY <2>1, <2>2, Zenon
<1>8. PICK front \in Seq(Items) :
          front = After(buf, p) /\ Len(front) = u /\ \A i \in 1 .. u : front[i] = buf[p + i]
  <2>1. Len(buf) - p = u  BY <1>1, <1>6
  <2>2. /\ After(buf, p) \in Seq(Items) /\ Len(After(buf, p)) = Len(buf) - p
        /\ \A i \in 1 .. Len(buf) - p : After(buf, p)[i] = buf[p + i]
    BY AfterItems
  <2>3. QED  BY <2>1, <2>2
<1>9. /\ front \o items \in Seq(Items) /\ Len(front \o items) = v
      /\ \A i \in 1 .. v : (front \o items)[i] = IF i <= u THEN front[i] ELSE items[i - u]
  <2>1. /\ front \o items \in Seq(Items) /\ Len(front \o items) = u + m
        /\ \A i \in 1 .. u + m : (front \o items)[i] = IF i <= u THEN front[i] ELSE items[i - u]
    <3>1. /\ front \o items \in Seq(Items) /\ Len(front \o items) = Len(front) + Len(items)
          /\ \A i \in 1 .. Len(front) + Len(items) :
                 (front \o items)[i] = IF i <= Len(front) THEN front[i] ELSE items[i - Len(front)]
      BY ConcatProperties
    <3>2. Len(front) = u /\ Len(items) = m  BY <1>1, <1>8
    <3>3. QED  BY <3>1, <3>2, Zenon
  <2>2. QED  BY <1>6, <2>1
<1>10. ASSUME NEW i \in 1 .. v PROVE After(kept, e)[i] = (front \o items)[i]
  <2>1. PICK k \in 1 .. n + m : k = p + i  BY <1>14, <1>6
  <2>2. e + i \in 1 .. w /\ d + (e + i) = k
    <3>1. i \in Nat /\ i >= 1 /\ i <= w - e  BY <1>6
    <3>2. e + i \in 1 .. w  BY <3>1
    <3>3. d + (p - d) = p  BY <1>4, <1>14
    <3>4. d + e = p  BY <1>6, <3>3
    <3>5. d + (e + i) = p + i  BY <3>1, <3>4
    <3>6. QED  BY <2>1, <3>2, <3>5
  <2>3. After(kept, e)[i] = all[k]  BY <1>5, <1>7, <2>2
  <2>4. CASE i <= u
    <3>1. k <= n /\ i \in 1 .. u  BY <1>6, <1>14, <2>1, <2>4
    <3>2. all[k] = buf[k]  BY <1>2, <1>3, <3>1
    <3>3. (front \o items)[i] = front[i]  BY <1>9, <2>4
    <3>4. front[i] = buf[k]  BY <1>8, <2>1, <3>1
    <3>5. QED  BY <2>3, <3>2, <3>3, <3>4, Zenon
  <2>5. CASE i > u
    <3>1. ~(k <= n) /\ ~(i <= u) /\ k - n = i - u  BY <1>6, <1>14, <2>1, <2>5
    <3>2. all[k] = items[k - n]  BY <1>2, <1>3, <3>1
    <3>3. (front \o items)[i] = items[i - u]  BY <1>9, <3>1
    <3>4. QED  BY <2>3, <3>1, <3>2, <3>3, Zenon
  <2>6. i <= u \/ i > u  BY <1>6
  <2>7. QED  BY <2>4, <2>5, <2>6, Zenon
<1>11. After(kept, e) = front \o items
  <2>1. Len(After(kept, e)) = Len(front \o items)  BY <1>7, <1>9
  <2>2. QED  BY <1>7, <1>9, <1>10, <2>1, SeqEqual
<1>12. Len(buf \o items) = n + m /\ Dropped(Len(buf \o items)) = d  BY <1>2, <1>4
<1>15. After(Kept(buf \o items), p - Dropped(Len(buf \o items))) = After(buf, p) \o items
  BY <1>3, <1>5, <1>6, <1>8, <1>11, <1>12, Zenon
<1>16. p - Dropped(Len(buf \o items)) \in 0 .. Len(Kept(buf \o items))
  BY <1>3, <1>5, <1>6, <1>12
<1>13. QED  BY <1>15, <1>16

\* A position moves back by what was dropped in front of it.
LEMMA MovedPosition ==
    ASSUME buf \in Seq(Items), NEW items \in Seq(Items), NEW p \in Nat
    PROVE  Moved(p, items) = IF Dropped(Len(buf \o items)) <= p THEN p - Dropped(Len(buf \o items)) ELSE -1
<1>1. PICK all \in Seq(Items) : all = buf \o items  BY ConcatProperties
<1>2. PICK n \in Nat : n = Len(all)  BY LenProperties
<1>3. PICK d \in Nat : d = Dropped(n) /\ Len(all) - Len(Kept(all)) = d
  <2>1. Dropped(Len(all)) \in 0 .. Len(all) /\ Len(Kept(all)) = Len(all) - Dropped(Len(all))  BY KeptItems
  <2>2. Dropped(n) \in Nat /\ n - (n - Dropped(n)) = Dropped(n)  BY <1>2, <2>1
  <2>3. QED  BY <1>2, <2>1, <2>2
<1>4. Max({-1, p - d}) = IF -1 >= p - d THEN -1 ELSE p - d  BY MaxOfTwo
<1>5. Moved(p, items) = Max({-1, p - d})  BY <1>1, <1>3 DEF Moved
<1>6. Dropped(Len(buf \o items)) = d  BY <1>1, <1>2, <1>3
<1>7. QED  BY <1>4, <1>5, <1>6

\* A reader whose cursor stays in the buffer is still to be given what it was, and what is new.
LEMMA CursorMoves ==
    ASSUME buf \in Seq(Items), NEW items \in Seq(Items), NEW c \in {NoCursor, OldEpoch} \cup (-1 .. Len(buf))
    PROVE  /\ Moved(c, items) \in {NoCursor, OldEpoch} \cup (-1 .. Len(Kept(buf \o items)))
           /\ ~NeedsBaseline(Moved(c, items)) =>
                  /\ ~NeedsBaseline(c) /\ c \in 0 .. Len(buf)
                  /\ Moved(c, items) \in 0 .. Len(Kept(buf \o items))
                  /\ After(Kept(buf \o items), Moved(c, items)) = After(buf, c) \o items
<1>1. Len(buf) \in Nat  BY LenProperties
<1>2. PICK k \in Nat : k = Len(Kept(buf \o items))
  <2>1. buf \o items \in Seq(Items)  BY ConcatProperties
  <2>2. Kept(buf \o items) \in Seq(Items)  BY <2>1, KeptItems
  <2>3. QED  BY <2>2, LenProperties
<1>3. CASE c \in {NoCursor, OldEpoch, -1}
  <2>1. c \notin Nat  BY <1>3, CursorAssumption
  <2>2. Moved(c, items) = c  BY <2>1 DEF Moved
  <2>3. NeedsBaseline(Moved(c, items))  BY <1>3, <2>2 DEF NeedsBaseline
  <2>4. c \in {NoCursor, OldEpoch} \cup (-1 .. k)  BY <1>3
  <2>5. QED  BY <1>2, <2>2, <2>3, <2>4
<1>4. CASE c \in 0 .. Len(buf)
  <2>1. c \in Nat /\ ~NeedsBaseline(c)  BY <1>1, <1>4, CursorAssumption DEF NeedsBaseline
  <2>2. PICK d \in Nat : d = Dropped(Len(buf \o items))
    <3>1. buf \o items \in Seq(Items)  BY ConcatProperties
    <3>2. Dropped(Len(buf \o items)) \in 0 .. Len(buf \o items)  BY <3>1, KeptItems
    <3>3. Len(buf \o items) \in Nat  BY <3>1, LenProperties
    <3>4. QED  BY <3>2, <3>3
  <2>3. Moved(c, items) = IF d <= c THEN c - d ELSE -1  BY <2>1, <2>2, MovedPosition
  <2>4. CASE d <= c
    <3>1. /\ c - d \in 0 .. Len(Kept(buf \o items))
          /\ After(Kept(buf \o items), c - d) = After(buf, c) \o items
      BY <1>4, <2>2, <2>4, AfterPut
    <3>2. Moved(c, items) = c - d  BY <2>3, <2>4
    <3>3. c - d \in -1 .. k  BY <1>2, <3>1
    <3>4. QED  BY <1>2, <1>4, <2>1, <3>1, <3>2, <3>3
  <2>5. CASE ~(d <= c)
    <3>1. Moved(c, items) = -1  BY <2>3, <2>5
    <3>2. -1 \in -1 .. k  OBVIOUS
    <3>3. QED  BY <1>2, <3>1, <3>2 DEF NeedsBaseline
  <2>6. QED  BY <2>4, <2>5
<1>5. c \in {NoCursor, OldEpoch, -1} \/ c \in 0 .. Len(buf)  BY <1>1
<1>6. QED  BY <1>3, <1>4, <1>5

\* No global snapshot begins among the items.
Quiet(items) == \A i \in 1 .. Len(items) : items[i] # Begin(Cluster)

\* Among quiet items there is no begin of a global snapshot.
LEMMA QuietItems == ASSUME NEW items \in Seq(Items), Quiet(items) PROVE Begin(Cluster) \notin ToSet(items)
<1>1. DOMAIN items = 1 .. Len(items)  BY LenProperties
<1>2. QED  BY <1>1 DEF Quiet, ToSet

\* Quiet items after quiet ones are quiet.
LEMMA QuietJoin ==
    ASSUME NEW items \in Seq(Items), NEW more \in Seq(Items), Quiet(items), Quiet(more)
    PROVE  Quiet(items \o more)
<1>1. PICK n \in Nat, m \in Nat : n = Len(items) /\ m = Len(more)  BY LenProperties
<1>2. /\ Len(items \o more) = n + m
      /\ \A i \in 1 .. n + m : (items \o more)[i] = IF i <= n THEN items[i] ELSE more[i - n]
  BY <1>1, ConcatProperties
<1>3. ASSUME NEW i \in 1 .. n + m PROVE (items \o more)[i] # Begin(Cluster)
  <2>1. CASE i <= n
    <3>1. i \in 1 .. n  BY <2>1
    <3>2. QED  BY <1>1, <1>2, <2>1, <3>1 DEF Quiet
  <2>2. CASE ~(i <= n)
    <3>1. i - n \in 1 .. m  BY <2>2
    <3>2. QED  BY <1>1, <1>2, <2>2, <3>1 DEF Quiet
  <2>3. QED  BY <2>1, <2>2
<1>4. QED  BY <1>2, <1>3 DEF Quiet

\* An item that is not the begin of a global snapshot is quiet.
LEMMA QuietOne == ASSUME NEW i, i # Begin(Cluster) PROVE Quiet(<<i>>)
  BY DEF Quiet

\* The buffer keeps to its bound, and a baseline that is still in it begins where it began.
LEMMA BaseMoves ==
    ASSUME buf \in Seq(Items), NEW items \in Seq(Items), base \in 0 .. Len(buf), Quiet(items), Buffer(items)
    PROVE  /\ buf' \in Seq(Items) /\ Len(buf') <= BufferLen /\ base' \in 0 .. Len(buf')
           /\ base' # 0 => /\ base # 0 /\ base - 1 \in 0 .. Len(buf) /\ base' - 1 \in 0 .. Len(buf')
                           /\ After(buf', base' - 1) = After(buf, base - 1) \o items
<1>1. Len(buf) \in Nat  BY LenProperties
<1>2. PICK all \in Seq(Items) : all = buf \o items  BY ConcatProperties
<1>3. PICK d \in Nat : d = Dropped(Len(all))
  <2>1. Dropped(Len(all)) \in 0 .. Len(all)  BY KeptItems
  <2>2. Len(all) \in Nat  BY LenProperties
  <2>3. QED  BY <2>1, <2>2
<1>4. buf' = Kept(all) /\ base' = Max({0, Moved(base, items)})  BY <1>2, QuietItems DEF Buffer
<1>5. buf' \in Seq(Items) /\ Len(buf') <= BufferLen  BY <1>4, KeptItems
<1>6. PICK k \in Nat : k = Len(buf')  BY <1>5, LenProperties
<1>7. base \in Nat  BY <1>1
<1>8. Moved(base, items) = IF d <= base THEN base - d ELSE -1  BY <1>2, <1>3, <1>7, MovedPosition
<1>9. base' = IF d <= base THEN base - d ELSE 0
  <2>1. CASE d <= base
    <3>1. Max({0, base - d}) = IF 0 >= base - d THEN 0 ELSE base - d  BY <1>7, MaxOfTwo
    <3>2. QED  BY <1>4, <1>7, <1>8, <2>1, <3>1
  <2>2. CASE ~(d <= base)
    <3>1. Max({0, -1}) = 0  BY MaxOfTwo
    <3>2. QED  BY <1>4, <1>8, <2>2, <3>1
  <2>3. QED  BY <2>1, <2>2
<1>10. CASE base' = 0
  BY <1>5, <1>6, <1>10
<1>11. CASE base' # 0
  <2>1. d <= base - 1 /\ base' = base - d /\ base # 0  BY <1>7, <1>9, <1>11
  <2>2. PICK p \in 0 .. Len(buf) : p = base - 1 /\ p \in Nat  BY <1>1, <1>7, <2>1
  <2>3. p - d \in 0 .. Len(buf') /\ After(buf', p - d) = After(buf, p) \o items
    <3>1. Dropped(Len(buf \o items)) = d /\ d <= p /\ Kept(buf \o items) = buf'  BY <1>2, <1>3, <1>4, <2>1, <2>2
    <3>2. /\ p - Dropped(Len(buf \o items)) \in 0 .. Len(Kept(buf \o items))
          /\ After(Kept(buf \o items), p - Dropped(Len(buf \o items))) = After(buf, p) \o items
      BY <3>1, AfterPut
    <3>3. QED  BY <3>1, <3>2
  <2>4. base' - 1 = p - d  BY <1>7, <2>1, <2>2
  <2>5. base' \in 0 .. Len(buf')
    <3>2. Len(buf') = Len(all) - d  BY <1>3, <1>4, KeptItems
    <3>3. PICK n \in Nat, m \in Nat : n = Len(buf) /\ m = Len(items) /\ Len(all) = n + m
      BY <1>2, LenProperties, ConcatProperties
    <3>4. base <= n  BY <3>3
    <3>5. k = n + m - d  BY <1>6, <3>2, <3>3
    <3>6. base - d \in 0 .. k  BY <1>7, <2>1, <3>4, <3>5
    <3>7. QED  BY <1>6, <2>1, <3>6
  <2>6. QED  BY <1>5, <2>1, <2>2, <2>3, <2>4, <2>5
<1>12. QED  BY <1>10, <1>11

\* A global snapshot that fits into the buffer is the baseline from now on.
LEMMA BaseBegins ==
    ASSUME buf \in Seq(Items), NEW items \in Seq(Items), Begin(Cluster) \in ToSet(items),
           Len(items) <= BufferLen, Buffer(items)
    PROVE  /\ buf' \in Seq(Items) /\ Len(buf') <= BufferLen /\ base' \in 0 .. Len(buf') /\ base' # 0
           /\ base' - 1 \in 0 .. Len(buf') /\ After(buf', base' - 1) = items
<1>1. PICK n \in Nat, m \in Nat : n = Len(buf) /\ m = Len(items)  BY LenProperties
<1>2. PICK all \in Seq(Items) : all = buf \o items /\ Len(all) = n + m  BY <1>1, ConcatProperties
<1>3. BufferLen \in Nat  BY BufferAssumption
<1>4. PICK d \in Nat : d = Dropped(Len(all)) /\ d <= n
  <2>1. Dropped(n + m) \in Nat /\ Dropped(n + m) <= n  BY <1>1, <1>3 DEF Dropped
  <2>2. QED  BY <1>2, <2>1
<1>5. buf' = Kept(all) /\ base' = Moved(n + 1, items)  BY <1>1, <1>2 DEF Buffer
<1>6. buf' \in Seq(Items) /\ Len(buf') <= BufferLen /\ Len(buf') = n + m - d
  <2>1. /\ Kept(all) \in Seq(Items) /\ Len(Kept(all)) <= BufferLen
        /\ Len(Kept(all)) = Len(all) - Dropped(Len(all))
    BY KeptItems
  <2>2. Len(all) - Dropped(Len(all)) = n + m - d  BY <1>2, <1>4
  <2>3. QED  BY <1>5, <2>1, <2>2
<1>7. base' = n + 1 - d
  <2>1. n + 1 \in Nat  OBVIOUS
  <2>2. Moved(n + 1, items) = IF d <= n + 1 THEN n + 1 - d ELSE -1  BY <1>2, <1>4, <2>1, MovedPosition
  <2>3. QED  BY <1>4, <1>5, <2>2
<1>8. m # 0
  <2>1. DOMAIN items = 1 .. m  BY <1>1, LenProperties
  <2>2. QED  BY <2>1 DEF ToSet
<1>9. base' - 1 = n - d /\ base' # 0 /\ base' \in 0 .. n + m - d /\ base' - 1 \in 0 .. n + m - d
  BY <1>4, <1>7, <1>8
<1>10. After(buf', n - d) = After(buf, n) \o items
  <2>1. n \in 0 .. Len(buf) /\ Dropped(Len(buf \o items)) = d  BY <1>1, <1>2, <1>4
  <2>2. After(Kept(buf \o items), n - Dropped(Len(buf \o items))) = After(buf, n) \o items
    BY <1>4, <2>1, AfterPut
  <2>3. QED  BY <1>2, <1>5, <2>1, <2>2
<1>11. After(buf, n) = <<>>
  <2>1. n \in 0 .. Len(buf) /\ Len(buf) - n = 0  BY <1>1
  <2>2. After(buf, n) \in Seq(Items) /\ Len(After(buf, n)) = Len(buf) - n  BY <2>1, AfterItems
  <2>3. QED  BY <2>1, <2>2, EmptySeq
<1>12. <<>> \o items = items  BY ConcatEmptySeq
<1>13. QED  BY <1>6, <1>9, <1>10, <1>11, <1>12

------------------------------------------------------------------------------
(* Items: which there are, and what each does to a reader.                    *)

\* The elements of a finite set, in some order.
LEMMA InSomeOrder ==
    ASSUME NEW S, IsFiniteSet(S)
    PROVE  /\ Cardinality(S) \in Nat
           /\ SetToSeq(S) \in [1 .. Cardinality(S) -> S]
           /\ \A x \in S : \E i \in 1 .. Cardinality(S) : SetToSeq(S)[i] = x
<1>1. PICK n \in Nat : n = Cardinality(S)  BY FS_CardinalityType
<1>2. IsFiniteSet(1 .. n) /\ Cardinality(1 .. n) = n  BY FS_Interval
<1>3. \E f \in [1 .. n -> S] : IsInjective(f)
  <2>1. Bijection(1 .. n, S) # {}  BY <1>1, FS_CardinalityType DEF ExistsBijection
  <2>2. QED  BY <2>1 DEF Bijection, Injection
<1>4. SetToSeq(S) \in [1 .. n -> S] /\ IsInjective(SetToSeq(S))  BY <1>1, <1>3 DEF SetToSeq
<1>5. SetToSeq(S) \in Injection(1 .. n, S)  BY <1>4 DEF Injection
<1>6. SetToSeq(S) \in Surjection(1 .. n, S)  BY <1>1, <1>2, <1>5, FS_Injection
<1>7. QED  BY <1>1, <1>4, <1>6 DEF Surjection

\* There are finitely many scopes, so that their objects can be put into some order.
LEMMA FiniteScopes == ASSUME NEW S \in SUBSET Scopes PROVE IsFiniteSet(S)
  BY FiniteAssumption, FS_Subset

\* Every item the connector makes is one of Items.
LEMMA ItemTypes ==
    /\ \A s \in Scopes \cup {Cluster} : Begin(s) \in Items
    /\ \A s \in Scopes, b \in Nat : Object(s, b) \in Items
    /\ \A s \in Scopes : Deleted(s) \in Items
    /\ \A s \in Scopes \cup {Cluster}, r \in Reasons : Gap(s, r) \in Items
    /\ Heartbeat \in Items
    /\ \A s \in Scopes \cup {Cluster}, b \in BOOLEAN, c \in SUBSET Scopes : Status(s, b, c) \in Items
  BY DEF Begin, Object, Deleted, Gap, Heartbeat, Status, Items

\* An item of Items is of one of the kinds Apply tells apart.
LEMMA ItemKinds ==
    ASSUME NEW i \in Items
    PROVE  \/ i.kind = "begin" /\ i.scope \in Scopes \cup {Cluster}
           \/ i.kind = "deleted" /\ i.scope \in Scopes \cup {Cluster}
           \/ i.kind = "heartbeat"
           \/ i.kind = "object" /\ i.scope \in Scopes /\ i.body \in Nat
           \/ i.kind = "gap" /\ i.scope \in Scopes \cup {Cluster}
           \/ /\ i.kind = "status" /\ i.scope \in Scopes \cup {Cluster}
              /\ i.snapshot \in BOOLEAN /\ i.completed \in SUBSET Scopes
  BY DEF Items

\* The fields of a reader.
LEMMA ReaderFields ==
    ASSUME NEW r \in ReaderStates
    PROVE  /\ r.mirror \in [Scopes -> Nat] /\ r.completed \in SUBSET Scopes /\ r.gapped \in SUBSET Scopes
           /\ r.ready \in BOOLEAN /\ r.blocked \in BOOLEAN
           /\ r.staging # NoStaging => r.staging \in [Scopes -> Nat]
           /\ r.relisting # NoStaging => r.relisting \in [scope : Scopes, body : Nat]
  BY DEF ReaderStates

\* A reader with a field replaced by a value of its kind is a reader.
LEMMA ReaderUpdates ==
    ASSUME NEW r \in ReaderStates
    PROVE  /\ \A m \in [Scopes -> Nat] : [r EXCEPT !.mirror = m] \in ReaderStates
           /\ \A m \in [Scopes -> Nat] : [r EXCEPT !.staging = m] \in ReaderStates
           /\ \A m \in [scope : Scopes, body : Nat] : [r EXCEPT !.relisting = m] \in ReaderStates
           /\ \A m \in SUBSET Scopes : [r EXCEPT !.gapped = m] \in ReaderStates
           /\ \A m \in BOOLEAN : [r EXCEPT !.ready = m] \in ReaderStates /\ [r EXCEPT !.blocked = m] \in ReaderStates
           /\ \A m \in [Scopes -> Nat], g \in SUBSET Scopes :
                 [r EXCEPT !.staging = m, !.gapped = g, !.relisting = NoStaging] \in ReaderStates
  BY DEF ReaderStates

\* An item leaves a reader in a state it can be in.
LEMMA ApplyType == ASSUME NEW r \in ReaderStates, NEW i \in Items PROVE Apply(r, i) \in ReaderStates
<1>1. CASE i.kind = "begin" /\ i.scope \in Scopes \cup {Cluster}
  <2>1. Apply(r, i) = ApplyBegin(r, i)  BY <1>1 DEF Apply
  <2>2. CASE i.scope = Cluster
    <3>1. Apply(r, i) = [r EXCEPT !.staging = [s \in Scopes |-> 0], !.gapped = {}, !.relisting = NoStaging]
      BY <2>1, <2>2 DEF ApplyBegin
    <3>2. PICK m \in [Scopes -> Nat], g \in SUBSET Scopes : m = [s \in Scopes |-> 0] /\ g = {}  OBVIOUS
    <3>3. Apply(r, i) = [r EXCEPT !.staging = m, !.gapped = g, !.relisting = NoStaging]  BY <3>1, <3>2
    <3>4. [r EXCEPT !.staging = m, !.gapped = g, !.relisting = NoStaging] \in ReaderStates  BY ReaderUpdates
    <3>5. QED  BY <3>3, <3>4
  <2>3. CASE i.scope # Cluster
    <3>1. Apply(r, i) = [r EXCEPT !.relisting = [scope |-> i.scope, body |-> 0]]  BY <2>1, <2>3 DEF ApplyBegin
    <3>2. [scope |-> i.scope, body |-> 0] \in [scope : Scopes, body : Nat]  BY <1>1, <2>3
    <3>3. [r EXCEPT !.relisting = [scope |-> i.scope, body |-> 0]] \in ReaderStates  BY <3>2, ReaderUpdates
    <3>4. QED  BY <3>1, <3>3
  <2>4. QED  BY <2>2, <2>3
<1>2. CASE i.kind = "deleted" /\ i.scope \in Scopes \cup {Cluster}
  <2>1. Apply(r, i) = [r EXCEPT !.mirror[i.scope] = 0]  BY <1>2 DEF Apply
  <2>2. QED  BY <1>2, <2>1 DEF ReaderStates
<1>3. CASE i.kind = "heartbeat"
  BY <1>3 DEF Apply
<1>4. CASE i.kind = "object" /\ i.scope \in Scopes /\ i.body \in Nat
  <2>1. Apply(r, i) = ApplyObject(r, i)  BY <1>4 DEF Apply
  <2>2. [r.mirror EXCEPT ![i.scope] = i.body] \in [Scopes -> Nat]  BY <1>4, ReaderFields
  <2>3. [r EXCEPT !.mirror[i.scope] = i.body] \in ReaderStates  BY <2>2, ReaderUpdates
  <2>4. ASSUME r.relisting # NoStaging PROVE [r EXCEPT !.relisting.body = i.body] \in ReaderStates
    <3>1. [r.relisting EXCEPT !.body = i.body] \in [scope : Scopes, body : Nat]  BY <1>4, <2>4, ReaderFields
    <3>2. QED  BY <3>1, ReaderUpdates
  <2>5. ASSUME r.staging # NoStaging PROVE [r EXCEPT !.staging[i.scope] = i.body] \in ReaderStates
    <3>1. [r.staging EXCEPT ![i.scope] = i.body] \in [Scopes -> Nat]  BY <1>4, <2>5, ReaderFields
    <3>2. QED  BY <3>1, ReaderUpdates
  <2>6. QED  BY <2>1, <2>3, <2>4, <2>5 DEF ApplyObject
<1>5. CASE i.kind = "gap" /\ i.scope \in Scopes \cup {Cluster}
  <2>1. Apply(r, i) = ApplyGap(r, i)  BY <1>5 DEF Apply
  <2>2. ASSUME i.scope # Cluster PROVE [r EXCEPT !.gapped = @ \cup {i.scope}] \in ReaderStates
    <3>1. r.gapped \cup {i.scope} \in SUBSET Scopes  BY <1>5, <2>2, ReaderFields
    <3>2. QED  BY <3>1, ReaderUpdates
  <2>3. [r EXCEPT !.blocked = TRUE] \in ReaderStates /\ [r EXCEPT !.ready = FALSE] \in ReaderStates
    BY ReaderUpdates
  <2>4. QED  BY <2>1, <2>2, <2>3 DEF ApplyGap
<1>6. CASE /\ i.kind = "status" /\ i.scope \in Scopes \cup {Cluster}
           /\ i.snapshot \in BOOLEAN /\ i.completed \in SUBSET Scopes
  <2>1. Apply(r, i) = IF i.scope = Cluster THEN ApplyGlobalStatus(r, i) ELSE ApplyScopeStatus(r, i)  BY <1>6 DEF Apply
  <2>2. ApplyGlobalStatus(r, i) \in ReaderStates  BY <1>6 DEF ApplyGlobalStatus, ReaderStates
  <2>3. ASSUME i.scope # Cluster PROVE ApplyScopeStatus(r, i) \in ReaderStates
    BY <1>6, <2>3 DEF ApplyScopeStatus, ReaderStates
  <2>4. QED  BY <2>1, <2>2, <2>3
<1>7. QED  BY <1>1, <1>2, <1>3, <1>4, <1>5, <1>6, ItemKinds

\* What a gap does.
LEMMA AppliedGap ==
    ASSUME NEW r \in ReaderStates, NEW s \in Scopes \cup {Cluster}, NEW reason \in Reasons
    PROVE  /\ s \in Scopes => Apply(r, Gap(s, reason)) = [r EXCEPT !.gapped = @ \cup {s}]
           /\ s = Cluster => Apply(r, Gap(s, reason)) = IF reason = "BACKEND_UNREACHABLE" THEN [r EXCEPT !.blocked = TRUE]
                                                       ELSE [r EXCEPT !.ready = FALSE]
  BY ClusterAssumption DEF Apply, ApplyGap, Gap

\* What the begin of a snapshot, global or of a scope, does.
LEMMA AppliedBegin ==
    ASSUME NEW r \in ReaderStates, NEW s \in Scopes
    PROVE  /\ Apply(r, Begin(s)) = [r EXCEPT !.relisting = [scope |-> s, body |-> 0]]
           /\ Apply(r, Begin(Cluster)) =
                 [r EXCEPT !.staging = [x \in Scopes |-> 0], !.gapped = {}, !.relisting = NoStaging]
  BY ClusterAssumption DEF Apply, ApplyBegin, Begin

\* Where an object goes: into a relist, into a snapshot or into the mirror.
LEMMA AppliedObject ==
    ASSUME NEW r \in ReaderStates, NEW s \in Scopes, NEW b \in Nat
    PROVE  Apply(r, Object(s, b)) =
               IF s \in EventScopes THEN [r EXCEPT !.mirror[s] = b]
               ELSE IF r.relisting # NoStaging /\ r.relisting.scope = s THEN [r EXCEPT !.relisting.body = b]
               ELSE IF r.staging # NoStaging THEN [r EXCEPT !.staging[s] = b]
               ELSE [r EXCEPT !.mirror[s] = b]
  BY DEF Apply, ApplyObject, Object

\* A deletion is taken out of the mirror.
LEMMA AppliedDeleted ==
    ASSUME NEW r \in ReaderStates, NEW s \in Scopes PROVE Apply(r, Deleted(s)) = [r EXCEPT !.mirror[s] = 0]
  BY DEF Apply, Deleted

\* A heartbeat does nothing.
LEMMA AppliedHeartbeat == ASSUME NEW r \in ReaderStates PROVE Apply(r, Heartbeat) = r
  BY DEF Apply, Heartbeat

\* What the end of a global snapshot or of a listing does.
LEMMA AppliedGlobalStatus ==
    ASSUME NEW r \in ReaderStates, NEW b \in BOOLEAN, NEW c \in SUBSET Scopes
    PROVE  Apply(r, Status(Cluster, b, c)) =
               IF (b /\ r.staging = NoStaging) \/ (~b /\ ~r.ready) THEN r
               ELSE [r EXCEPT !.completed = c, !.ready = TRUE, !.blocked = FALSE,
                              !.staging = IF b THEN NoStaging ELSE @,
                              !.mirror = IF b THEN [s \in Scopes |-> IF s \in EventScopes THEN @[s] ELSE r.staging[s]]
                                         ELSE @]
  BY DEF Apply, ApplyGlobalStatus, Status

------------------------------------------------------------------------------
(* Listings: what a sequence of objects, or of deletions, makes of a reader.  *)

\* Readers with the same fields are the same.
LEMMA SameReader ==
    ASSUME NEW r \in ReaderStates, NEW q \in ReaderStates,
           r.mirror = q.mirror, r.staging = q.staging, r.relisting = q.relisting, r.completed = q.completed,
           r.gapped = q.gapped, r.ready = q.ready, r.blocked = q.blocked
    PROVE  r = q
  BY DEF ReaderStates

\* Where a reader keeps an object of scope x that it is shown.
Goes(q, x) ==
    IF x \in EventScopes THEN "mirror"
    ELSE IF q.relisting # NoStaging /\ q.relisting.scope = x THEN "relisting"
    ELSE IF q.staging # NoStaging THEN "staging" ELSE "mirror"

ShownIn(f, q, S, place) == [x \in Scopes |-> IF x \in S /\ Goes(q, x) = place THEN Content(x, Now) ELSE f[x]]

\* The reader q after it was shown what the scopes S are like now.
Shown(q, S) ==
    [mirror |-> ShownIn(q.mirror, q, S, "mirror"),
     staging |-> IF q.staging = NoStaging THEN NoStaging ELSE ShownIn(q.staging, q, S, "staging"),
     relisting |-> IF q.relisting = NoStaging THEN NoStaging
                   ELSE [scope |-> q.relisting.scope,
                         body |-> IF q.relisting.scope \in S \ EventScopes
                                  THEN Content(q.relisting.scope, Now) ELSE q.relisting.body],
     completed |-> q.completed, gapped |-> q.gapped, ready |-> q.ready, blocked |-> q.blocked]

\* What a scope is like now is a version up to now, or 0.
LEMMA ContentIsNat == ASSUME TypeOK, NEW s PROVE Content(s, Now) \in Nat /\ Content(s, Now) \in 0 .. Now
<1>1. Now \in Nat /\ Now \in 0 .. Now  BY NowIsNat
<1>2. Content(s, Now) \in 0 .. Now  BY <1>1, ContentType
<1>3. QED  BY <1>1, <1>2

\* A reader that is shown some scopes is a reader.
LEMMA ShownType == ASSUME TypeOK, NEW q \in ReaderStates, NEW S PROVE Shown(q, S) \in ReaderStates
<1>1. \A x \in Scopes : Content(x, Now) \in Nat  BY ContentIsNat
<1>2. ShownIn(q.mirror, q, S, "mirror") \in [Scopes -> Nat]  BY <1>1, ReaderFields DEF ShownIn
<1>3. q.staging # NoStaging => ShownIn(q.staging, q, S, "staging") \in [Scopes -> Nat]
  BY <1>1, ReaderFields DEF ShownIn
<1>4. q.relisting # NoStaging => q.relisting.scope \in Scopes /\ q.relisting.body \in Nat  BY ReaderFields
<1>5. q.relisting # NoStaging =>
          [scope |-> q.relisting.scope,
           body |-> IF q.relisting.scope \in S \ EventScopes
                    THEN Content(q.relisting.scope, Now) ELSE q.relisting.body] \in [scope : Scopes, body : Nat]
  BY <1>1, <1>4
<1>6. QED  BY <1>2, <1>3, <1>5, ReaderFields DEF Shown, ReaderStates

\* A reader that is shown nothing stays as it is.
LEMMA ShownNone == ASSUME TypeOK, NEW q \in ReaderStates PROVE Shown(q, {}) = q
<1>1. Shown(q, {}) \in ReaderStates  BY ShownType
<1>2. ShownIn(q.mirror, q, {}, "mirror") = q.mirror  BY ReaderFields DEF ShownIn
<1>3. q.staging # NoStaging => ShownIn(q.staging, q, {}, "staging") = q.staging  BY ReaderFields DEF ShownIn
<1>4. q.relisting # NoStaging => [scope |-> q.relisting.scope, body |-> q.relisting.body] = q.relisting
  BY ReaderFields
<1>5. QED  BY <1>1, <1>2, <1>3, <1>4, SameReader DEF Shown

\* To be shown one scope more is to be shown its object, if it is there.
LEMMA ShownMore ==
    ASSUME TypeOK, NEW q \in ReaderStates, NEW S \in SUBSET Scopes, NEW x \in Scopes
    PROVE  Apply(Shown(q, S), Object(x, Content(x, Now))) = Shown(q, S \cup {x})
<1>1. PICK r \in ReaderStates, b \in Nat : r = Shown(q, S) /\ b = Content(x, Now)  BY ShownType, ContentIsNat
<1>2. PICK p \in ReaderStates : p = Shown(q, S \cup {x})  BY ShownType
<1>3. PICK a \in ReaderStates : a = Apply(r, Object(x, b))  BY <1>1, ItemTypes, ApplyType
<1>4. a = IF x \in EventScopes THEN [r EXCEPT !.mirror[x] = b]
          ELSE IF r.relisting # NoStaging /\ r.relisting.scope = x THEN [r EXCEPT !.relisting.body = b]
          ELSE IF r.staging # NoStaging THEN [r EXCEPT !.staging[x] = b]
          ELSE [r EXCEPT !.mirror[x] = b]
  BY <1>3, AppliedObject
<1>5. /\ r.mirror = ShownIn(q.mirror, q, S, "mirror")
      /\ r.staging = IF q.staging = NoStaging THEN NoStaging ELSE ShownIn(q.staging, q, S, "staging")
      /\ r.relisting = IF q.relisting = NoStaging THEN NoStaging
                       ELSE [scope |-> q.relisting.scope,
                             body |-> IF q.relisting.scope \in S \ EventScopes
                                      THEN Content(q.relisting.scope, Now) ELSE q.relisting.body]
      /\ r.completed = q.completed /\ r.gapped = q.gapped /\ r.ready = q.ready /\ r.blocked = q.blocked
  BY <1>1 DEF Shown
<1>6. /\ p.mirror = ShownIn(q.mirror, q, S \cup {x}, "mirror")
      /\ p.staging = IF q.staging = NoStaging THEN NoStaging ELSE ShownIn(q.staging, q, S \cup {x}, "staging")
      /\ p.relisting = IF q.relisting = NoStaging THEN NoStaging
                       ELSE [scope |-> q.relisting.scope,
                             body |-> IF q.relisting.scope \in (S \cup {x}) \ EventScopes
                                      THEN Content(q.relisting.scope, Now) ELSE q.relisting.body]
      /\ p.completed = q.completed /\ p.gapped = q.gapped /\ p.ready = q.ready /\ p.blocked = q.blocked
  BY <1>2 DEF Shown
<1>7. /\ r.staging = NoStaging <=> q.staging = NoStaging
      /\ r.relisting = NoStaging <=> q.relisting = NoStaging
      /\ r.relisting # NoStaging => r.relisting.scope = q.relisting.scope
  <2>1. r.relisting # NoStaging => r.relisting \in [scope : Scopes, body : Nat]  BY ReaderFields
  <2>2. \A s, v : s \in Scopes /\ v \in Nat => [scope |-> s, body |-> v] # NoStaging  BY StagingAssumption
  <2>3. \A f \in [Scopes -> Nat] : f # NoStaging  BY StagingAssumption
  <2>4. q.staging # NoStaging => ShownIn(q.staging, q, S, "staging") \in [Scopes -> Nat]
    BY ReaderFields, ContentIsNat DEF ShownIn
  <2>5. q.relisting # NoStaging => q.relisting.scope \in Scopes /\ q.relisting.body \in Nat  BY ReaderFields
  <2>6. Content(q.relisting.scope, Now) \in Nat  BY ContentIsNat
  <2>7. QED  BY <1>5, <2>2, <2>3, <2>4, <2>5, <2>6
<1>8. CASE Goes(q, x) = "mirror"
  <2>1. a = [r EXCEPT !.mirror[x] = b]  BY <1>4, <1>7, <1>8 DEF Goes
  <2>2. p.staging = r.staging
    <3>1. ShownIn(q.staging, q, S \cup {x}, "staging") = ShownIn(q.staging, q, S, "staging")
      BY <1>8 DEF ShownIn
    <3>2. QED  BY <1>5, <1>6, <3>1
  <2>3. p.relisting = r.relisting
    <3>1. q.relisting # NoStaging => (q.relisting.scope = x => x \in EventScopes)  BY <1>8 DEF Goes
    <3>2. QED  BY <1>5, <1>6, <3>1
  <2>4. p.mirror = [r.mirror EXCEPT ![x] = b]
    BY <1>1, <1>5, <1>6, <1>8 DEF ShownIn
  <2>5. a.mirror = [r.mirror EXCEPT ![x] = b] /\ a.staging = r.staging /\ a.relisting = r.relisting
        /\ a.completed = r.completed /\ a.gapped = r.gapped /\ a.ready = r.ready /\ a.blocked = r.blocked
    BY <2>1 DEF ReaderStates
  <2>6. a = p  BY <1>5, <1>6, <2>2, <2>3, <2>4, <2>5, SameReader
  <2>7. QED  BY <1>1, <1>2, <1>3, <2>6
<1>9. CASE Goes(q, x) = "relisting"
  <2>1. x \notin EventScopes /\ q.relisting # NoStaging /\ q.relisting.scope = x  BY <1>9 DEF Goes
  <2>2. a = [r EXCEPT !.relisting.body = b]  BY <1>4, <1>7, <2>1
  <2>3. p.staging = r.staging
    <3>1. ShownIn(q.staging, q, S \cup {x}, "staging") = ShownIn(q.staging, q, S, "staging")
      BY <1>9 DEF ShownIn
    <3>2. QED  BY <1>5, <1>6, <3>1
  <2>4. p.mirror = r.mirror
    <3>1. ShownIn(q.mirror, q, S \cup {x}, "mirror") = ShownIn(q.mirror, q, S, "mirror")
      BY <1>9 DEF ShownIn
    <3>2. QED  BY <1>5, <1>6, <3>1
  <2>5. p.relisting = [r.relisting EXCEPT !.body = b]  BY <1>1, <1>5, <1>6, <2>1
  <2>6. a.mirror = r.mirror /\ a.staging = r.staging /\ a.relisting = [r.relisting EXCEPT !.body = b]
        /\ a.completed = r.completed /\ a.gapped = r.gapped /\ a.ready = r.ready /\ a.blocked = r.blocked
    BY <2>2 DEF ReaderStates
  <2>7. a = p  BY <1>5, <1>6, <2>3, <2>4, <2>5, <2>6, SameReader
  <2>8. QED  BY <1>1, <1>2, <1>3, <2>7
<1>10. CASE Goes(q, x) = "staging"
  <2>1. x \notin EventScopes /\ ~(q.relisting # NoStaging /\ q.relisting.scope = x) /\ q.staging # NoStaging
    BY <1>10 DEF Goes
  <2>2. a = [r EXCEPT !.staging[x] = b]  BY <1>4, <1>7, <2>1
  <2>3. p.relisting = r.relisting  BY <1>5, <1>6, <2>1
  <2>4. p.mirror = r.mirror
    <3>1. ShownIn(q.mirror, q, S \cup {x}, "mirror") = ShownIn(q.mirror, q, S, "mirror")
      BY <1>10 DEF ShownIn
    <3>2. QED  BY <1>5, <1>6, <3>1
  <2>5. p.staging = [r.staging EXCEPT ![x] = b]
    BY <1>1, <1>5, <1>6, <1>10, <2>1 DEF ShownIn
  <2>6. a.mirror = r.mirror /\ a.staging = [r.staging EXCEPT ![x] = b] /\ a.relisting = r.relisting
        /\ a.completed = r.completed /\ a.gapped = r.gapped /\ a.ready = r.ready /\ a.blocked = r.blocked
    BY <2>2 DEF ReaderStates
  <2>7. a = p  BY <1>5, <1>6, <2>3, <2>4, <2>5, <2>6, SameReader
  <2>8. QED  BY <1>1, <1>2, <1>3, <2>7
<1>11. Goes(q, x) = "mirror" \/ Goes(q, x) = "relisting" \/ Goes(q, x) = "staging"  BY DEF Goes
<1>12. QED  BY <1>8, <1>9, <1>10, <1>11, Zenon

\* The reader q after it was told that the objects of the scopes S are gone.
Without(q, S) == [q EXCEPT !.mirror = [x \in Scopes |-> IF x \in S THEN 0 ELSE q.mirror[x]]]

\* A reader that is told of deletions is a reader.
LEMMA WithoutType == ASSUME NEW q \in ReaderStates, NEW S PROVE Without(q, S) \in ReaderStates
<1>1. [x \in Scopes |-> IF x \in S THEN 0 ELSE q.mirror[x]] \in [Scopes -> Nat]  BY ReaderFields
<1>2. QED  BY <1>1, ReaderUpdates DEF Without

\* A reader that is told of no deletion stays as it is.
LEMMA WithoutNone == ASSUME NEW q \in ReaderStates PROVE Without(q, {}) = q
<1>1. [x \in Scopes |-> IF x \in {} THEN 0 ELSE q.mirror[x]] = q.mirror  BY ReaderFields
<1>2. [q EXCEPT !.mirror = q.mirror] = q  BY DEF ReaderStates
<1>3. QED  BY <1>1, <1>2 DEF Without

\* To be told of one deletion more is to apply it.
LEMMA WithoutMore ==
    ASSUME NEW q \in ReaderStates, NEW S \in SUBSET Scopes, NEW x \in Scopes
    PROVE  Apply(Without(q, S), Deleted(x)) = Without(q, S \cup {x})
<1>1. PICK r \in ReaderStates : r = Without(q, S)  BY WithoutType
<1>2. PICK m \in [Scopes -> Nat] : m = r.mirror  BY ReaderFields
<1>3. \A y \in Scopes : m[y] = IF y \in S THEN 0 ELSE q.mirror[y]  BY <1>1, <1>2 DEF Without, ReaderStates
<1>4. Apply(r, Deleted(x)) = [r EXCEPT !.mirror[x] = 0]  BY AppliedDeleted
<1>5. [m EXCEPT ![x] = 0] = [y \in Scopes |-> IF y \in S \cup {x} THEN 0 ELSE q.mirror[y]]  BY <1>3
<1>6. [r EXCEPT !.mirror[x] = 0] = [r EXCEPT !.mirror = [m EXCEPT ![x] = 0]]  BY <1>2
<1>7. \A f : [r EXCEPT !.mirror = f] = [q EXCEPT !.mirror = f]  BY <1>1 DEF Without, ReaderStates
<1>8. QED  BY <1>1, <1>4, <1>5, <1>6, <1>7 DEF Without

\* States of which each is what an item makes of the one before it are a path.
LEMMA PathAlong ==
    ASSUME NEW n \in Nat, NEW items \in Seq(Items), Len(items) = n,
           NEW h \in [0 .. n -> ReaderStates],
           \A k \in 1 .. n : h[k] = Apply(h[k - 1], items[k])
    PROVE  Path(h[0], items, h[n])
  BY DEF Path

\* One item of Items is a path from any reader.
LEMMA PathOneItem ==
    ASSUME NEW r \in ReaderStates, NEW i \in Items PROVE Path(r, <<i>>, Apply(r, i))
  BY ApplyType, PathOne

\* An item is a sequence of one.
LEMMA OneItem == ASSUME NEW i \in Items PROVE <<i>> \in Seq(Items) /\ Len(<<i>>) = 1
  OBVIOUS

\* It does not matter which two of three are joined first.
LEMMA ThreeJoined ==
    ASSUME NEW a \in Seq(Items), NEW b \in Seq(Items), NEW c \in Seq(Items)
    PROVE  (a \o b) \o c = a \o (b \o c)
  OBVIOUS

\* Sequences of items joined are one, with the length of both.
LEMMA Joined ==
    ASSUME NEW items \in Seq(Items), NEW more \in Seq(Items)
    PROVE  /\ items \o more \in Seq(Items) /\ Len(items \o more) = Len(items) + Len(more)
           /\ Len(items) >= 1 => (items \o more)[1] = items[1]
<1>1. PICK n \in Nat, m \in Nat : n = Len(items) /\ m = Len(more)  BY LenProperties
<1>2. /\ items \o more \in Seq(Items) /\ Len(items \o more) = n + m
      /\ \A i \in 1 .. n + m : (items \o more)[i] = IF i <= n THEN items[i] ELSE more[i - n]
  BY <1>1, ConcatProperties
<1>3. n >= 1 => 1 \in 1 .. n + m  OBVIOUS
<1>4. QED  BY <1>1, <1>2, <1>3

\* The elements up to a position, with the next one added.
LEMMA UpTo ==
    ASSUME NEW n \in Nat, NEW S, NEW of \in [1 .. n -> S], NEW k \in 1 .. n
    PROVE  {of[j] : j \in 1 .. k} = {of[j] : j \in 1 .. k - 1} \cup {of[k]} /\ {of[j] : j \in 1 .. k - 1} \in SUBSET S
<1>1. 1 .. k = 1 .. k - 1 \cup {k} /\ \A j \in 1 .. k : j \in 1 .. n  OBVIOUS
<1>2. QED  BY <1>1

\* The items of a listing, in the order it is given in.
LEMMA ObjectItems ==
    ASSUME TypeOK, NEW S \in SUBSET Scopes
    PROVE  /\ Cardinality(S) \in Nat /\ SetToSeq(S) \in [1 .. Cardinality(S) -> S]
           /\ \A x \in S : \E j \in 1 .. Cardinality(S) : SetToSeq(S)[j] = x
           /\ Objects(S) \in Seq(Items) /\ Len(Objects(S)) = Cardinality(S)
           /\ \A j \in 1 .. Cardinality(S) :
                 Objects(S)[j] = Object(SetToSeq(S)[j], Content(SetToSeq(S)[j], Now))
<1>1. IsFiniteSet(S)  BY FiniteScopes
<1>2. PICK n \in Nat : n = Cardinality(S)  BY <1>1, InSomeOrder
<1>3. PICK of \in [1 .. n -> S] : of = SetToSeq(S) /\ \A x \in S : \E j \in 1 .. n : of[j] = x
  BY <1>1, <1>2, InSomeOrder
<1>4. PICK f : f = [j \in 1 .. n |-> Object(of[j], Content(of[j], Now))]  OBVIOUS
<1>5. Objects(S) = f  BY <1>3, <1>4 DEF Objects
<1>6. \A j \in 1 .. n : Object(of[j], Content(of[j], Now)) \in Items
  <2>1. \A j \in 1 .. n : of[j] \in Scopes /\ Content(of[j], Now) \in Nat  BY ContentIsNat
  <2>2. QED  BY <2>1, ItemTypes
<1>7. f \in [1 .. n -> Items]  BY <1>4, <1>6
<1>8. f \in Seq(Items) /\ Len(f) = n /\ \A j \in 1 .. n : f[j] = Object(of[j], Content(of[j], Now))
  BY <1>4, <1>7
<1>9. QED  BY <1>2, <1>3, <1>5, <1>8

\* A listing shows a reader every object it lists.
LEMMA ObjectsPath ==
    ASSUME TypeOK, NEW S \in SUBSET Scopes, NEW q \in ReaderStates
    PROVE  /\ Objects(S) \in Seq(Items) /\ Len(Objects(S)) = Cardinality(S) /\ Quiet(Objects(S))
           /\ Path(q, Objects(S), Shown(q, S))
<1>1. PICK n \in Nat : n = Cardinality(S)  BY ObjectItems
<1>2. PICK of \in [1 .. n -> S] :
              /\ n = Cardinality(S) /\ \A x \in S : \E j \in 1 .. n : of[j] = x
              /\ Objects(S) \in Seq(Items) /\ Len(Objects(S)) = n
              /\ \A j \in 1 .. n : Objects(S)[j] = Object(of[j], Content(of[j], Now))
  BY <1>1, ObjectItems
<1>3. Quiet(Objects(S))
  <2>1. \A x, b, s : Object(x, b) # Begin(s)  BY DEF Object, Begin
  <2>2. QED  BY <1>2, <2>1 DEF Quiet
<1>4. PICK h : h = [k \in 0 .. n |-> Shown(q, {of[j] : j \in 1 .. k})]  OBVIOUS
<1>5. h \in [0 .. n -> ReaderStates]  BY <1>4, ShownType
<1>6. ASSUME NEW k \in 1 .. n PROVE h[k] = Apply(h[k - 1], Objects(S)[k])
  <2>1. PICK T \in SUBSET S : T = {of[j] : j \in 1 .. k - 1} /\ {of[j] : j \in 1 .. k} = T \cup {of[k]}
    <3>1. /\ {of[j] : j \in 1 .. k} = {of[j] : j \in 1 .. k - 1} \cup {of[k]}
          /\ {of[j] : j \in 1 .. k - 1} \in SUBSET S
      BY UpTo
    <3>2. QED  BY <3>1, Zenon
  <2>2. k - 1 \in 0 .. n /\ k \in 0 .. n /\ of[k] \in Scopes  OBVIOUS
  <2>3. h[k - 1] = Shown(q, T) /\ h[k] = Shown(q, T \cup {of[k]})  BY <1>4, <2>1, <2>2
  <2>4. Apply(Shown(q, T), Object(of[k], Content(of[k], Now))) = Shown(q, T \cup {of[k]})
    <3>1. T \in SUBSET Scopes  OBVIOUS
    <3>2. QED  BY <2>2, <3>1, ShownMore
  <2>5. QED  BY <1>2, <2>3, <2>4
<1>7. h[0] = q
  <2>1. {of[j] : j \in 1 .. 0} = {}  OBVIOUS
  <2>2. QED  BY <1>4, <2>1, ShownNone
<1>8. h[n] = Shown(q, S)
  <2>1. {of[j] : j \in 1 .. n} = S  BY <1>2
  <2>2. h[n] = Shown(q, {of[j] : j \in 1 .. n})  BY <1>4
  <2>3. QED  BY <2>1, <2>2, Zenon
<1>9. Path(h[0], Objects(S), h[n])  BY <1>2, <1>5, <1>6, PathAlong
<1>10. QED  BY <1>2, <1>3, <1>7, <1>8, <1>9

\* Deletions lead a reader to one without the objects of their scopes.
LEMMA DeletionsPath ==
    ASSUME NEW S \in SUBSET Scopes, NEW q \in ReaderStates
    PROVE  /\ Deletions(S) \in Seq(Items) /\ Quiet(Deletions(S))
           /\ Path(q, Deletions(S), Without(q, S))
<1>1. IsFiniteSet(S)  BY FiniteScopes
<1>2. PICK n \in Nat : n = Cardinality(S)  BY <1>1, InSomeOrder
<1>3. PICK of \in [1 .. n -> S] : of = SetToSeq(S) /\ \A x \in S : \E j \in 1 .. n : of[j] = x
  BY <1>1, <1>2, InSomeOrder
<1>4. PICK f : f = [j \in 1 .. n |-> Deleted(of[j])]  OBVIOUS
<1>5. Deletions(S) = f  BY <1>3, <1>4 DEF Deletions
<1>6. f \in [1 .. n -> Items]  BY <1>4, ItemTypes
<1>7. f \in Seq(Items) /\ Len(f) = n  BY <1>6
<1>8. Quiet(f)
  <2>1. \A x, s : Deleted(x) # Begin(s)  BY DEF Deleted, Begin
  <2>2. QED  BY <1>4, <1>7, <2>1 DEF Quiet
<1>9. PICK h : h = [k \in 0 .. n |-> Without(q, {of[j] : j \in 1 .. k})]  OBVIOUS
<1>10. h \in [0 .. n -> ReaderStates]  BY <1>9, WithoutType
<1>11. ASSUME NEW k \in 1 .. n PROVE h[k] = Apply(h[k - 1], f[k])
  <2>1. PICK T \in SUBSET S : T = {of[j] : j \in 1 .. k - 1} /\ {of[j] : j \in 1 .. k} = T \cup {of[k]}
    <3>1. /\ {of[j] : j \in 1 .. k} = {of[j] : j \in 1 .. k - 1} \cup {of[k]}
          /\ {of[j] : j \in 1 .. k - 1} \in SUBSET S
      BY UpTo
    <3>2. QED  BY <3>1, Zenon
  <2>2. k - 1 \in 0 .. n /\ k \in 0 .. n /\ of[k] \in Scopes  OBVIOUS
  <2>3. h[k - 1] = Without(q, T) /\ h[k] = Without(q, T \cup {of[k]})  BY <1>9, <2>1, <2>2
  <2>4. Apply(Without(q, T), Deleted(of[k])) = Without(q, T \cup {of[k]})
    <3>1. T \in SUBSET Scopes  OBVIOUS
    <3>2. QED  BY <2>2, <3>1, WithoutMore
  <2>5. QED  BY <1>4, <2>3, <2>4
<1>12. h[0] = q
  <2>1. {of[j] : j \in 1 .. 0} = {}  OBVIOUS
  <2>2. QED  BY <1>9, <2>1, WithoutNone
<1>13. h[n] = Without(q, S)
  <2>1. {of[j] : j \in 1 .. n} = S  BY <1>3
  <2>2. h[n] = Without(q, {of[j] : j \in 1 .. n})  BY <1>9
  <2>3. QED  BY <2>1, <2>2, Zenon
<1>14. Path(h[0], f, h[n])  BY <1>7, <1>10, <1>11, PathAlong
<1>15. QED  BY <1>5, <1>7, <1>8, <1>12, <1>13, <1>14

------------------------------------------------------------------------------
(* What a step of the connector puts into the stream tells a reader what the   *)
(* step changed.                                                              *)

\* The reader r has all that the connector knows.
End(r) ==
    /\ r \in ReaderStates
    /\ r.staging = NoStaging /\ r.relisting = NoStaging /\ r.ready /\ r.gapped = pending
    /\ \A s \in ObjectScopes : r.mirror[s] = seen[s] /\ (s \in r.completed => versions[s] # NoVersion)

\* The items lead the reader q, now, to one that has all the connector will know.
Brings(q, items) == \E p \in ReaderStates : Path(q, items, p) /\ End(p)'

\* Scopes are of objects or of Events, and none is the cluster.
LEMMA ScopeKinds ==
    /\ ObjectScopes \in SUBSET Scopes /\ EventScopes \in SUBSET Scopes
    /\ \A s \in ObjectScopes : s \in Scopes /\ s \notin EventScopes
    /\ \A s \in EventScopes : s \in Scopes /\ s \notin ObjectScopes
  BY ScopesAssumption DEF Scopes

\* A snapshot of the whole cluster fits into the buffer.
LEMMA SnapshotLength ==
    ASSUME TypeOK, NEW failed
    PROVE  /\ SnapshotItems(failed) \in Seq(Items) /\ Len(SnapshotItems(failed)) <= BufferLen
           /\ Begin(Cluster) \in ToSet(SnapshotItems(failed))
<1>1. PICK A \in SUBSET ObjectScopes, B \in SUBSET EventScopes :
          A = Present(ObjectScopes \ failed) /\ B = Present(EventScopes \ failed)
  BY DEF Present
<1>2. A \in SUBSET Scopes /\ B \in SUBSET Scopes /\ A \cup B \in SUBSET Scopes /\ A \cap B = {}
  BY ScopeKinds
<1>3. IsFiniteSet(A) /\ IsFiniteSet(B) /\ IsFiniteSet(Scopes)  BY <1>2, FiniteScopes, FiniteAssumption
<1>4. PICK a \in Nat, b \in Nat, n \in Nat : a = Cardinality(A) /\ b = Cardinality(B) /\ n = Cardinality(Scopes)
  BY <1>3, FS_CardinalityType
<1>5. a + b <= n
  <2>1. Cardinality(A \cup B) = Cardinality(A) + Cardinality(B) - Cardinality(A \cap B)  BY <1>3, FS_Union
  <2>2. Cardinality(A \cap B) = 0  BY <1>2, FS_EmptySet
  <2>3. Cardinality(A \cup B) <= Cardinality(Scopes)  BY <1>2, <1>3, FS_Subset
  <2>4. Cardinality(A \cup B) = a + b - 0  BY <1>4, <2>1, <2>2
  <2>5. QED  BY <1>4, <2>3, <2>4
<1>6. PICK f \in Seq(Items), l \in Seq(Items), x \in Seq(Items), y \in Seq(Items) :
          /\ f = <<Begin(Cluster)>> /\ l = <<Status(Cluster, TRUE, ObjectScopes \ failed)>>
          /\ Len(f) = 1 /\ Len(l) = 1 /\ f[1] = Begin(Cluster)
          /\ x = Objects(A) /\ y = Objects(B) /\ Len(x) = a /\ Len(y) = b
  <2>1. <<Begin(Cluster)>> \in Seq(Items) /\ Len(<<Begin(Cluster)>>) = 1 /\ <<Begin(Cluster)>>[1] = Begin(Cluster)
    BY ItemTypes
  <2>2. ObjectScopes \ failed \in SUBSET Scopes  BY ScopeKinds
  <2>3. Status(Cluster, TRUE, ObjectScopes \ failed) \in Items  BY <2>2, ItemTypes
  <2>4. <<Status(Cluster, TRUE, ObjectScopes \ failed)>> \in Seq(Items)
        /\ Len(<<Status(Cluster, TRUE, ObjectScopes \ failed)>>) = 1
    BY <2>3, OneItem
  <2>6. Objects(A) \in Seq(Items) /\ Objects(B) \in Seq(Items) /\ Len(Objects(A)) = a /\ Len(Objects(B)) = b
    BY <1>2, <1>4, ObjectItems
  <2>7. QED  BY <2>1, <2>4, <2>6
<1>7. SnapshotItems(failed) = f \o x \o y \o l  BY <1>1, <1>6 DEF SnapshotItems
<1>8. PICK u \in Seq(Items) : u = f \o x /\ Len(u) = Len(f) + Len(x) /\ (Len(f) >= 1 => u[1] = f[1])
  <2>1. f \o x \in Seq(Items) /\ Len(f \o x) = Len(f) + Len(x) /\ (Len(f) >= 1 => (f \o x)[1] = f[1])
    BY Joined
  <2>2. QED  BY <2>1, Zenon
<1>9. PICK v \in Seq(Items) : v = u \o y /\ Len(v) = Len(u) + Len(y) /\ (Len(u) >= 1 => v[1] = u[1])
  <2>1. u \o y \in Seq(Items) /\ Len(u \o y) = Len(u) + Len(y) /\ (Len(u) >= 1 => (u \o y)[1] = u[1])
    BY Joined
  <2>2. QED  BY <2>1, Zenon
<1>10. PICK w \in Seq(Items) : w = v \o l /\ Len(w) = Len(v) + Len(l) /\ (Len(v) >= 1 => w[1] = v[1])
  <2>1. v \o l \in Seq(Items) /\ Len(v \o l) = Len(v) + Len(l) /\ (Len(v) >= 1 => (v \o l)[1] = v[1])
    BY Joined
  <2>2. QED  BY <2>1, Zenon
<1>16. Len(u) = 1 + a /\ u[1] = f[1]  BY <1>6, <1>8
<1>17. Len(v) = 1 + a + b /\ v[1] = f[1]  BY <1>6, <1>9, <1>16
<1>18. Len(w) = 1 + a + b + 1 /\ w[1] = f[1]  BY <1>6, <1>10, <1>17
<1>11. SnapshotItems(failed) = w  BY <1>7, <1>8, <1>9, <1>10
<1>12. Len(w) <= BufferLen
  <2>1. BufferLen \in Nat /\ BufferLen >= n + 2  BY <1>4, BufferAssumption
  <2>2. QED  BY <1>5, <1>18, <2>1
<1>13. w[1] = Begin(Cluster)  BY <1>6, <1>18
<1>14. Begin(Cluster) \in ToSet(w)
  <2>1. 1 \in DOMAIN w
    <3>1. DOMAIN w = 1 .. 1 + a + b + 1  BY <1>18, LenProperties
    <3>2. QED  BY <3>1
  <2>2. QED  BY <1>13, <2>1 DEF ToSet
<1>15. QED  BY <1>11, <1>12, <1>14

\* A snapshot tells any reader what the connector now knows: nothing of what it had is left.
LEMMA SnapshotBrings ==
    ASSUME TypeOK, NEW failed \in SUBSET Scopes, Snapshot(failed), NEW q \in ReaderStates
    PROVE  Brings(q, SnapshotItems(failed))
<1>1. PICK A \in SUBSET Scopes, B \in SUBSET Scopes, C \in SUBSET Scopes :
          /\ A = Present(ObjectScopes \ failed) /\ B = Present(EventScopes \ failed) /\ C = ObjectScopes \ failed
  BY ScopeKinds DEF Present
<1>2. PICK q0 \in ReaderStates : q0 = Apply(q, Begin(Cluster)) /\ Path(q, <<Begin(Cluster)>>, q0)
  BY ItemTypes, ApplyType, PathOneItem
<1>3. q0.staging = [x \in Scopes |-> 0] /\ q0.gapped = {} /\ q0.relisting = NoStaging
  <2>1. PICK s \in Scopes : TRUE  BY ScopesAssumption DEF Scopes
  <2>2. q0 = [q EXCEPT !.staging = [x \in Scopes |-> 0], !.gapped = {}, !.relisting = NoStaging]
    BY <1>2, <2>1, AppliedBegin
  <2>3. QED  BY <2>2 DEF ReaderStates
<1>4. [x \in Scopes |-> 0] # NoStaging
  <2>1. [x \in Scopes |-> 0] \in [Scopes -> Nat]  OBVIOUS
  <2>2. QED  BY <2>1, StagingAssumption
<1>5. PICK q1 \in ReaderStates : q1 = Shown(q0, A) /\ Path(q0, Objects(A), q1)  BY ShownType, ObjectsPath
<1>6. \A x \in ObjectScopes : Goes(q0, x) = "staging"  BY <1>3, <1>4, ScopeKinds DEF Goes
<1>7. /\ q1.staging # NoStaging /\ q1.gapped = {} /\ q1.relisting = NoStaging
      /\ \A x \in ObjectScopes : q1.staging[x] = IF x \in A THEN Content(x, Now) ELSE 0
  <2>1. q1.staging = ShownIn(q0.staging, q0, A, "staging") /\ q1.gapped = {} /\ q1.relisting = NoStaging
    BY <1>3, <1>4, <1>5 DEF Shown
  <2>2. ShownIn(q0.staging, q0, A, "staging") \in [Scopes -> Nat]
    <3>1. \A x \in Scopes : Content(x, Now) \in Nat  BY ContentIsNat
    <3>2. q0.staging \in [Scopes -> Nat]  BY <1>3
    <3>3. QED  BY <3>1, <3>2 DEF ShownIn
  <2>3. \A x \in ObjectScopes : ShownIn(q0.staging, q0, A, "staging")[x] = IF x \in A THEN Content(x, Now) ELSE 0
    BY <1>3, <1>6, ScopeKinds DEF ShownIn
  <2>4. QED  BY <2>1, <2>2, <2>3, StagingAssumption
<1>8. PICK q2 \in ReaderStates : q2 = Shown(q1, B) /\ Path(q1, Objects(B), q2)  BY ShownType, ObjectsPath
<1>9. /\ q2.staging # NoStaging /\ q2.gapped = {} /\ q2.relisting = NoStaging
      /\ \A x \in ObjectScopes : q2.staging[x] = IF x \in A THEN Content(x, Now) ELSE 0
  <2>1. q2.staging = ShownIn(q1.staging, q1, B, "staging") /\ q2.gapped = {} /\ q2.relisting = NoStaging
    BY <1>7, <1>8 DEF Shown
  <2>2. ShownIn(q1.staging, q1, B, "staging") \in [Scopes -> Nat]
    <3>1. \A x \in Scopes : Content(x, Now) \in Nat  BY ContentIsNat
    <3>2. q1.staging \in [Scopes -> Nat]  BY <1>7, ReaderFields
    <3>3. QED  BY <3>1, <3>2 DEF ShownIn
  <2>3. B \in SUBSET EventScopes  BY <1>1 DEF Present
  <2>4. \A x \in ObjectScopes : ShownIn(q1.staging, q1, B, "staging")[x] = q1.staging[x]
    BY <2>3, ScopeKinds DEF ShownIn
  <2>5. QED  BY <1>7, <2>1, <2>2, <2>4, StagingAssumption
<1>10. PICK q3 \in ReaderStates :
           q3 = Apply(q2, Status(Cluster, TRUE, C)) /\ Path(q2, <<Status(Cluster, TRUE, C)>>, q3)
  BY ItemTypes, ApplyType, PathOneItem
<1>11. /\ q3.staging = NoStaging /\ q3.relisting = NoStaging /\ q3.ready /\ q3.gapped = {} /\ q3.completed = C
       /\ \A x \in ObjectScopes : q3.mirror[x] = IF x \in A THEN Content(x, Now) ELSE 0
  <2>1. PICK m \in [Scopes -> Nat] : m = [s \in Scopes |-> IF s \in EventScopes THEN q2.mirror[s] ELSE q2.staging[s]]
    <3>1. q2.mirror \in [Scopes -> Nat] /\ q2.staging \in [Scopes -> Nat]  BY <1>9, ReaderFields
    <3>2. QED  BY <3>1
  <2>2. q3 = [q2 EXCEPT !.completed = C, !.ready = TRUE, !.blocked = FALSE, !.staging = NoStaging, !.mirror = m]
    BY <1>9, <1>10, <2>1, AppliedGlobalStatus
  <2>3. q3.staging = NoStaging /\ q3.relisting = q2.relisting /\ q3.ready /\ q3.gapped = q2.gapped
        /\ q3.completed = C /\ q3.mirror = m
    BY <2>2 DEF ReaderStates
  <2>4. \A x \in ObjectScopes : m[x] = q2.staging[x]  BY <2>1, ScopeKinds
  <2>5. QED  BY <1>9, <2>3, <2>4
<1>12. End(q3)'
  <2>1. pending' = {} /\ log' = log  BY DEF Snapshot
  <2>2. \A x \in ObjectScopes : seen'[x] = IF x \in failed THEN 0 ELSE Content(x, Now)
    BY ScopeKinds DEF Snapshot
  <2>3. \A x \in ObjectScopes : x \in A <=> x \notin failed /\ Content(x, Now) # 0  BY <1>1 DEF Present
  <2>4. \A x \in C : x \in ObjectScopes /\ versions'[x] = Now
    <3>1. \A x \in C : x \in ObjectScopes /\ x \notin failed  BY <1>1
    <3>2. QED  BY <3>1, ListedType DEF Snapshot
  <2>5. Now # NoVersion  BY NowIsNat, NullsAssumption
  <2>6. \A x \in ObjectScopes : q3.mirror[x] = seen'[x]  BY <1>11, <2>2, <2>3
  <2>7. \A x \in ObjectScopes : x \in q3.completed => versions'[x] # NoVersion  BY <1>11, <2>4, <2>5
  <2>8. QED  BY <1>11, <2>1, <2>6, <2>7 DEF End
<1>13. Path(q, SnapshotItems(failed), q3)
  <2>1. PICK f \in Seq(Items), x \in Seq(Items), y \in Seq(Items), l \in Seq(Items) :
            /\ f = <<Begin(Cluster)>> /\ l = <<Status(Cluster, TRUE, C)>> /\ x = Objects(A) /\ y = Objects(B)
    <3>1. Objects(A) \in Seq(Items) /\ Objects(B) \in Seq(Items)  BY ObjectItems
    <3>2. <<Begin(Cluster)>> \in Seq(Items) /\ <<Status(Cluster, TRUE, C)>> \in Seq(Items)  BY ItemTypes, OneItem
    <3>3. QED  BY <3>1, <3>2
  <2>2. SnapshotItems(failed) = f \o x \o y \o l  BY <1>1, <2>1 DEF SnapshotItems
  <2>3. Path(q, f \o x, q1) /\ f \o x \in Seq(Items)  BY <1>2, <1>5, <2>1, PathJoin, Joined
  <2>4. Path(q, f \o x \o y, q2) /\ f \o x \o y \in Seq(Items)  BY <1>8, <2>1, <2>3, PathJoin, Joined
  <2>5. Path(q, f \o x \o y \o l, q3)  BY <1>10, <2>1, <2>4, PathJoin
  <2>6. QED  BY <2>2, <2>5
<1>14. QED  BY <1>12, <1>13 DEF Brings

\* A step that tells nothing changes nothing that a reader is told.
LEMMA NothingBrings ==
    ASSUME NEW q, End(q), UNCHANGED <<seen, pending>>,
           \A s \in ObjectScopes : versions[s] # NoVersion => versions'[s] # NoVersion
    PROVE  Brings(q, <<>>) /\ End(q)'
<1>1. End(q)'  BY DEF End
<1>2. Path(q, <<>>, q)  BY PathNone DEF End
<1>3. QED  BY <1>1, <1>2 DEF Brings, End

\* An item about something else than the objects leaves the reader with what it had.
LEMMA RemarkBrings ==
    ASSUME NEW q, End(q), NEW i \in {BackendGap, Heartbeat}, UNCHANGED <<seen, pending, versions>>
    PROVE  Brings(q, <<i>>)
<1>1. PICK p : p = Apply(q, i)  OBVIOUS
<1>2. i \in Items /\ q \in ReaderStates  BY ItemTypes DEF BackendGap, End, Reasons
<1>3. p \in ReaderStates /\ Path(q, <<i>>, p)  BY <1>1, <1>2, ApplyType, PathOneItem
<1>4. /\ p.mirror = q.mirror /\ p.staging = q.staging /\ p.relisting = q.relisting
      /\ p.completed = q.completed /\ p.gapped = q.gapped /\ p.ready = q.ready
  <2>1. CASE i = Heartbeat  BY <1>1, <1>2, <2>1, AppliedHeartbeat
  <2>2. CASE i = BackendGap
    <3>1. p = [q EXCEPT !.blocked = TRUE]  BY <1>1, <1>2, <2>2, AppliedGap, ClusterAssumption DEF BackendGap, Reasons
    <3>2. QED  BY <1>2, <3>1 DEF ReaderStates
  <2>3. QED  BY <2>1, <2>2
<1>5. End(p)'  BY <1>3, <1>4 DEF End
<1>6. QED  BY <1>3, <1>5 DEF Brings

\* A step that puts nothing into the stream leaves a reader that has everything with everything.
LEMMA SilentBrings ==
    ASSUME TypeOK, NEW s \in Scopes, Silent(s), NEW q, End(q) PROVE End(q)'
<1>1. UNCHANGED <<seen, pending>>
  BY DEF Silent, Change, OpenWatch, Bookmark, LearnVersion, CloseWatch, EndWatch, EndsUnseen
<1>2. ASSUME NEW o \in ObjectScopes, versions[o] # NoVersion PROVE versions'[o] # NoVersion
  <2>1. CASE Change(s) \/ OpenWatch(s) \/ LearnVersion(s) \/ CloseWatch(s)
    BY <1>2, <2>1 DEF Change, OpenWatch, LearnVersion, CloseWatch
  <2>2. CASE Bookmark(s)
    <3>1. versions' = versions \/ \E n \in 1 .. Now : versions' = [versions EXCEPT ![s] = n]
      BY <2>2, BookmarkMoves DEF EndsUnseen
    <3>2. \A n \in 1 .. Now : n # NoVersion  BY NowIsNat, NullsAssumption
    <3>3. QED  BY <1>2, <3>1, <3>2, ScopeKinds DEF TypeOK
  <2>3. CASE EndWatch(s)
    BY <1>2, <2>3, ScopeKinds DEF EndWatch, TypeOK
  <2>4. QED  BY <2>1, <2>2, <2>3 DEF Silent
<1>3. QED  BY <1>1, <1>2, NothingBrings

\* A reconciliation tells a reader what it changed of what was seen.
LEMMA DeltaBrings ==
    ASSUME TypeOK, NEW failed \in SUBSET Scopes, Delta(failed), NEW q, End(q)
    PROVE  /\ DeltaItems(failed) \in Seq(Items) /\ Quiet(DeltaItems(failed))
           /\ Brings(q, DeltaItems(failed))
<1>1. PICK A \in SUBSET Scopes, B \in SUBSET Scopes, C \in SUBSET Scopes, V \in SUBSET Scopes :
          /\ A = Changed(ObjectScopes \ failed) /\ B = Changed(EventScopes \ failed)
          /\ V = Vanished(failed) /\ C = ObjectScopes \ failed
  <2>1. /\ Changed(ObjectScopes \ failed) \in SUBSET Scopes /\ Changed(EventScopes \ failed) \in SUBSET Scopes
        /\ Vanished(failed) \in SUBSET Scopes /\ ObjectScopes \ failed \in SUBSET Scopes
    BY ScopeKinds DEF Changed, Present, Vanished
  <2>2. QED  BY <2>1
<1>2. q \in ReaderStates /\ q.staging = NoStaging /\ q.relisting = NoStaging /\ q.ready  BY DEF End
<1>3. PICK q1 \in ReaderStates : q1 = Shown(q, A) /\ Path(q, Objects(A), q1)  BY <1>2, ShownType, ObjectsPath
<1>4. /\ q1.staging = NoStaging /\ q1.relisting = NoStaging /\ q1.ready /\ q1.gapped = q.gapped
      /\ \A x \in ObjectScopes : q1.mirror[x] = IF x \in A THEN Content(x, Now) ELSE q.mirror[x]
  <2>1. \A x \in ObjectScopes : Goes(q, x) = "mirror"  BY <1>2 DEF Goes
  <2>2. q1.mirror = ShownIn(q.mirror, q, A, "mirror") /\ q1.staging = NoStaging /\ q1.relisting = NoStaging
        /\ q1.ready = q.ready /\ q1.gapped = q.gapped
    BY <1>2, <1>3 DEF Shown
  <2>3. QED  BY <1>2, <2>1, <2>2, ScopeKinds DEF ShownIn
<1>5. PICK q2 \in ReaderStates : q2 = Without(q1, V) /\ Path(q1, Deletions(V), q2)  BY WithoutType, DeletionsPath
<1>6. /\ q2.staging = NoStaging /\ q2.relisting = NoStaging /\ q2.ready /\ q2.gapped = q.gapped
      /\ \A x \in ObjectScopes : q2.mirror[x] = IF x \in V THEN 0 ELSE q1.mirror[x]
  <2>1. q2.mirror = [x \in Scopes |-> IF x \in V THEN 0 ELSE q1.mirror[x]] /\ q2.staging = q1.staging
        /\ q2.relisting = q1.relisting /\ q2.ready = q1.ready /\ q2.gapped = q1.gapped
    BY <1>5 DEF Without, ReaderStates
  <2>2. QED  BY <1>4, <2>1, ScopeKinds
<1>7. PICK q3 \in ReaderStates : q3 = Shown(q2, B) /\ Path(q2, Objects(B), q3)  BY ShownType, ObjectsPath
<1>8. /\ q3.staging = NoStaging /\ q3.relisting = NoStaging /\ q3.ready /\ q3.gapped = q.gapped
      /\ \A x \in ObjectScopes : q3.mirror[x] = q2.mirror[x]
  <2>1. B \in SUBSET EventScopes  BY <1>1 DEF Changed, Present
  <2>2. q3.mirror = ShownIn(q2.mirror, q2, B, "mirror") /\ q3.staging = NoStaging /\ q3.relisting = NoStaging
        /\ q3.ready = q2.ready /\ q3.gapped = q2.gapped
    BY <1>6, <1>7 DEF Shown
  <2>3. QED  BY <1>6, <2>1, <2>2, ScopeKinds DEF ShownIn
<1>9. PICK q4 \in ReaderStates :
          q4 = Apply(q3, Status(Cluster, FALSE, C)) /\ Path(q3, <<Status(Cluster, FALSE, C)>>, q4)
  BY ItemTypes, ApplyType, PathOneItem
<1>10. /\ q4.staging = NoStaging /\ q4.relisting = NoStaging /\ q4.ready /\ q4.gapped = q.gapped
       /\ q4.completed = C /\ q4.mirror = q3.mirror
  <2>1. q4 = [q3 EXCEPT !.completed = C, !.ready = TRUE, !.blocked = FALSE, !.staging = q3.staging, !.mirror = q3.mirror]
    BY <1>8, <1>9, AppliedGlobalStatus
  <2>2. QED  BY <1>8, <2>1 DEF ReaderStates
<1>11. End(q4)'
  <2>1. pending' = pending  BY DEF Delta
  <2>2. \A x \in ObjectScopes : seen'[x] = IF x \in A THEN Content(x, Now) ELSE IF x \in V THEN 0 ELSE seen[x]
    <3>1. \A x \in ObjectScopes : x \in Changed(Scopes \ failed) <=> x \in A
      BY <1>1, ScopeKinds DEF Changed, Present
    <3>2. QED  BY <1>1, <3>1, ScopeKinds DEF Delta
  <2>3. \A x \in V : x \notin A  BY <1>1 DEF Changed, Present, Vanished
  <2>4. \A x \in ObjectScopes : q4.mirror[x] = seen'[x]
    BY <1>4, <1>6, <1>8, <1>10, <2>2, <2>3 DEF End
  <2>5. Now # NoVersion  BY NowIsNat, NullsAssumption
  <2>6. \A x \in C : versions'[x] # NoVersion
    <3>1. \A x \in C : x \in ObjectScopes /\ x \notin failed /\ x \in Scopes  BY <1>1, ScopeKinds
    <3>2. \A x \in C : ListedVersions(failed)[x] = Now  BY <3>1, ListedType
    <3>3. QED  BY <2>5, <3>1, <3>2 DEF Delta
  <2>7. QED  BY <1>10, <2>1, <2>4, <2>6 DEF End
<1>12. /\ DeltaItems(failed) \in Seq(Items) /\ Quiet(DeltaItems(failed)) /\ Path(q, DeltaItems(failed), q4)
  <2>1. PICK x \in Seq(Items), y \in Seq(Items), z \in Seq(Items), l \in Seq(Items) :
            /\ x = Objects(A) /\ y = Deletions(V) /\ z = Objects(B) /\ l = <<Status(Cluster, FALSE, C)>>
    <3>1. Objects(A) \in Seq(Items) /\ Objects(B) \in Seq(Items) /\ Deletions(V) \in Seq(Items)
      BY ObjectItems, DeletionsPath, <1>2
    <3>2. <<Status(Cluster, FALSE, C)>> \in Seq(Items)  BY ItemTypes, OneItem
    <3>3. QED  BY <3>1, <3>2
  <2>2. DeltaItems(failed) = x \o y \o z \o l  BY <1>1, <2>1 DEF DeltaItems
  <2>3. Quiet(x) /\ Quiet(y) /\ Quiet(z) /\ Quiet(l)
    <3>1. Status(Cluster, FALSE, C) # Begin(Cluster)  BY DEF Status, Begin
    <3>2. QED  BY <1>2, <2>1, <3>1, ObjectsPath, DeletionsPath, QuietOne
  <2>4. Path(q, x \o y, q2) /\ x \o y \in Seq(Items) /\ Quiet(x \o y)
    BY <1>3, <1>5, <2>1, <2>3, PathJoin, Joined, QuietJoin
  <2>5. Path(q, x \o y \o z, q3) /\ x \o y \o z \in Seq(Items) /\ Quiet(x \o y \o z)
    BY <1>7, <2>1, <2>3, <2>4, PathJoin, Joined, QuietJoin
  <2>6. Path(q, x \o y \o z \o l, q4) /\ x \o y \o z \o l \in Seq(Items) /\ Quiet(x \o y \o z \o l)
    BY <1>9, <2>1, <2>3, <2>5, PathJoin, Joined, QuietJoin
  <2>7. QED  BY <2>2, <2>6
<1>13. QED  BY <1>11, <1>12 DEF Brings

\* The reader of a relist: the scope is as it was listed, and neither its gap nor its relist is left.
LEMMA RelistPath ==
    ASSUME TypeOK, NEW s \in Scopes, NEW q \in ReaderStates, q.staging = NoStaging
    PROVE  /\ RelistItems(s) \in Seq(Items) /\ Quiet(RelistItems(s))
           /\ \E p \in ReaderStates :
                 /\ Path(q, RelistItems(s), p)
                 /\ p.staging = NoStaging /\ p.relisting = NoStaging /\ p.ready = q.ready
                 /\ p.gapped = q.gapped \ {s} /\ p.completed = q.completed \cup {s}
                 /\ \A x \in ObjectScopes : p.mirror[x] = IF x = s THEN Content(s, Now) ELSE q.mirror[x]
<1>1. PICK A \in SUBSET Scopes : A = Present({s})  BY DEF Present
<1>2. A \in SUBSET {s} /\ (s \in A <=> Content(s, Now) # 0)  BY <1>1 DEF Present
<1>3. PICK q1 \in ReaderStates : q1 = Apply(q, Begin(s)) /\ Path(q, <<Begin(s)>>, q1)
  BY ItemTypes, ApplyType, PathOneItem
<1>4. /\ q1.mirror = q.mirror /\ q1.staging = NoStaging /\ q1.relisting = [scope |-> s, body |-> 0]
      /\ q1.ready = q.ready /\ q1.gapped = q.gapped /\ q1.completed = q.completed
  <2>1. q1 = [q EXCEPT !.relisting = [scope |-> s, body |-> 0]]  BY <1>3, AppliedBegin
  <2>2. QED  BY <2>1 DEF ReaderStates
<1>5. PICK q2 \in ReaderStates : q2 = Shown(q1, A) /\ Path(q1, Objects(A), q2)  BY ShownType, ObjectsPath
<1>6. q1.relisting # NoStaging /\ q1.relisting.scope = s /\ q1.relisting.body = 0
  BY <1>4, StagingAssumption
<1>7. /\ q2.staging = NoStaging /\ q2.ready = q.ready /\ q2.gapped = q.gapped /\ q2.completed = q.completed
      /\ q2.relisting =
            [scope |-> s, body |-> IF s \in A \ EventScopes THEN Content(s, Now) ELSE 0]
      /\ \A x \in ObjectScopes : q2.mirror[x] = q.mirror[x]
  <2>1. \A x \in ObjectScopes : x \in A => Goes(q1, x) = "relisting"
    BY <1>2, <1>6, ScopeKinds DEF Goes
  <2>2. q2.mirror = ShownIn(q1.mirror, q1, A, "mirror")  BY <1>5 DEF Shown
  <2>3. \A x \in ObjectScopes : q2.mirror[x] = q.mirror[x]
    BY <1>4, <2>1, <2>2, ScopeKinds DEF ShownIn
  <2>4. QED  BY <1>4, <1>5, <1>6, <2>3 DEF Shown
<1>8. q2.relisting # NoStaging /\ q2.relisting.scope = s
      /\ q2.relisting.body = IF s \in A \ EventScopes THEN Content(s, Now) ELSE 0
  <2>1. Content(s, Now) \in Nat /\ 0 \in Nat  BY ContentIsNat
  <2>2. QED  BY <1>7, <2>1, StagingAssumption
<1>9. PICK p \in ReaderStates : p = Apply(q2, Status(s, TRUE, {s})) /\ Path(q2, <<Status(s, TRUE, {s})>>, p)
  <2>1. Status(s, TRUE, {s}) \in Items  BY ItemTypes
  <2>2. QED  BY <2>1, ApplyType, PathOneItem
<1>10. /\ p.staging = NoStaging /\ p.relisting = NoStaging /\ p.ready = q.ready
       /\ p.gapped = q.gapped \ {s} /\ p.completed = q.completed \cup {s}
       /\ \A x \in ObjectScopes : p.mirror[x] = IF x = s THEN Content(s, Now) ELSE q.mirror[x]
  <2>1. PICK m \in [Scopes -> Nat] :
            m = [q2.mirror EXCEPT ![s] = IF s \in EventScopes THEN q2.mirror[s] ELSE q2.relisting.body]
    <3>1. q2.mirror \in [Scopes -> Nat] /\ q2.relisting.body \in Nat  BY <1>8, ReaderFields
    <3>2. QED  BY <3>1
  <2>2. p = [q2 EXCEPT !.relisting = NoStaging, !.gapped = q2.gapped \ {s},
                       !.completed = q2.completed \cup {s}, !.mirror = m]
    <3>1. {s} \in SUBSET Scopes /\ TRUE \in BOOLEAN  OBVIOUS
    <3>2. p = [q2 EXCEPT !.relisting = NoStaging, !.gapped = q2.gapped \ {s}, !.completed = q2.completed \cup {s},
                         !.mirror = [q2.mirror EXCEPT ![s] = IF s \in EventScopes THEN q2.mirror[s] ELSE q2.relisting.body]]
      BY <1>8, <1>9, ClusterAssumption DEF Apply, ApplyScopeStatus, Status
    <3>3. QED  BY <2>1, <3>2
  <2>3. /\ p.staging = q2.staging /\ p.relisting = NoStaging /\ p.ready = q2.ready
        /\ p.gapped = q2.gapped \ {s} /\ p.completed = q2.completed \cup {s} /\ p.mirror = m
    BY <2>2 DEF ReaderStates
  <2>4. \A x \in ObjectScopes : m[x] = IF x = s THEN Content(s, Now) ELSE q.mirror[x]
    <3>1. q2.mirror \in [Scopes -> Nat]  BY ReaderFields
    <3>2. \A x \in ObjectScopes : m[x] = IF x = s THEN q2.relisting.body ELSE q2.mirror[x]
      BY <2>1, <3>1, ScopeKinds
    <3>3. s \in ObjectScopes => q2.relisting.body = Content(s, Now)
      BY <1>2, <1>8, ScopeKinds
    <3>4. QED  BY <1>7, <3>2, <3>3
  <2>5. QED  BY <1>7, <2>3, <2>4
<1>11. /\ RelistItems(s) \in Seq(Items) /\ Quiet(RelistItems(s)) /\ Path(q, RelistItems(s), p)
  <2>1. PICK f \in Seq(Items), x \in Seq(Items), l \in Seq(Items) :
            f = <<Begin(s)>> /\ x = Objects(A) /\ l = <<Status(s, TRUE, {s})>>
    <3>1. Objects(A) \in Seq(Items)  BY ObjectItems
    <3>2. Begin(s) \in Items /\ Status(s, TRUE, {s}) \in Items  BY ItemTypes
    <3>3. QED  BY <3>1, <3>2, OneItem
  <2>2. RelistItems(s) = f \o x \o l  BY <1>1, <2>1 DEF RelistItems
  <2>3. Quiet(f) /\ Quiet(x) /\ Quiet(l)
    <3>1. Begin(s) # Begin(Cluster)  BY ClusterAssumption DEF Begin
    <3>2. Status(s, TRUE, {s}) # Begin(Cluster)  BY DEF Status, Begin
    <3>3. QED  BY <2>1, <3>1, <3>2, ObjectsPath, QuietOne
  <2>4. Path(q, f \o x, q2) /\ f \o x \in Seq(Items) /\ Quiet(f \o x)
    BY <1>3, <1>5, <2>1, <2>3, PathJoin, Joined, QuietJoin
  <2>5. Path(q, f \o x \o l, p) /\ f \o x \o l \in Seq(Items) /\ Quiet(f \o x \o l)
    BY <1>9, <2>1, <2>3, <2>4, PathJoin, Joined, QuietJoin
  <2>6. QED  BY <2>2, <2>5
<1>12. QED  BY <1>10, <1>11

\* A relist tells a reader that has everything what the scope is like now.
LEMMA RelistBrings ==
    ASSUME TypeOK, NEW s \in Scopes, NEW q, End(q), Relist({s}), pending' = pending \ {s}
    PROVE  /\ RelistItems(s) \in Seq(Items) /\ Quiet(RelistItems(s))
           /\ Brings(q, RelistItems(s))
<1>1. q \in ReaderStates /\ q.staging = NoStaging  BY DEF End
<1>2. RelistItems(s) \in Seq(Items) /\ Quiet(RelistItems(s))  BY <1>1, RelistPath
<1>3. PICK p \in ReaderStates :
          /\ Path(q, RelistItems(s), p)
          /\ p.staging = NoStaging /\ p.relisting = NoStaging /\ p.ready = q.ready
          /\ p.gapped = q.gapped \ {s} /\ p.completed = q.completed \cup {s}
          /\ \A x \in ObjectScopes : p.mirror[x] = IF x = s THEN Content(s, Now) ELSE q.mirror[x]
  BY <1>1, RelistPath
<1>4. Now # NoVersion  BY NowIsNat, NullsAssumption
<1>5. \A x \in ObjectScopes :
          /\ seen'[x] = IF x = s THEN Content(s, Now) ELSE seen[x]
          /\ versions'[x] = IF x = s THEN Now ELSE versions[x]
  BY ScopeKinds DEF Relist
<1>6. End(p)'  BY <1>3, <1>4, <1>5 DEF End
<1>7. QED  BY <1>2, <1>3, <1>6 DEF Brings

\* No items are a sequence of items, and quiet.
LEMMA NoItems == <<>> \in Seq(Items) /\ Quiet(<<>>)
  BY DEF Quiet

\* A gap of a scope, and what comes before it is listed again.
LEMMA GapPath ==
    ASSUME NEW s \in Scopes, NEW q \in ReaderStates, NEW reason \in Reasons
    PROVE  /\ <<Gap(s, reason)>> \in Seq(Items) /\ Quiet(<<Gap(s, reason)>>)
           /\ \E p \in ReaderStates :
                 /\ Path(q, <<Gap(s, reason)>>, p)
                 /\ p.mirror = q.mirror /\ p.staging = q.staging /\ p.relisting = q.relisting
                 /\ p.completed = q.completed /\ p.gapped = q.gapped \cup {s} /\ p.ready = q.ready
<1>1. Gap(s, reason) \in Items /\ Gap(s, reason) # Begin(Cluster)  BY ItemTypes DEF Gap, Begin
<1>2. PICK p \in ReaderStates : p = Apply(q, Gap(s, reason)) /\ Path(q, <<Gap(s, reason)>>, p)
  BY <1>1, ApplyType, PathOneItem
<1>3. p = [q EXCEPT !.gapped = q.gapped \cup {s}]  BY <1>2, AppliedGap
<1>4. /\ p.mirror = q.mirror /\ p.staging = q.staging /\ p.relisting = q.relisting
      /\ p.completed = q.completed /\ p.gapped = q.gapped \cup {s} /\ p.ready = q.ready
  BY <1>3 DEF ReaderStates
<1>5. QED  BY <1>1, <1>2, <1>4, OneItem, QuietOne

\* An expired watch: the scope is called incomplete, and complete again when it was listed.
LEMMA ExpireBrings ==
    ASSUME TypeOK, NEW s \in Scopes, NEW listed \in BOOLEAN, Expire(s, listed), NEW q, End(q)
    PROVE  /\ ExpiryItems(s, listed) \in Seq(Items) /\ Quiet(ExpiryItems(s, listed))
           /\ Brings(q, ExpiryItems(s, listed))
<1>1. PICK scopes : scopes = (IF Current(s) /\ listed THEN {s} ELSE {}) /\ Relist(scopes)  BY DEF Expire
<1>2. \A x \in ObjectScopes :
          /\ seen'[x] = IF x \in scopes THEN Content(x, Now) ELSE seen[x]
          /\ versions'[x] = IF x \in scopes THEN Now ELSE versions[x]
  BY <1>1, ScopeKinds DEF Relist
<1>3. pending' = IF ~Current(s) THEN pending ELSE IF listed THEN pending \ {s} ELSE pending \cup {s}  BY DEF Expire
<1>4. q \in ReaderStates /\ q.staging = NoStaging /\ q.gapped = pending  BY DEF End
<1>5. CASE ~Current(s)
  <2>1. ExpiryItems(s, listed) = <<>>  BY <1>5 DEF ExpiryItems
  <2>2. End(q)'  BY <1>1, <1>2, <1>3, <1>5 DEF End
  <2>3. Path(q, <<>>, q)  BY <1>4, PathNone
  <2>4. QED  BY <1>4, <2>1, <2>2, <2>3, NoItems DEF Brings
<1>6. CASE Current(s)
  <2>1. PICK g \in Seq(Items) : g = <<Gap(s, "RESOURCE_VERSION_EXPIRED")>> /\ Quiet(g) /\
            \E p \in ReaderStates :
                 /\ Path(q, g, p)
                 /\ p.mirror = q.mirror /\ p.staging = q.staging /\ p.relisting = q.relisting
                 /\ p.completed = q.completed /\ p.gapped = q.gapped \cup {s} /\ p.ready = q.ready
    <3>1. PICK reason \in Reasons : reason = "RESOURCE_VERSION_EXPIRED"  BY DEF Reasons
    <3>2. /\ <<Gap(s, reason)>> \in Seq(Items) /\ Quiet(<<Gap(s, reason)>>)
          /\ \E p \in ReaderStates :
                 /\ Path(q, <<Gap(s, reason)>>, p)
                 /\ p.mirror = q.mirror /\ p.staging = q.staging /\ p.relisting = q.relisting
                 /\ p.completed = q.completed /\ p.gapped = q.gapped \cup {s} /\ p.ready = q.ready
      BY <1>4, GapPath
    <3>3. QED  BY <3>1, <3>2, Zenon
  <2>2. PICK p1 \in ReaderStates :
                 /\ Path(q, g, p1)
                 /\ p1.mirror = q.mirror /\ p1.staging = q.staging /\ p1.relisting = q.relisting
                 /\ p1.completed = q.completed /\ p1.gapped = q.gapped \cup {s} /\ p1.ready = q.ready
    BY <2>1
  <2>3. CASE ~listed
    <3>1. ExpiryItems(s, listed) = g
      <4>1. ExpiryItems(s, listed) = g \o <<>>  BY <1>6, <2>1, <2>3 DEF ExpiryItems
      <4>2. g \o <<>> = g  BY ConcatEmptySeq
      <4>3. QED  BY <4>1, <4>2
    <3>2. End(p1)'  BY <1>1, <1>2, <1>3, <1>6, <2>2, <2>3 DEF End
    <3>3. QED  BY <2>1, <2>2, <3>1, <3>2 DEF Brings
  <2>4. CASE listed
    <3>1. /\ RelistItems(s) \in Seq(Items) /\ Quiet(RelistItems(s))
          /\ \E p \in ReaderStates :
                 /\ Path(p1, RelistItems(s), p)
                 /\ p.staging = NoStaging /\ p.relisting = NoStaging /\ p.ready = p1.ready
                 /\ p.gapped = p1.gapped \ {s} /\ p.completed = p1.completed \cup {s}
                 /\ \A x \in ObjectScopes : p.mirror[x] = IF x = s THEN Content(s, Now) ELSE p1.mirror[x]
      BY <1>4, <2>2, RelistPath
    <3>2. PICK p \in ReaderStates :
                 /\ Path(p1, RelistItems(s), p)
                 /\ p.staging = NoStaging /\ p.relisting = NoStaging /\ p.ready = p1.ready
                 /\ p.gapped = p1.gapped \ {s} /\ p.completed = p1.completed \cup {s}
                 /\ \A x \in ObjectScopes : p.mirror[x] = IF x = s THEN Content(s, Now) ELSE p1.mirror[x]
      BY <3>1
    <3>3. ExpiryItems(s, listed) = g \o RelistItems(s)  BY <1>6, <2>1, <2>4 DEF ExpiryItems
    <3>4. Path(q, g \o RelistItems(s), p) /\ g \o RelistItems(s) \in Seq(Items) /\ Quiet(g \o RelistItems(s))
      BY <2>1, <2>2, <3>1, <3>2, PathJoin, Joined, QuietJoin
    <3>5. Now # NoVersion  BY NowIsNat, NullsAssumption
    <3>6. End(p)'
      <4>1. scopes = {s} /\ pending' = pending \ {s}  BY <1>1, <1>3, <1>6, <2>4
      <4>2. p.gapped = pending'  BY <1>4, <2>2, <3>2, <4>1
      <4>3. \A x \in ObjectScopes : p.mirror[x] = seen'[x]  BY <1>2, <2>2, <3>2, <4>1 DEF End
      <4>4. \A x \in ObjectScopes : x \in p.completed => versions'[x] # NoVersion
        BY <1>2, <2>2, <3>2, <3>5, <4>1 DEF End
      <4>5. p.ready  BY <2>2, <3>2 DEF End
      <4>6. QED  BY <3>2, <4>2, <4>3, <4>4, <4>5 DEF End
    <3>7. QED  BY <3>2, <3>3, <3>4, <3>6 DEF Brings
  <2>5. QED  BY <2>3, <2>4
<1>7. QED  BY <1>5, <1>6

\* An event of a watch tells a reader what the connector saw of it.
LEMMA DeliverBrings ==
    ASSUME TypeOK, NEW s \in Scopes, NEW i \in 1 .. Now, Deliver(s, i), NEW q, End(q)
    PROVE  /\ EventItems(s, i) \in Seq(Items) /\ Quiet(EventItems(s, i))
           /\ Brings(q, EventItems(s, i))
<1>1. pending' = pending /\ i \in Nat /\ i # NoVersion  BY NowIsNat, NullsAssumption DEF Deliver
<1>2. q \in ReaderStates /\ q.staging = NoStaging /\ q.relisting = NoStaging  BY DEF End
<1>3. q.mirror \in [Scopes -> Nat] /\ seen \in [Scopes -> 0 .. Now] /\ versions \in [Scopes -> Versions]
  BY <1>2, ReaderFields DEF TypeOK
<1>4. CASE ~(Current(s) /\ versions[s] # NoVersion)
  <2>1. EventItems(s, i) = <<>> /\ EndsUnseen(s)  BY <1>4 DEF Deliver, EventItems
  <2>2. QED  BY <1>1, <2>1, NothingBrings, NoItems DEF EndsUnseen
<1>5. CASE Current(s) /\ versions[s] # NoVersion
  <2>1. ApplyEvent(s, i)  BY <1>5 DEF Deliver
  <2>2. /\ seen' = [seen EXCEPT ![s] = IF log[i].there THEN i ELSE 0]
        /\ versions' = [versions EXCEPT ![s] = i]
    BY <2>1 DEF ApplyEvent
  <2>3. \A x \in ObjectScopes :
            /\ seen'[x] = IF x = s THEN (IF log[i].there THEN i ELSE 0) ELSE seen[x]
            /\ versions'[x] = IF x = s THEN i ELSE versions[x]
    BY <1>3, <2>2, ScopeKinds
  <2>4. CASE (log[i].there /\ seen[s] = i) \/ (~log[i].there /\ seen[s] = 0)
    <3>1. EventItems(s, i) = <<>>  BY <1>5, <2>4 DEF EventItems
    <3>2. End(q)'  BY <1>1, <2>3, <2>4 DEF End
    <3>3. Path(q, <<>>, q)  BY <1>2, PathNone
    <3>4. QED  BY <1>2, <3>1, <3>2, <3>3, NoItems DEF Brings
  <2>5. CASE log[i].there /\ seen[s] # i
    <3>1. EventItems(s, i) = <<Object(s, i)>>  BY <1>5, <2>5 DEF EventItems
    <3>2. Object(s, i) \in Items /\ Object(s, i) # Begin(Cluster)  BY <1>1, ItemTypes DEF Object, Begin
    <3>3. PICK p \in ReaderStates : p = Apply(q, Object(s, i)) /\ Path(q, <<Object(s, i)>>, p)
      BY <1>2, <3>2, ApplyType, PathOneItem
    <3>4. p = [q EXCEPT !.mirror[s] = i]  BY <1>1, <1>2, <3>3, AppliedObject
    <3>5. /\ p.mirror = [q.mirror EXCEPT ![s] = i] /\ p.staging = q.staging /\ p.relisting = q.relisting
          /\ p.completed = q.completed /\ p.gapped = q.gapped /\ p.ready = q.ready
      BY <1>2, <3>4 DEF ReaderStates
    <3>6. \A x \in ObjectScopes : p.mirror[x] = IF x = s THEN i ELSE q.mirror[x]  BY <1>3, <3>5, ScopeKinds
    <3>7. End(p)'  BY <1>1, <2>3, <2>5, <3>5, <3>6 DEF End
    <3>8. QED  BY <3>1, <3>2, <3>3, <3>7, OneItem, QuietOne DEF Brings
  <2>6. CASE ~log[i].there /\ seen[s] # 0
    <3>1. EventItems(s, i) = <<Deleted(s)>>  BY <1>5, <2>6 DEF EventItems
    <3>2. Deleted(s) \in Items /\ Deleted(s) # Begin(Cluster)  BY ItemTypes DEF Deleted, Begin
    <3>3. PICK p \in ReaderStates : p = Apply(q, Deleted(s)) /\ Path(q, <<Deleted(s)>>, p)
      BY <1>2, <3>2, ApplyType, PathOneItem
    <3>4. p = [q EXCEPT !.mirror[s] = 0]  BY <1>2, <3>3, AppliedDeleted
    <3>5. /\ p.mirror = [q.mirror EXCEPT ![s] = 0] /\ p.staging = q.staging /\ p.relisting = q.relisting
          /\ p.completed = q.completed /\ p.gapped = q.gapped /\ p.ready = q.ready
      BY <1>2, <3>4 DEF ReaderStates
    <3>6. \A x \in ObjectScopes : p.mirror[x] = IF x = s THEN 0 ELSE q.mirror[x]  BY <1>3, <3>5, ScopeKinds
    <3>7. End(p)'  BY <1>1, <2>3, <2>6, <3>5, <3>6 DEF End
    <3>8. QED  BY <3>1, <3>2, <3>3, <3>7, OneItem, QuietOne DEF Brings
  <2>7. \/ (log[i].there /\ seen[s] = i) \/ (~log[i].there /\ seen[s] = 0)
        \/ (log[i].there /\ seen[s] # i) \/ (~log[i].there /\ seen[s] # 0)
    OBVIOUS
  <2>8. QED  BY <2>4, <2>5, <2>6, <2>7, Zenon
<1>6. QED  BY <1>4, <1>5

\* The items about the whole cluster that are no snapshot are items, and quiet.
LEMMA RemarkItems ==
    /\ <<BackendGap>> \in Seq(Items) /\ Quiet(<<BackendGap>>)
    /\ <<Heartbeat>> \in Seq(Items) /\ Quiet(<<Heartbeat>>)
<1>1. BackendGap \in Items /\ Heartbeat \in Items  BY ItemTypes DEF BackendGap, Reasons
<1>2. BackendGap # Begin(Cluster) /\ Heartbeat # Begin(Cluster)  BY DEF BackendGap, Gap, Heartbeat, Begin
<1>3. QED  BY <1>1, <1>2, OneItem, QuietOne

\* A failed watch, whether or not it is the first failure of an outage.
LEMMA FailWatchBrings ==
    ASSUME NEW s \in Scopes, FailWatch(s), NEW q, End(q)
    PROVE  /\ FailureItems(s) \in Seq(Items) /\ Quiet(FailureItems(s))
           /\ Brings(q, FailureItems(s))
<1>1. UNCHANGED <<seen, pending, versions>>  BY DEF FailWatch
<1>2. Brings(q, <<>>) /\ Brings(q, <<BackendGap>>)  BY <1>1, NothingBrings, RemarkBrings
<1>3. QED  BY <1>2, NoItems, RemarkItems DEF FailureItems

------------------------------------------------------------------------------
(* The invariant.  Who reads on from the cursor to the end of the buffer, and   *)
(* whoever reads the buffer from its baseline, has all that the connector knows. *)

Ends(r, items) == \E q \in ReaderStates : Path(r, items, q) /\ End(q)

FromCursor == ~NeedsBaseline(cursor) => Ends(Reader, page \o After(buf, cursor))
FromBase == base # 0 => \A r \in ReaderStates : Ends(r, After(buf, base - 1))

\* Where no state of the feed is known to differ, what brings a reader to the end does so still.
LEMMA SameEnds ==
    ASSUME UNCHANGED feedVars, NEW r, NEW items, Ends(r, items) PROVE Brings(r, items)
<1>1. PICK q \in ReaderStates : Path(r, items, q) /\ End(q)  BY DEF Ends
<1>2. End(q)'  BY <1>1 DEF End, feedVars
<1>3. QED  BY <1>1, <1>2 DEF Brings

\* Items that bring every reader at its end to the new end do so behind items that lead to an end.
LEMMA BringsMore ==
    ASSUME NEW r, NEW front \in Seq(Items), NEW items \in Seq(Items), Ends(r, front),
           \A q \in ReaderStates : End(q) => Brings(q, items)
    PROVE  Brings(r, front \o items)
<1>1. PICK q \in ReaderStates : Path(r, front, q) /\ End(q)  BY DEF Ends
<1>2. PICK p \in ReaderStates : Path(q, items, p) /\ End(p)'  BY <1>1 DEF Brings
<1>3. Path(r, front \o items, p)  BY <1>1, <1>2, PathJoin
<1>4. QED  BY <1>2, <1>3 DEF Brings

BufferType == buf \in Seq(Items) /\ Len(buf) <= BufferLen /\ base \in 0 .. Len(buf)
CursorType == cursor \in {NoCursor, OldEpoch} \cup (-1 .. Len(buf))

\* What the items that go into the buffer bring to the reader whose cursor is kept.
LEMMA CursorKept ==
    ASSUME BufferType, CursorType, page \in Seq(Items), FromCursor, NEW items \in Seq(Items), Buffer(items),
           \A q \in ReaderStates : End(q) => Brings(q, items)
    PROVE  /\ Moved(cursor, items) \in {NoCursor, OldEpoch} \cup (-1 .. Len(buf'))
           /\ ~NeedsBaseline(Moved(cursor, items)) =>
                  /\ Moved(cursor, items) \in 0 .. Len(buf')
                  /\ Brings(Reader, page \o After(buf', Moved(cursor, items)))
<1>1. buf' = Kept(buf \o items)  BY DEF Buffer
<1>2. PICK c \in {NoCursor, OldEpoch} \cup (-1 .. Len(buf)) : c = cursor  BY DEF CursorType
<1>3. /\ Moved(c, items) \in {NoCursor, OldEpoch} \cup (-1 .. Len(buf'))
      /\ ~NeedsBaseline(Moved(c, items)) =>
             /\ ~NeedsBaseline(c) /\ c \in 0 .. Len(buf)
             /\ Moved(c, items) \in 0 .. Len(buf')
             /\ After(buf', Moved(c, items)) = After(buf, c) \o items
  BY <1>1, CursorMoves DEF BufferType
<1>4. ASSUME ~NeedsBaseline(Moved(c, items)) PROVE Brings(Reader, page \o After(buf', Moved(c, items)))
  <2>1. PICK a \in Seq(Items) : a = After(buf, c)  BY <1>3, <1>4, AfterItems DEF BufferType
  <2>2. Ends(Reader, page \o a)  BY <1>2, <1>3, <1>4, <2>1 DEF FromCursor
  <2>3. page \o a \in Seq(Items)  BY Joined
  <2>4. Brings(Reader, (page \o a) \o items)  BY <2>2, <2>3, BringsMore
  <2>5. (page \o a) \o items = page \o (a \o items)  BY ThreeJoined
  <2>6. After(buf', Moved(c, items)) = a \o items  BY <1>3, <1>4, <2>1
  <2>7. QED  BY <2>4, <2>5, <2>6
<1>5. QED  BY <1>2, <1>3, <1>4

\* A baseline that stays in the buffer leads every reader to the end, with what is new.
LEMMA BaseKept ==
    ASSUME BufferType, FromBase, NEW items \in Seq(Items), Buffer(items), Quiet(items),
           \A q \in ReaderStates : End(q) => Brings(q, items)
    PROVE  /\ buf' \in Seq(Items) /\ Len(buf') <= BufferLen /\ base' \in 0 .. Len(buf')
           /\ base' # 0 => /\ base # 0 /\ base' - 1 \in 0 .. Len(buf')
                           /\ \A r \in ReaderStates : Brings(r, After(buf', base' - 1))
<1>1. /\ buf' \in Seq(Items) /\ Len(buf') <= BufferLen /\ base' \in 0 .. Len(buf')
      /\ base' # 0 => /\ base # 0 /\ base - 1 \in 0 .. Len(buf) /\ base' - 1 \in 0 .. Len(buf')
                      /\ After(buf', base' - 1) = After(buf, base - 1) \o items
  BY BaseMoves DEF BufferType
<1>2. ASSUME base' # 0, NEW r \in ReaderStates PROVE Brings(r, After(buf', base' - 1))
  <2>1. PICK a \in Seq(Items) : a = After(buf, base - 1)  BY <1>1, <1>2, AfterItems DEF BufferType
  <2>2. Ends(r, a)  BY <1>1, <1>2, <2>1 DEF FromBase
  <2>3. Brings(r, a \o items)  BY <2>2, BringsMore
  <2>4. QED  BY <1>1, <1>2, <2>1, <2>3
<1>3. QED  BY <1>1, <1>2

\* The snapshot a step puts into the buffer leads every reader to the end.
LEMMA BaseNew ==
    ASSUME BufferType, NEW items \in Seq(Items), Buffer(items),
           Begin(Cluster) \in ToSet(items), Len(items) <= BufferLen,
           \A r \in ReaderStates : Brings(r, items)
    PROVE  /\ buf' \in Seq(Items) /\ Len(buf') <= BufferLen /\ base' \in 0 .. Len(buf') /\ base' # 0
           /\ base' - 1 \in 0 .. Len(buf')
           /\ \A r \in ReaderStates : Brings(r, After(buf', base' - 1))
<1>1. /\ buf' \in Seq(Items) /\ Len(buf') <= BufferLen /\ base' \in 0 .. Len(buf') /\ base' # 0
      /\ base' - 1 \in 0 .. Len(buf') /\ After(buf', base' - 1) = items
  BY BaseBegins DEF BufferType
<1>2. QED  BY <1>1

\* The parts of the invariant after a step of the connector that leaves the reader alone.
LEMMA PutKeeps ==
    ASSUME BufferType, CursorType, page \in Seq(Items), FromCursor, FromBase,
           NEW items \in Seq(Items), Put(items),
           \A q \in ReaderStates : End(q) => Brings(q, items),
           \/ Quiet(items)
           \/ /\ Begin(Cluster) \in ToSet(items) /\ Len(items) <= BufferLen
              /\ \A r \in ReaderStates : Brings(r, items),
           UNCHANGED readerVars
    PROVE  BufferType' /\ CursorType' /\ FromCursor' /\ FromBase'
<1>1. Buffer(items) /\ cursor' = Moved(cursor, items)  BY DEF Put
<1>2. Reader' = Reader /\ page' = page  BY DEF readerVars, Reader
<1>3. CursorType' /\ FromCursor'
  <2>1. /\ cursor' \in {NoCursor, OldEpoch} \cup (-1 .. Len(buf'))
        /\ ~NeedsBaseline(cursor') => Brings(Reader, page \o After(buf', cursor'))
    BY <1>1, CursorKept
  <2>2. ASSUME ~NeedsBaseline(cursor') PROVE Ends(Reader, page \o After(buf, cursor))'
    <3>1. PICK q \in ReaderStates : Path(Reader, page \o After(buf', cursor'), q) /\ End(q)'
      BY <2>1, <2>2 DEF Brings
    <3>2. QED  BY <1>2, <3>1 DEF Ends, After
  <2>3. QED  BY <2>1, <2>2 DEF CursorType, FromCursor, NeedsBaseline
<1>4. /\ BufferType'
      /\ base' # 0 => \A r \in ReaderStates : Brings(r, After(buf', base' - 1))
  <2>1. CASE Quiet(items)  BY <1>1, <2>1, BaseKept DEF BufferType
  <2>2. CASE /\ Begin(Cluster) \in ToSet(items) /\ Len(items) <= BufferLen
             /\ \A r \in ReaderStates : Brings(r, items)
    BY <1>1, <2>2, BaseNew DEF BufferType
  <2>3. QED  BY <2>1, <2>2
<1>5. FromBase'
  <2>1. ASSUME base' # 0, NEW r \in ReaderStates PROVE Ends(r, After(buf, base - 1))'
    <3>1. PICK q \in ReaderStates : Path(r, After(buf', base' - 1), q) /\ End(q)'
      BY <1>4, <2>1 DEF Brings
    <3>2. QED  BY <3>1 DEF Ends, After
  <2>2. QED  BY <2>1 DEF FromBase
<1>6. QED  BY <1>3, <1>4, <1>5

------------------------------------------------------------------------------
(* Reading. *)

\* What comes after position p is what a page takes of it, and what comes after the page.
LEMMA AfterPage ==
    ASSUME NEW b \in Seq(Items), NEW p \in 0 .. Len(b), NEW e \in p .. Len(b)
    PROVE  /\ SubSeq(b, p + 1, e) \in Seq(Items) /\ Len(SubSeq(b, p + 1, e)) = e - p
           /\ After(b, e) \in Seq(Items)
           /\ After(b, p) = SubSeq(b, p + 1, e) \o After(b, e)
<1>1. PICK n \in Nat : n = Len(b)  BY LenProperties
<1>2. p \in Nat /\ e \in Nat /\ p <= e /\ e <= n  BY <1>1
<1>3. PICK x \in Nat, y \in Nat, z \in Nat : x = e - p /\ y = n - e /\ z = n - p /\ z = x + y
  <2>1. e - p \in Nat /\ n - e \in Nat /\ n - p \in Nat /\ n - p = (e - p) + (n - e)  BY <1>2
  <2>2. QED  BY <2>1
<1>4. PICK u \in Seq(Items) : u = SubSeq(b, p + 1, e) /\ Len(u) = x /\ \A i \in 1 .. x : u[i] = b[p + i]
  <2>1. p + 1 \in Int /\ e \in Int /\ e - (p + 1) + 1 = x /\ (p + 1 <= e \/ x = 0)  BY <1>2, <1>3
  <2>2. \A i \in 1 .. x : (p + 1) + i - 1 = p + i  BY <1>2, <1>3
  <2>3. \A i \in p + 1 .. e : b[i] \in Items  BY <1>1, <1>2, ElementOfSeq
  <2>4. /\ SubSeq(b, p + 1, e) \in Seq(Items)
        /\ Len(SubSeq(b, p + 1, e)) = IF p + 1 <= e THEN e - (p + 1) + 1 ELSE 0
        /\ \A i \in 1 .. e - (p + 1) + 1 : SubSeq(b, p + 1, e)[i] = b[(p + 1) + i - 1]
    BY <2>1, <2>3, SubSeqProperties
  <2>5. QED  BY <2>1, <2>2, <2>4
<1>5. PICK v \in Seq(Items) : v = After(b, e) /\ Len(v) = y /\ \A i \in 1 .. y : v[i] = b[e + i]
  <2>1. e \in 0 .. Len(b) /\ Len(b) - e = y  BY <1>1, <1>2, <1>3
  <2>2. QED  BY <2>1, AfterItems
<1>6. PICK w \in Seq(Items) : w = After(b, p) /\ Len(w) = z /\ \A i \in 1 .. z : w[i] = b[p + i]
  <2>1. Len(b) - p = z  BY <1>1, <1>3
  <2>2. QED  BY <2>1, AfterItems
<1>7. /\ u \o v \in Seq(Items) /\ Len(u \o v) = x + y
      /\ \A i \in 1 .. x + y : (u \o v)[i] = IF i <= x THEN u[i] ELSE v[i - x]
  <2>1. /\ u \o v \in Seq(Items) /\ Len(u \o v) = Len(u) + Len(v)
        /\ \A i \in 1 .. Len(u) + Len(v) : (u \o v)[i] = IF i <= Len(u) THEN u[i] ELSE v[i - Len(u)]
    BY ConcatProperties
  <2>2. QED  BY <1>4, <1>5, <2>1
<1>8. ASSUME NEW i \in 1 .. z PROVE w[i] = (u \o v)[i]
  <2>1. CASE i <= x
    <3>1. i \in 1 .. x /\ i \in 1 .. x + y  BY <1>3, <2>1
    <3>2. (u \o v)[i] = u[i]  BY <1>7, <2>1, <3>1
    <3>3. QED  BY <1>4, <1>6, <3>1, <3>2
  <2>2. CASE ~(i <= x)
    <3>1. PICK k \in 1 .. y : k = i - x /\ e + k = p + i /\ i \in 1 .. x + y
      <4>1. i - x \in 1 .. y /\ e + (i - x) = p + i /\ i \in 1 .. x + y  BY <1>2, <1>3, <2>2
      <4>2. QED  BY <4>1
    <3>2. (u \o v)[i] = v[k]  BY <1>7, <2>2, <3>1
    <3>3. v[k] = b[p + i]  BY <1>5, <3>1
    <3>4. QED  BY <1>6, <3>2, <3>3
  <2>3. QED  BY <2>1, <2>2
<1>9. w = u \o v  BY <1>3, <1>6, <1>7, <1>8, SeqEqual
<1>10. QED  BY <1>3, <1>4, <1>5, <1>6, <1>9

\* After the last item there is none.
LEMMA NothingAfter == ASSUME NEW b \in Seq(Items) PROVE After(b, Len(b)) = <<>>
<1>1. Len(b) \in 0 .. Len(b) /\ Len(b) - Len(b) = 0  BY LenProperties
<1>2. After(b, Len(b)) \in Seq(Items) /\ Len(After(b, Len(b))) = Len(b) - Len(b)  BY <1>1, AfterItems
<1>3. QED  BY <1>1, <1>2, EmptySeq

\* The gap a page begins with is an item of its own, if there is one.
LEMMA PageGapPath ==
    ASSUME NEW c, NEW r \in ReaderStates
    PROVE  PageGap(c) \in Seq(Items) /\ \E q \in ReaderStates : Path(r, PageGap(c), q)
<1>1. ASSUME NEW reason \in Reasons
      PROVE  <<Gap(Cluster, reason)>> \in Seq(Items) /\ \E q \in ReaderStates : Path(r, <<Gap(Cluster, reason)>>, q)
  <2>1. Gap(Cluster, reason) \in Items  BY ItemTypes
  <2>2. QED  BY <2>1, OneItem, ApplyType, PathOneItem
<1>2. "CONNECTOR_RESTART" \in Reasons /\ "BUFFER_EXPIRED" \in Reasons  BY DEF Reasons
<1>3. QED  BY <1>1, <1>2, NoItems, PathNone DEF PageGap

\* A path before what brings a reader to the end.
LEMMA BringsAfter ==
    ASSUME NEW r, NEW q \in ReaderStates, NEW front \in Seq(Items), NEW items \in Seq(Items),
           Path(r, front, q), Brings(q, items)
    PROVE  Brings(r, front \o items)
<1>1. PICK p \in ReaderStates : Path(q, items, p) /\ End(p)'  BY DEF Brings
<1>2. Path(r, front \o items, p)  BY <1>1, PathJoin
<1>3. QED  BY <1>1, <1>2 DEF Brings

\* A page and what is left in the buffer after it lead the reader to the end; a short page does so
\* by itself.
LEMMA TakeBrings ==
    ASSUME NEW b \in Seq(Items), NEW c \in {NoCursor, OldEpoch} \cup (-1 .. Len(b)), NEW from \in 0 .. Len(b),
           Reader \in ReaderStates, Take(c, b, from),
           ~NeedsBaseline(c) => Brings(Reader, After(b, c)),
           from # 0 => \A r \in ReaderStates : Brings(r, After(b, from - 1))
    PROVE  /\ page' \in Seq(Items) /\ cursor' \in 0 .. Len(b) /\ drained' \in BOOLEAN
           /\ Brings(Reader, page' \o After(b, cursor'))
           /\ drained' => Brings(Reader, page')
<1>1. PICK n \in Nat : n = Len(b)  BY LenProperties
<1>2. PICK p \in 0 .. n : p = (IF NeedsBaseline(c) THEN from - 1 ELSE c) /\ p \in Nat
  <2>1. CASE NeedsBaseline(c)
    <3>1. from # 0  BY <2>1 DEF Take
    <3>2. from - 1 \in 0 .. n /\ from - 1 \in Nat  BY <1>1, <3>1
    <3>3. QED  BY <2>1, <3>2
  <2>2. CASE ~NeedsBaseline(c)
    <3>1. c \in 0 .. n /\ c \in Nat  BY <1>1, <2>2 DEF NeedsBaseline
    <3>2. QED  BY <2>2, <3>1
  <2>3. QED  BY <2>1, <2>2
<1>3. PICK e \in p .. n : e = Min({p + PageLimit, Len(b)}) /\ e \in Nat /\ (e = p + PageLimit \/ e = n)
  <2>1. PageLimit \in Nat \ {0}  BY BufferAssumption
  <2>2. Min({p + PageLimit, n}) = IF p + PageLimit <= n THEN p + PageLimit ELSE n
    <3>1. p + PageLimit \in Int /\ n \in Int  BY <1>2, <2>1
    <3>2. QED  BY <3>1, MinOfTwo
  <2>3. Min({p + PageLimit, n}) \in p .. n /\ Min({p + PageLimit, n}) \in Nat
        /\ (Min({p + PageLimit, n}) = p + PageLimit \/ Min({p + PageLimit, n}) = n)
    BY <1>2, <2>1, <2>2
  <2>4. QED  BY <1>1, <2>3
<1>4. PICK g \in Seq(Items), u \in Seq(Items), a \in Seq(Items) :
          g = PageGap(c) /\ u = SubSeq(b, p + 1, e) /\ a = After(b, e) /\ Len(u) = e - p /\ After(b, p) = u \o a
  <2>1. PageGap(c) \in Seq(Items)  BY PageGapPath
  <2>2. p \in 0 .. Len(b) /\ e \in p .. Len(b)  BY <1>1
  <2>3. /\ SubSeq(b, p + 1, e) \in Seq(Items) /\ Len(SubSeq(b, p + 1, e)) = e - p
        /\ After(b, e) \in Seq(Items)
        /\ After(b, p) = SubSeq(b, p + 1, e) \o After(b, e)
    BY <2>2, AfterPage
  <2>4. QED  BY <2>1, <2>3
<1>5. page' = g \o u /\ cursor' = e /\ drained' = (Len(page') < PageLimit)
  BY <1>2, <1>3, <1>4 DEF Take
<1>6. PICK q \in ReaderStates : Path(Reader, g, q) /\ Brings(q, After(b, p))
  <2>1. CASE NeedsBaseline(c)
    <3>1. from # 0 /\ p = from - 1  BY <1>2, <2>1 DEF Take
    <3>2. PICK q \in ReaderStates : Path(Reader, g, q)  BY <1>4, PageGapPath
    <3>3. QED  BY <3>1, <3>2
  <2>2. CASE ~NeedsBaseline(c)
    <3>1. g = <<>>  BY <1>4, <2>2 DEF PageGap, NeedsBaseline
    <3>2. Path(Reader, g, Reader)  BY <3>1, PathNone
    <3>3. QED  BY <1>2, <2>2, <3>2
  <2>3. QED  BY <2>1, <2>2
<1>7. Brings(Reader, (g \o u) \o a)
  <2>1. u \o a \in Seq(Items)  BY Joined
  <2>2. Brings(Reader, g \o (u \o a))  BY <1>4, <1>6, <2>1, BringsAfter
  <2>3. (g \o u) \o a = g \o (u \o a)  BY ThreeJoined
  <2>4. QED  BY <2>2, <2>3
<1>8. ASSUME drained' PROVE Brings(Reader, page')
  <2>1. PICK k \in Nat : k = Len(g)  BY LenProperties
  <2>2. Len(g \o u) = k + (e - p)
    <3>1. Len(g \o u) = Len(g) + Len(u)  BY Joined
    <3>2. QED  BY <1>4, <2>1, <3>1
  <2>3. e # p + PageLimit
    <3>1. k + (e - p) < PageLimit  BY <1>5, <1>8, <2>2
    <3>2. PageLimit \in Nat  BY BufferAssumption
    <3>3. QED  BY <1>2, <1>3, <2>1, <3>1, <3>2
  <2>4. a = <<>>  BY <1>1, <1>3, <1>4, <2>3, NothingAfter
  <2>5. g \o u \in Seq(Items)  BY Joined
  <2>6. (g \o u) \o a = g \o u  BY <2>4, <2>5, ConcatEmptySeq
  <2>7. QED  BY <1>5, <1>7, <2>6
<1>9. drained' \in BOOLEAN  BY <1>5
<1>10. page' \in Seq(Items) /\ cursor' \in 0 .. Len(b)
  <2>1. g \o u \in Seq(Items)  BY Joined
  <2>2. e \in 0 .. n  BY <1>2, <1>3
  <2>3. QED  BY <1>1, <1>5, <2>1, <2>2
<1>11. QED  BY <1>4, <1>5, <1>7, <1>8, <1>9, <1>10

------------------------------------------------------------------------------
(* The steps. *)

\* Every step of the stream is one of the connector, or leaves the connector as it is.
LEMMA StreamOfFeed == ASSUME StreamNext PROVE [Next]_feedVars
<1>1. CASE Connector  BY <1>1 DEF Connector, Reconcile, RetrySnapshot, Next
<1>2. CASE RestartConnector  BY <1>2 DEF RestartConnector, Next
<1>3. CASE ReadPage  BY <1>3 DEF ReadPage, Next
<1>4. CASE ReadWithoutBaseline  BY <1>4 DEF ReadWithoutBaseline, Next
<1>5. CASE ApplyItem \/ RestartReader \/ Journal  BY <1>5 DEF ApplyItem, RestartReader, Journal
<1>6. QED  BY <1>1, <1>2, <1>3, <1>4, <1>5 DEF StreamNext

JournalType == journal \in [ObjectScopes -> [body : Nat, there : BOOLEAN]]
PageType == page \in Seq(Items) /\ drained \in BOOLEAN /\ Reader \in ReaderStates

\* The inductive invariant: the connector's own (IInv), the types, and where the items lead.
StreamInv ==
    /\ IInv
    /\ BufferType /\ CursorType /\ PageType /\ JournalType
    /\ FromCursor /\ FromBase

\* A reader that has read nothing is a reader.
LEMMA FreshReaderType == FreshReader \in ReaderStates
<1>1. [s \in Scopes |-> 0] \in [Scopes -> Nat]  OBVIOUS
<1>2. QED  BY <1>1 DEF FreshReader, ReaderStates

\* What the steps put into the stream are items, whoever reads them.
LEMMA RelistType ==
    ASSUME TypeOK, NEW s \in Scopes PROVE RelistItems(s) \in Seq(Items) /\ Quiet(RelistItems(s))
<1>1. FreshReader \in ReaderStates /\ FreshReader.staging = NoStaging  BY FreshReaderType DEF FreshReader
<1>2. QED  BY <1>1, RelistPath

\* What an expired watch puts into the stream.
LEMMA ExpiryType ==
    ASSUME TypeOK, NEW s \in Scopes, NEW listed \in BOOLEAN
    PROVE  ExpiryItems(s, listed) \in Seq(Items) /\ Quiet(ExpiryItems(s, listed))
<1>1. PICK g \in Seq(Items) : g = <<Gap(s, "RESOURCE_VERSION_EXPIRED")>> /\ Quiet(g)
  <2>1. "RESOURCE_VERSION_EXPIRED" \in Reasons  BY DEF Reasons
  <2>2. Gap(s, "RESOURCE_VERSION_EXPIRED") \in Items  BY <2>1, ItemTypes
  <2>3. Gap(s, "RESOURCE_VERSION_EXPIRED") # Begin(Cluster)  BY DEF Gap, Begin
  <2>4. QED  BY <2>2, <2>3, OneItem, QuietOne
<1>2. PICK l \in Seq(Items) : l = (IF listed THEN RelistItems(s) ELSE <<>>) /\ Quiet(l)
  BY RelistType, NoItems
<1>3. ExpiryItems(s, listed) = IF ~Current(s) THEN <<>> ELSE g \o l  BY <1>1, <1>2 DEF ExpiryItems
<1>4. QED  BY <1>1, <1>2, <1>3, NoItems, Joined, QuietJoin

\* What a reconciliation puts into the stream.
LEMMA DeltaType ==
    ASSUME TypeOK, NEW failed \in SUBSET Scopes
    PROVE  DeltaItems(failed) \in Seq(Items) /\ Quiet(DeltaItems(failed))
<1>1. PICK A \in SUBSET Scopes, B \in SUBSET Scopes, C \in SUBSET Scopes, V \in SUBSET Scopes :
          /\ A = Changed(ObjectScopes \ failed) /\ B = Changed(EventScopes \ failed)
          /\ V = Vanished(failed) /\ C = ObjectScopes \ failed
  <2>1. /\ Changed(ObjectScopes \ failed) \in SUBSET Scopes /\ Changed(EventScopes \ failed) \in SUBSET Scopes
        /\ Vanished(failed) \in SUBSET Scopes /\ ObjectScopes \ failed \in SUBSET Scopes
    BY ScopeKinds DEF Changed, Present, Vanished
  <2>2. QED  BY <2>1
<1>2. PICK x \in Seq(Items), y \in Seq(Items), z \in Seq(Items), l \in Seq(Items) :
          /\ x = Objects(A) /\ y = Deletions(V) /\ z = Objects(B) /\ l = <<Status(Cluster, FALSE, C)>>
          /\ Quiet(x) /\ Quiet(y) /\ Quiet(z) /\ Quiet(l)
  <2>1. /\ Objects(A) \in Seq(Items) /\ Objects(B) \in Seq(Items) /\ Deletions(V) \in Seq(Items)
        /\ Quiet(Objects(A)) /\ Quiet(Objects(B)) /\ Quiet(Deletions(V))
    BY FreshReaderType, ObjectsPath, DeletionsPath
  <2>2. Status(Cluster, FALSE, C) \in Items  BY ItemTypes
  <2>3. Status(Cluster, FALSE, C) # Begin(Cluster)  BY DEF Status, Begin
  <2>4. QED  BY <2>1, <2>2, <2>3, OneItem, QuietOne
<1>3. DeltaItems(failed) = x \o y \o z \o l  BY <1>1, <1>2 DEF DeltaItems
<1>4. x \o y \in Seq(Items) /\ Quiet(x \o y)  BY <1>2, Joined, QuietJoin
<1>5. x \o y \o z \in Seq(Items) /\ Quiet(x \o y \o z)  BY <1>2, <1>4, Joined, QuietJoin
<1>6. x \o y \o z \o l \in Seq(Items) /\ Quiet(x \o y \o z \o l)  BY <1>2, <1>5, Joined, QuietJoin
<1>7. QED  BY <1>3, <1>6

\* At the start the buffer and the mirror are empty.
LEMMA StreamInitHolds == ASSUME StreamInit PROVE StreamInv
<1>1. IInv  BY InitHolds DEF StreamInit
<1>2. buf = <<>> /\ base = 0 /\ cursor = NoCursor /\ page = <<>> /\ drained = FALSE  BY DEF StreamInit
<1>3. BufferType
  <2>1. BufferLen \in Nat /\ Len(<<>>) = 0  BY BufferAssumption
  <2>2. <<>> \in Seq(Items)  BY NoItems
  <2>3. QED  BY <1>2, <2>1, <2>2 DEF BufferType
<1>4. CursorType  BY <1>2 DEF CursorType
<1>5. PageType
  <2>1. Reader = FreshReader  BY DEF Reader, FreshReader, StreamInit
  <2>2. QED  BY <1>2, <2>1, FreshReaderType, NoItems DEF PageType
<1>6. JournalType  BY DEF JournalType, StreamInit
<1>7. FromCursor /\ FromBase  BY <1>2 DEF FromCursor, FromBase, NeedsBaseline
<1>8. QED  BY <1>1, <1>3, <1>4, <1>5, <1>6, <1>7 DEF StreamInv

\* A step of the connector puts items into the buffer that bring every reader that had everything to the end
\* again; a snapshot among them brings any reader there.
LEMMA ConnectorPuts ==
    ASSUME TypeOK, Connector
    PROVE  \/ \E s \in Scopes : Silent(s) /\ UNCHANGED bufferVars
           \/ \E items \in Seq(Items) :
                 /\ Put(items)
                 /\ \A q \in ReaderStates : End(q) => Brings(q, items)
                 /\ \/ Quiet(items)
                    \/ /\ Begin(Cluster) \in ToSet(items) /\ Len(items) <= BufferLen
                       /\ \A r \in ReaderStates : Brings(r, items)
<1> DEFINE Good(items) ==
              /\ Put(items)
              /\ \A q \in ReaderStates : End(q) => Brings(q, items)
              /\ \/ Quiet(items)
                 \/ /\ Begin(Cluster) \in ToSet(items) /\ Len(items) <= BufferLen
                    /\ \A r \in ReaderStates : Brings(r, items)
<1>1. ASSUME NEW s \in Scopes, FailWatch(s), Put(FailureItems(s))
      PROVE  \E items \in Seq(Items) : Good(items)
  <2>1. FailureItems(s) \in Seq(Items) /\ Quiet(FailureItems(s))
    BY NoItems, RemarkItems DEF FailureItems
  <2>2. \A q \in ReaderStates : End(q) => Brings(q, FailureItems(s))  BY <1>1, FailWatchBrings
  <2>3. QED  BY <1>1, <2>1, <2>2
<1>2. ASSUME NEW s \in Scopes, NEW i \in 1 .. Now, Deliver(s, i), Put(EventItems(s, i))
      PROVE  \E items \in Seq(Items) : Good(items)
  <2>1. EventItems(s, i) \in Seq(Items) /\ Quiet(EventItems(s, i))
    <3>1. i \in Nat  BY NowIsNat
    <3>2. Object(s, i) \in Items /\ Deleted(s) \in Items  BY <3>1, ItemTypes
    <3>3. Object(s, i) # Begin(Cluster) /\ Deleted(s) # Begin(Cluster)  BY DEF Object, Deleted, Begin
    <3>4. QED  BY <3>2, <3>3, NoItems, OneItem, QuietOne DEF EventItems
  <2>2. \A q \in ReaderStates : End(q) => Brings(q, EventItems(s, i))  BY <1>2, DeliverBrings
  <2>3. QED  BY <1>2, <2>1, <2>2
<1>3. ASSUME NEW s \in Scopes, NEW listed \in BOOLEAN, Expire(s, listed), Put(ExpiryItems(s, listed))
      PROVE  \E items \in Seq(Items) : Good(items)
  <2>1. ExpiryItems(s, listed) \in Seq(Items) /\ Quiet(ExpiryItems(s, listed))  BY ExpiryType
  <2>2. \A q \in ReaderStates : End(q) => Brings(q, ExpiryItems(s, listed))  BY <1>3, ExpireBrings
  <2>3. QED  BY <1>3, <2>1, <2>2
<1>4. ASSUME NEW s \in Scopes, RetryRelist(s), Put(RelistItems(s))
      PROVE  \E items \in Seq(Items) : Good(items)
  <2>1. RelistItems(s) \in Seq(Items) /\ Quiet(RelistItems(s))  BY RelistType
  <2>2. \A q \in ReaderStates : End(q) => Brings(q, RelistItems(s))  BY <1>4, RelistBrings DEF RetryRelist
  <2>3. QED  BY <1>4, <2>1, <2>2
<1>5. ASSUME NEW failed \in SUBSET Scopes, Snapshot(failed), Put(SnapshotItems(failed))
      PROVE  \E items \in Seq(Items) : Good(items)
  <2>1. SnapshotItems(failed) \in Seq(Items) /\ Len(SnapshotItems(failed)) <= BufferLen
        /\ Begin(Cluster) \in ToSet(SnapshotItems(failed))
    BY SnapshotLength
  <2>2. \A q \in ReaderStates : Brings(q, SnapshotItems(failed))  BY <1>5, SnapshotBrings
  <2>3. QED  BY <1>5, <2>1, <2>2
<1>6. ASSUME NEW failed \in SUBSET Scopes, Delta(failed), Put(DeltaItems(failed))
      PROVE  \E items \in Seq(Items) : Good(items)
  <2>1. DeltaItems(failed) \in Seq(Items) /\ Quiet(DeltaItems(failed))  BY DeltaType
  <2>2. \A q \in ReaderStates : End(q) => Brings(q, DeltaItems(failed))  BY <1>6, DeltaBrings
  <2>3. QED  BY <1>6, <2>1, <2>2
<1>7. ASSUME PollFails, Put(<<BackendGap>>) PROVE \E items \in Seq(Items) : Good(items)
  <2>1. \A q \in ReaderStates : End(q) => Brings(q, <<BackendGap>>)  BY <1>7, RemarkBrings DEF PollFails
  <2>2. QED  BY <1>7, <2>1, RemarkItems
<1>8. ASSUME Beat, Put(<<Heartbeat>>) PROVE \E items \in Seq(Items) : Good(items)
  <2>1. \A q \in ReaderStates : End(q) => Brings(q, <<Heartbeat>>)  BY <1>8, RemarkBrings DEF Beat
  <2>2. QED  BY <1>8, <2>1, RemarkItems
<1> HIDE DEF Good
<1>9. (\E s \in Scopes : Silent(s) /\ UNCHANGED bufferVars) \/ (\E items \in Seq(Items) : Good(items))
  BY <1>1, <1>2, <1>3, <1>4, <1>5, <1>6, <1>7, <1>8 DEF Connector, Reconcile, RetrySnapshot
<1>10. QED  BY <1>9 DEF Good

\* What the types in the invariant say, as it is needed.
LEMMA TypesOf ==
    ASSUME StreamInv
    PROVE  /\ TypeOK /\ buf \in Seq(Items) /\ Len(buf) \in Nat /\ Len(buf) <= BufferLen /\ base \in 0 .. Len(buf)
           /\ cursor \in {NoCursor, OldEpoch} \cup (-1 .. Len(buf))
           /\ page \in Seq(Items) /\ drained \in BOOLEAN /\ Reader \in ReaderStates
<1>1. buf \in Seq(Items)  BY DEF StreamInv, BufferType
<1>2. Len(buf) \in Nat  BY <1>1, LenProperties
<1>3. QED  BY <1>1, <1>2 DEF StreamInv, IInv, BufferType, CursorType, PageType

\* Where the connector's steps leave the reader and its journal alone, so do their types.
LEMMA SameReaderType ==
    ASSUME PageType, JournalType, UNCHANGED <<readerVars, journal>> PROVE PageType' /\ JournalType'
  BY DEF PageType, JournalType, readerVars, Reader

\* A step of the connector and what it puts into the buffer.
LEMMA ConnectorKeeps ==
    ASSUME StreamInv, Connector, UNCHANGED <<readerVars, journal, readers>> PROVE StreamInv'
<1>1. TypeOK /\ page \in Seq(Items)  BY TypesOf
<1>2. IInv'
  <2>1. StreamNext  BY DEF StreamNext
  <2>2. QED  BY <2>1, StreamOfFeed, NextKeeps DEF StreamInv
<1>3. PageType' /\ JournalType'  BY SameReaderType DEF StreamInv
<1>4. BufferType' /\ CursorType' /\ FromCursor' /\ FromBase'
  <2>1. CASE \E s \in Scopes : Silent(s) /\ UNCHANGED bufferVars
    <3>1. PICK s \in Scopes : Silent(s)  BY <2>1
    <3>2. UNCHANGED <<buf, base, cursor>>  BY <2>1 DEF bufferVars
    <3>3. Reader' = Reader /\ page' = page  BY DEF readerVars, Reader
    <3>4. \A q \in ReaderStates : End(q) => End(q)'  BY <1>1, <3>1, SilentBrings
    <3>5. BufferType' /\ CursorType'  BY <3>2 DEF StreamInv, BufferType, CursorType
    <3>6. ASSUME ~NeedsBaseline(cursor) PROVE Ends(Reader, page \o After(buf, cursor))'
      <4>1. PICK q \in ReaderStates : Path(Reader, page \o After(buf, cursor), q) /\ End(q)
        BY <3>6 DEF StreamInv, FromCursor, Ends
      <4>2. QED  BY <3>2, <3>3, <3>4, <4>1 DEF Ends, After
    <3>7. ASSUME base # 0, NEW r \in ReaderStates PROVE Ends(r, After(buf, base - 1))'
      <4>1. PICK q \in ReaderStates : Path(r, After(buf, base - 1), q) /\ End(q)
        BY <3>7 DEF StreamInv, FromBase, Ends
      <4>2. QED  BY <3>2, <3>4, <4>1 DEF Ends, After
    <3>8. FromCursor'  BY <3>2, <3>6 DEF FromCursor, NeedsBaseline
    <3>9. FromBase'  BY <3>2, <3>7 DEF FromBase
    <3>10. QED  BY <3>5, <3>8, <3>9
  <2>2. ASSUME NEW items \in Seq(Items), Put(items), \A q \in ReaderStates : End(q) => Brings(q, items),
               \/ Quiet(items)
               \/ /\ Begin(Cluster) \in ToSet(items) /\ Len(items) <= BufferLen
                  /\ \A r \in ReaderStates : Brings(r, items)
        PROVE  BufferType' /\ CursorType' /\ FromCursor' /\ FromBase'
    BY <1>1, <2>2, PutKeeps DEF StreamInv
  <2>3. QED  BY <1>1, <2>1, <2>2, ConnectorPuts
<1>5. QED  BY <1>2, <1>3, <1>4 DEF StreamInv

\* A connector that was started again has no item and no baseline.
LEMMA RestartConnectorKeeps ==
    ASSUME StreamInv, RestartConnector, UNCHANGED <<readerVars, journal, readers>> PROVE StreamInv'
<1>1. IInv'
  <2>1. StreamNext  BY DEF StreamNext
  <2>2. QED  BY <2>1, StreamOfFeed, NextKeeps DEF StreamInv
<1>2. PageType' /\ JournalType'  BY SameReaderType DEF StreamInv
<1>3. buf' = <<>> /\ base' = 0 /\ cursor' \in {NoCursor, OldEpoch}  BY DEF RestartConnector
<1>4. BufferType'
  <2>1. BufferLen \in Nat /\ Len(<<>>) = 0  BY BufferAssumption
  <2>2. <<>> \in Seq(Items)  BY NoItems
  <2>3. QED  BY <1>3, <2>1, <2>2 DEF BufferType
<1>5. CursorType' /\ FromCursor' /\ FromBase'
  BY <1>3 DEF CursorType, FromCursor, FromBase, NeedsBaseline
<1>6. QED  BY <1>1, <1>2, <1>4, <1>5 DEF StreamInv

\* A page is taken: the reader will have what is told to its end.
LEMMA TakeKeeps ==
    ASSUME NEW c, NEW b, NEW from, Take(c, b, from), b = buf', from = base' \/ ~NeedsBaseline(c),
           page = <<>>, IInv', BufferType', JournalType, PageType,
           c \in {NoCursor, OldEpoch} \cup (-1 .. Len(b)), from \in 0 .. Len(b),
           ~NeedsBaseline(c) => Brings(Reader, After(b, c)),
           from # 0 => \A r \in ReaderStates : Brings(r, After(b, from - 1)),
           FromBase'
    PROVE  StreamInv' /\ (drained' => Brings(Reader, page'))
<1>1. b \in Seq(Items)  BY DEF BufferType
<1>2. /\ page' \in Seq(Items) /\ cursor' \in 0 .. Len(b) /\ drained' \in BOOLEAN
      /\ Brings(Reader, page' \o After(b, cursor')) /\ (drained' => Brings(Reader, page'))
  BY <1>1, TakeBrings DEF PageType
<1>3. Reader' = Reader /\ journal' = journal  BY DEF Take, Reader
<1>4. PageType' /\ JournalType'  BY <1>2, <1>3 DEF PageType, JournalType
<1>5. CursorType'
  <2>1. Len(b) \in Nat  BY <1>1, LenProperties
  <2>2. cursor' \in -1 .. Len(b)  BY <1>2, <2>1
  <2>3. QED  BY <2>2 DEF CursorType
<1>6. FromCursor'
  <2>1. PICK q \in ReaderStates : Path(Reader, page' \o After(b, cursor'), q) /\ End(q)'
    BY <1>2 DEF Brings
  <2>2. Ends(Reader, page \o After(buf, cursor))'  BY <1>3, <2>1 DEF Ends, After
  <2>3. QED  BY <2>2 DEF FromCursor
<1>7. QED  BY <1>2, <1>4, <1>5, <1>6 DEF StreamInv

\* A page is read from the cursor, or from the baseline that was there or is listed now.
LEMMA ReadPageKeeps ==
    ASSUME StreamInv, ReadPage PROVE StreamInv' /\ (drained' => Brings(Reader, page'))
<1>1. /\ TypeOK /\ page = <<>> /\ BufferType /\ CursorType /\ PageType /\ JournalType
      /\ FromCursor /\ FromBase /\ page \in Seq(Items)
  BY TypesOf DEF StreamInv, ReadPage, Reads
<1>2. IInv'
  <2>1. StreamNext  BY DEF StreamNext
  <2>2. QED  BY <2>1, StreamOfFeed, NextKeeps DEF StreamInv
<1>3. ASSUME NEW b \in Seq(Items), NEW p \in 0 .. Len(b) PROVE page \o After(b, p) = After(b, p)
  <2>1. After(b, p) \in Seq(Items)  BY AfterItems
  <2>2. <<>> \o After(b, p) = After(b, p)  BY <2>1, ConcatEmptySeq
  <2>3. QED  BY <1>1, <2>2
<1>4. CASE /\ base # 0
           /\ Take(cursor, buf, base)
           /\ UNCHANGED <<feedVars, buf, base>>
  <2>1. ASSUME ~NeedsBaseline(cursor) PROVE Brings(Reader, After(buf, cursor))
    <3>1. cursor \in 0 .. Len(buf)  BY <2>1, TypesOf DEF NeedsBaseline
    <3>2. page \o After(buf, cursor) = After(buf, cursor)  BY <1>3, <3>1, TypesOf
    <3>3. Ends(Reader, After(buf, cursor))  BY <1>1, <2>1, <3>2 DEF FromCursor
    <3>4. QED  BY <1>4, <3>3, SameEnds
  <2>2. \A r \in ReaderStates : Brings(r, After(buf, base - 1))
    <3>1. \A r \in ReaderStates : Ends(r, After(buf, base - 1))  BY <1>1, <1>4 DEF FromBase
    <3>2. QED  BY <1>4, <3>1, SameEnds
  <2>3. BufferType'  BY <1>1, <1>4 DEF BufferType
  <2>4. FromBase'
    <3>1. ASSUME NEW r \in ReaderStates PROVE Ends(r, After(buf, base - 1))'
      <4>1. PICK q \in ReaderStates : Path(r, After(buf, base - 1), q) /\ End(q)'  BY <2>2 DEF Brings
      <4>2. QED  BY <1>4, <4>1 DEF Ends, After
    <3>2. QED  BY <3>1 DEF FromBase
  <2>5. PICK c, b, from : c = cursor /\ b = buf /\ from = base  OBVIOUS
  <2>6. /\ Take(c, b, from) /\ b = buf' /\ from = base' /\ c \in {NoCursor, OldEpoch} \cup (-1 .. Len(b))
        /\ from \in 0 .. Len(b) /\ (~NeedsBaseline(c) => Brings(Reader, After(b, c)))
        /\ (from # 0 => \A r \in ReaderStates : Brings(r, After(b, from - 1)))
    BY <1>4, <2>1, <2>2, <2>5, TypesOf
  <2>7. QED  BY <1>1, <1>2, <2>3, <2>4, <2>6, TakeKeeps
<1>5. ASSUME NEW failed \in SUBSET Scopes, base = 0, Snapshot(failed), Buffer(SnapshotItems(failed)),
             Take(Moved(cursor, SnapshotItems(failed)), buf', base')
      PROVE  StreamInv' /\ (drained' => Brings(Reader, page'))
  <2>1. PICK items \in Seq(Items) : /\ items = SnapshotItems(failed) /\ Len(items) <= BufferLen
                                    /\ Begin(Cluster) \in ToSet(items)
    BY <1>1, SnapshotLength
  <2>2. \A q \in ReaderStates : Brings(q, items)  BY <1>1, <1>5, <2>1, SnapshotBrings
  <2>3. /\ buf' \in Seq(Items) /\ Len(buf') <= BufferLen /\ base' \in 0 .. Len(buf') /\ base' # 0
        /\ \A r \in ReaderStates : Brings(r, After(buf', base' - 1))
    BY <1>1, <1>5, <2>1, <2>2, BaseNew
  <2>4. PICK c : c = Moved(cursor, items)  OBVIOUS
  <2>5. /\ c \in {NoCursor, OldEpoch} \cup (-1 .. Len(buf'))
        /\ ~NeedsBaseline(c) => c \in 0 .. Len(buf') /\ Brings(Reader, page \o After(buf', c))
    BY <1>1, <1>5, <2>1, <2>2, <2>4, CursorKept
  <2>6. ~NeedsBaseline(c) => Brings(Reader, After(buf', c))  BY <1>3, <2>3, <2>5
  <2>7. BufferType'  BY <2>3 DEF BufferType
  <2>8. FromBase'
    <3>1. ASSUME NEW r \in ReaderStates PROVE Ends(r, After(buf, base - 1))'
      <4>1. PICK q \in ReaderStates : Path(r, After(buf', base' - 1), q) /\ End(q)'  BY <2>3 DEF Brings
      <4>2. QED  BY <4>1 DEF Ends, After
    <3>2. QED  BY <3>1 DEF FromBase
  <2>9. PICK b, from : b = buf' /\ from = base'  OBVIOUS
  <2>10. /\ Take(c, b, from) /\ c \in {NoCursor, OldEpoch} \cup (-1 .. Len(b))
         /\ from \in 0 .. Len(b) /\ (~NeedsBaseline(c) => Brings(Reader, After(b, c)))
         /\ (from # 0 => \A r \in ReaderStates : Brings(r, After(b, from - 1)))
    BY <1>5, <2>1, <2>3, <2>4, <2>5, <2>6, <2>9
  <2>11. QED  BY <1>1, <1>2, <2>7, <2>8, <2>9, <2>10, TakeKeeps
<1>6. QED  BY <1>4, <1>5 DEF ReadPage

\* A page is read although the listing of the missing baseline failed.
LEMMA ReadWithoutBaselineKeeps ==
    ASSUME StreamInv, ReadWithoutBaseline PROVE StreamInv' /\ (drained' => Brings(Reader, page'))
<1>1. /\ TypeOK /\ page = <<>> /\ BufferType /\ CursorType /\ PageType /\ JournalType
      /\ FromCursor /\ FromBase /\ page \in Seq(Items) /\ base = 0
      /\ PollFails /\ Buffer(<<BackendGap>>)
  BY TypesOf DEF StreamInv, ReadWithoutBaseline, Reads
<1>2. IInv'
  <2>1. StreamNext  BY DEF StreamNext
  <2>2. QED  BY <2>1, StreamOfFeed, NextKeeps DEF StreamInv
<1>3. PICK items \in Seq(Items) : items = <<BackendGap>> /\ Quiet(items)  BY RemarkItems
<1>4. \A q \in ReaderStates : End(q) => Brings(q, items)  BY <1>1, <1>3, RemarkBrings DEF PollFails
<1>5. buf' \in Seq(Items) /\ Len(buf') <= BufferLen /\ base' \in 0 .. Len(buf') /\ base' = 0
  BY <1>1, <1>3, <1>4, BaseKept
<1>6. BufferType' /\ FromBase'  BY <1>5 DEF BufferType, FromBase
<1>7. PICK c : c = Moved(cursor, items)  OBVIOUS
<1>8. /\ c \in {NoCursor, OldEpoch} \cup (-1 .. Len(buf'))
      /\ ~NeedsBaseline(c) => c \in 0 .. Len(buf') /\ Brings(Reader, page \o After(buf', c))
  BY <1>1, <1>3, <1>4, <1>7, CursorKept
<1>9. CASE NeedsBaseline(c)
  <2>1. cursor' = c /\ UNCHANGED <<readerVars, journal, readers>>  BY <1>3, <1>7, <1>9 DEF ReadWithoutBaseline
  <2>2. PageType' /\ JournalType'  BY <1>1, <2>1, SameReaderType
  <2>3. CursorType' /\ FromCursor'  BY <1>8, <1>9, <2>1 DEF CursorType, FromCursor, NeedsBaseline
  <2>4. ~drained'  BY <2>1 DEF ReadWithoutBaseline, Reads, readerVars
  <2>5. QED  BY <1>2, <1>6, <2>2, <2>3, <2>4 DEF StreamInv
<1>10. CASE ~NeedsBaseline(c)
  <2>1. Take(c, buf', 0)  BY <1>3, <1>7, <1>10 DEF ReadWithoutBaseline
  <2>2. Brings(Reader, After(buf', c))
    <3>1. After(buf', c) \in Seq(Items)  BY <1>5, <1>8, <1>10, AfterItems
    <3>2. <<>> \o After(buf', c) = After(buf', c)  BY <3>1, ConcatEmptySeq
    <3>3. QED  BY <1>1, <1>8, <1>10, <3>2
  <2>3. PICK b, from : b = buf' /\ from = 0  OBVIOUS
  <2>4. /\ Take(c, b, from) /\ c \in {NoCursor, OldEpoch} \cup (-1 .. Len(b))
        /\ from \in 0 .. Len(b) /\ (~NeedsBaseline(c) => Brings(Reader, After(b, c)))
        /\ from = 0
    BY <1>5, <1>8, <2>1, <2>2, <2>3
  <2>5. QED  BY <1>1, <1>2, <1>6, <1>10, <2>3, <2>4, TakeKeeps
<1>11. QED  BY <1>9, <1>10

\* The first of two parts that is not empty has the head of both.
LEMMA HeadOfJoin ==
    ASSUME NEW items \in Seq(Items), NEW more \in Seq(Items), items # <<>>
    PROVE  /\ items \o more # <<>> /\ Head(items \o more) = Head(items)
           /\ Tail(items \o more) = Tail(items) \o more /\ Tail(items) \in Seq(Items)
<1>1. Tail(items) \in Seq(Items) /\ <<Head(items)>> \in Seq(Items) /\ Head(items) \in Items
  BY HeadTailProperties
<1>2. items = <<Head(items)>> \o Tail(items)  OBVIOUS
<1>3. items \o more = <<Head(items)>> \o (Tail(items) \o more)  BY <1>1, <1>2, ThreeJoined
<1>4. PICK t \in Seq(Items) : t = Tail(items) \o more  BY <1>1, Joined
<1>5. <<Head(items)>> \o t # <<>> /\ Head(<<Head(items)>> \o t) = Head(items) /\ Tail(<<Head(items)>> \o t) = t
  BY <1>1
<1>6. QED  BY <1>1, <1>3, <1>4, <1>5

\* The reader goes one item along the path its page is the beginning of.
LEMMA ApplyItemKeeps == ASSUME StreamInv, ApplyItem PROVE StreamInv'
<1>1. page \in Seq(Items) /\ page # <<>> /\ Reader \in ReaderStates /\ page' = Tail(page)
  BY TypesOf DEF ApplyItem
<1>2. UNCHANGED <<feedVars, buf, base, cursor, drained, journal, readers>>  BY DEF ApplyItem, bufferVars
<1>3. Head(page) \in Items /\ Tail(page) \in Seq(Items)  BY <1>1, HeadTailProperties
<1>4. PICK r \in ReaderStates : r = Apply(Reader, Head(page))  BY <1>1, <1>3, ApplyType
<1>5. Reader' = r
  <2>1. /\ mirror' = r.mirror /\ staging' = r.staging /\ relisting' = r.relisting
        /\ completed' = r.completed /\ gapped' = r.gapped /\ ready' = r.ready /\ blocked' = r.blocked
    BY <1>4 DEF ApplyItem
  <2>2. r = [mirror |-> r.mirror, staging |-> r.staging, relisting |-> r.relisting, completed |-> r.completed,
             gapped |-> r.gapped, ready |-> r.ready, blocked |-> r.blocked]
    BY DEF ReaderStates
  <2>3. QED  BY <2>1, <2>2 DEF Reader
<1>6. IInv'  BY <1>2, StutterKeeps DEF StreamInv
<1>7. BufferType' /\ CursorType' /\ JournalType'  BY <1>2 DEF StreamInv, BufferType, CursorType, JournalType
<1>8. PageType'  BY <1>1, <1>2, <1>3, <1>5 DEF StreamInv, PageType
<1>9. FromBase'
  <2>1. ASSUME base # 0, NEW q \in ReaderStates PROVE Ends(q, After(buf, base - 1))'
    <3>1. Brings(q, After(buf, base - 1))  BY <1>2, <2>1, SameEnds DEF StreamInv, FromBase
    <3>2. PICK p \in ReaderStates : Path(q, After(buf, base - 1), p) /\ End(p)'  BY <3>1 DEF Brings
    <3>3. QED  BY <1>2, <3>2 DEF Ends, After
  <2>2. QED  BY <1>2, <2>1 DEF FromBase
<1>10. FromCursor'
  <2>1. ASSUME ~NeedsBaseline(cursor) PROVE Ends(Reader, page \o After(buf, cursor))'
    <3>1. cursor \in 0 .. Len(buf)  BY <2>1, TypesOf DEF NeedsBaseline
    <3>2. PICK a \in Seq(Items) : a = After(buf, cursor)  BY <3>1, TypesOf, AfterItems
    <3>3. Brings(Reader, page \o a)  BY <1>2, <2>1, <3>2, SameEnds DEF StreamInv, FromCursor
    <3>4. PICK q \in ReaderStates : Path(Reader, page \o a, q) /\ End(q)'  BY <3>3 DEF Brings
    <3>5. page \o a \in Seq(Items)  BY <1>1, Joined
    <3>6. page \o a # <<>> /\ Head(page \o a) = Head(page) /\ Tail(page \o a) = Tail(page) \o a
      BY <1>1, HeadOfJoin
    <3>7. Path(r, Tail(page) \o a, q)  BY <1>4, <3>4, <3>5, <3>6, PathGoesOn
    <3>8. After(buf, cursor)' = a  BY <1>2, <3>2 DEF After
    <3>9. QED  BY <1>1, <1>5, <3>4, <3>7, <3>8 DEF Ends
  <2>2. QED  BY <1>2, <2>1 DEF FromCursor, NeedsBaseline
<1>11. QED  BY <1>6, <1>7, <1>8, <1>9, <1>10 DEF StreamInv

\* A reader that was started again needs a baseline.
LEMMA RestartReaderKeeps == ASSUME StreamInv, RestartReader PROVE StreamInv'
<1>1. UNCHANGED <<feedVars, buf, base, journal>> /\ cursor' = NoCursor /\ page' = <<>> /\ drained' = FALSE
  BY DEF RestartReader
<1>2. Reader' = FreshReader  BY DEF RestartReader, Reader, FreshReader
<1>3. IInv'  BY <1>1, StutterKeeps DEF StreamInv
<1>4. BufferType' /\ CursorType' /\ JournalType'  BY <1>1 DEF StreamInv, BufferType, CursorType, JournalType
<1>5. PageType'  BY <1>1, <1>2, FreshReaderType, NoItems DEF PageType
<1>6. FromBase'
  <2>1. ASSUME base # 0, NEW q \in ReaderStates PROVE Ends(q, After(buf, base - 1))'
    <3>1. Brings(q, After(buf, base - 1))  BY <1>1, <2>1, SameEnds DEF StreamInv, FromBase
    <3>2. PICK p \in ReaderStates : Path(q, After(buf, base - 1), p) /\ End(p)'  BY <3>1 DEF Brings
    <3>3. QED  BY <1>1, <3>2 DEF Ends, After
  <2>2. QED  BY <1>1, <2>1 DEF FromBase
<1>7. FromCursor'  BY <1>1 DEF FromCursor, NeedsBaseline
<1>8. QED  BY <1>3, <1>4, <1>5, <1>6, <1>7 DEF StreamInv

\* Where neither the connector, nor the buffer, nor the reader changes, the invariant stays.
LEMMA NothingReadKeepsStream ==
    ASSUME StreamInv, UNCHANGED <<feedVars, bufferVars, mirror, staging, relisting, completed, gapped, ready, blocked, page>>,
           drained' \in BOOLEAN, JournalType'
    PROVE  StreamInv'
<1>1. UNCHANGED <<buf, base, cursor>> /\ Reader' = Reader /\ page' = page  BY DEF bufferVars, Reader
<1>2. IInv'  BY StutterKeeps DEF StreamInv
<1>3. BufferType' /\ CursorType' /\ PageType'
  BY <1>1 DEF StreamInv, BufferType, CursorType, PageType
<1>4. FromBase'
  <2>1. ASSUME base # 0, NEW q \in ReaderStates PROVE Ends(q, After(buf, base - 1))'
    <3>1. Brings(q, After(buf, base - 1))  BY <2>1, SameEnds DEF StreamInv, FromBase
    <3>2. PICK p \in ReaderStates : Path(q, After(buf, base - 1), p) /\ End(p)'  BY <3>1 DEF Brings
    <3>3. QED  BY <1>1, <3>2 DEF Ends, After
  <2>2. QED  BY <1>1, <2>1 DEF FromBase
<1>5. FromCursor'
  <2>1. ASSUME ~NeedsBaseline(cursor) PROVE Ends(Reader, page \o After(buf, cursor))'
    <3>1. Brings(Reader, page \o After(buf, cursor))  BY <2>1, SameEnds DEF StreamInv, FromCursor
    <3>2. PICK p \in ReaderStates : Path(Reader, page \o After(buf, cursor), p) /\ End(p)'  BY <3>1 DEF Brings
    <3>3. QED  BY <1>1, <3>2 DEF Ends, After
  <2>2. QED  BY <1>1, <2>1 DEF FromCursor, NeedsBaseline
<1>6. QED  BY <1>2, <1>3, <1>4, <1>5 DEF StreamInv

\* The journal is of no account to the buffer and the mirror.
LEMMA JournalKeeps == ASSUME StreamInv, Journal PROVE StreamInv'
<1>1. mirror \in [Scopes -> Nat]
  <2>1. Reader.mirror = mirror  BY DEF Reader
  <2>2. QED  BY <2>1, TypesOf, ReaderFields
<1>2. JournalType'
  <2>1. \A s \in ObjectScopes : mirror[s] \in Nat /\ journal[s] \in [body : Nat, there : BOOLEAN]
    BY <1>1, ScopeKinds DEF StreamInv, JournalType
  <2>2. \A s \in ObjectScopes :
            /\ [body |-> mirror[s], there |-> TRUE] \in [body : Nat, there : BOOLEAN]
            /\ [journal[s] EXCEPT !.there = FALSE] \in [body : Nat, there : BOOLEAN]
    BY <2>1
  <2>3. QED  BY <2>1, <2>2 DEF Journal, JournalType
<1>3. QED  BY <1>2, NothingReadKeepsStream DEF Journal

\* Every step keeps the invariant.
LEMMA StreamNextKeeps == ASSUME StreamInv, [StreamNext]_streamVars PROVE StreamInv'
<1>1. CASE StreamNext
  BY <1>1, ConnectorKeeps, RestartConnectorKeeps, ReadPageKeeps, ReadWithoutBaselineKeeps, ApplyItemKeeps,
     RestartReaderKeeps, JournalKeeps DEF StreamNext
<1>2. CASE UNCHANGED streamVars
  <2>1. UNCHANGED <<feedVars, bufferVars, readerVars, journal>>  BY <1>2 DEF streamVars
  <2>2. JournalType' /\ drained' \in BOOLEAN
    BY <2>1 DEF StreamInv, JournalType, PageType, readerVars
  <2>3. QED  BY <2>1, <2>2, NothingReadKeepsStream DEF readerVars
<1>3. QED  BY <1>1, <1>2

\* StreamInv holds always: see above for what it says of the cursor, the baseline and the mirror.
THEOREM StreamInvariance == StreamSpec => []StreamInv
<1>1. StreamInit => StreamInv  BY StreamInitHolds
<1>2. StreamInv /\ [StreamNext]_streamVars => StreamInv'  BY StreamNextKeeps
<1>3. QED  BY <1>1, <1>2, PTL DEF StreamSpec

------------------------------------------------------------------------------
(* What the invariant says of the mirror. *)

\* The buffer never holds more than changes_buffer_len items, a cursor or a baseline that is still in
\* it points into it, and the reader's page, its mirror and the journal are of the kinds of values
\* that StreamBuffer and the readers keep.
THEOREM StreamTypeCorrect == StreamSpec => []StreamTypeOK
<1>1. StreamInv => StreamTypeOK
  BY DEF StreamInv, StreamTypeOK, BufferType, CursorType, PageType, JournalType
<1>2. QED  BY <1>1, StreamInvariance, PTL

\* A reader that was given everything in the buffer and applied it has all that the connector knows.
LEMMA CaughtUpEnds == ASSUME StreamInv, CaughtUp PROVE End(Reader)
<1>1. page = <<>> /\ cursor = Len(buf)  BY DEF CaughtUp, Serves, Drained
<1>2. buf \in Seq(Items) /\ Len(buf) \in Nat  BY LenProperties DEF StreamInv, BufferType
<1>3. ~NeedsBaseline(cursor)
  <2>1. Len(buf) # -1 /\ Len(buf) # NoCursor /\ Len(buf) # OldEpoch  BY <1>2, CursorAssumption
  <2>2. QED  BY <1>1, <2>1 DEF NeedsBaseline
<1>4. After(buf, cursor) = <<>>  BY <1>1, <1>2, NothingAfter
<1>5. page \o After(buf, cursor) = <<>>
  <2>1. <<>> \o <<>> = <<>>  BY NoItems, ConcatEmptySeq
  <2>2. QED  BY <1>1, <1>4, <2>1
<1>6. Ends(Reader, <<>>)  BY <1>3, <1>5 DEF StreamInv, FromCursor
<1>7. PICK q \in ReaderStates : Path(Reader, <<>>, q) /\ End(q)  BY <1>6 DEF Ends
<1>8. q = Reader
  <2>1. Len(<<>>) = 0  OBVIOUS
  <2>2. QED  BY <1>7, <2>1 DEF Path
<1>9. QED  BY <1>7, <1>8

\* However the listings, relists, gaps and single changes of the cluster were cut into pages, and
\* whatever the buffer dropped before it was read: a reader that was given everything, and answers,
\* shows of each scope it calls complete what the connector last saw of it
\* (StreamedClusterReader._apply against Connector._seen).
THEOREM MirrorCanBeBelieved == StreamSpec => []MirrorAgrees
<1>1. StreamInv => MirrorAgrees
  <2>1. SUFFICES ASSUME StreamInv, CaughtUp, NEW s \in completed \ gapped, s \in ObjectScopes
                 PROVE  mirror[s] = seen[s]
    BY DEF MirrorAgrees
  <2>2. End(Reader)  BY <2>1, CaughtUpEnds
  <2>3. QED  BY <2>1, <2>2 DEF End, Reader
<1>2. QED  BY <1>1, StreamInvariance, PTL

\* A scope whose watch expired and that was not listed since is not among those a reader that was
\* given everything calls complete: the absence of an object from it says nothing (RESOURCE_VERSION_
\* EXPIRED, Connector._pending_relists against the reader's gapped scopes).
THEOREM GapsAreHonoured == StreamSpec => []GapsHonoured
<1>1. StreamInv => GapsHonoured
  <2>1. SUFFICES ASSUME StreamInv, CaughtUp PROVE pending \cap (completed \ gapped) = {}
    BY DEF GapsHonoured
  <2>2. End(Reader)  BY <2>1, CaughtUpEnds
  <2>3. QED  BY <2>1, <2>2 DEF End, Reader
<1>2. QED  BY <1>1, StreamInvariance, PTL

\* From one end to the other: if the watch of a scope has told all there is and the reader was given all
\* that was put into the buffer, the objects it lists are those of the cluster, and an absent one is not
\* there (StreamedClusterReader.list_objects against the API server).
THEOREM MirrorShowsTheCluster == StreamSpec => []MirrorIsCluster
<1>1. StreamInv => MirrorIsCluster
  <2>1. SUFFICES ASSUME StreamInv, CaughtUp, NEW s \in ObjectScopes, s \in completed \ gapped,
                        Current(s), watch[s].open, Undelivered(s) = {}
                 PROVE  mirror[s] = Content(s, Now)
    BY DEF MirrorIsCluster
  <2>2. End(Reader)  BY <2>1, CaughtUpEnds
  <2>3. mirror[s] = seen[s] /\ versions[s] # NoVersion  BY <2>1, <2>2 DEF End, Reader
  <2>4. seen[s] = Content(s, Now)  BY <2>1, <2>3, ReadUpToNow DEF StreamInv
  <2>5. QED  BY <2>3, <2>4
<1>2. QED  BY <1>1, StreamInvariance, PTL

\* The stream's connector is the connector of ChangeFeed: with the items its steps put into the buffer
\* and the reader beside it, it takes steps of that specification only.
THEOREM StreamTakesFeedSteps == StreamSpec => Init /\ [][Next]_feedVars
<1>1. StreamInit => Init  BY DEF StreamInit
<1>2. [StreamNext]_streamVars => [Next]_feedVars
  <2>1. ASSUME UNCHANGED streamVars PROVE UNCHANGED feedVars  BY <2>1 DEF streamVars
  <2>2. QED  BY <2>1, StreamOfFeed
<1>3. QED  BY <1>1, <1>2, PTL DEF StreamSpec

------------------------------------------------------------------------------
(* The journal.  A reader that has drained the stream, and is still to apply the rest of a short page,  *)
(* comes to a mirror in which of every scope it calls complete an object is missing that was recorded   *)
(* only if it was deleted at some time.                                                                 *)

\* The object of scope s was written, and was deleted, at some time.
WrittenOnce(s) == \E i \in 1 .. Now : log[i] = [scope |-> s, there |-> TRUE]
DeletedOnce(s) == \E i \in 1 .. Now : Deletes(i, s)

\* The object was there, and if the connector knows that it is not it was deleted.
Accounted(s) == WrittenOnce(s) /\ (versions[s] # NoVersion /\ seen[s] = 0 => DeletedOnce(s))

SeenWritten(s) == seen[s] # 0 => WrittenOnce(s)
Recorded(s) == journal[s].there => Accounted(s)

\* What the mirror of reader q says of scope s can be recorded.
HeldOf(q, s) ==
    /\ q.mirror[s] # 0 => Accounted(s)
    /\ q.mirror[s] = 0 /\ s \in q.completed /\ journal[s].there => DeletedOnce(s)

Held(q) == \A s \in ObjectScopes : HeldOf(q, s)

Settled == drained => \E q \in ReaderStates : Path(Reader, page, q) /\ Held(q)

Known == IInv /\ JournalType /\ \A s \in ObjectScopes : SeenWritten(s) /\ Recorded(s)

JournalInv == StreamInv /\ Known /\ LastChanges /\ Settled

\* What a scope is like at a version was written by the last change of it.
LEMMA ContentMade ==
    ASSUME TypeOK, NEW s, NEW v \in 0 .. Now, NEW c, c = Content(s, v), c # 0
    PROVE  /\ c \in 1 .. v /\ log[c] = [scope |-> s, there |-> TRUE]
           /\ \A j \in c + 1 .. v : log[j].scope # s
<1>1. Now \in Nat /\ v \in Nat  BY NowIsNat
<1>2. PICK i \in 1 .. v : MakesIn(log, i, s, v)
  <2>1. ContentIn(log, s, v) # 0  BY ContentOfLog
  <2>2. QED  BY <2>1, MadeByNone
<1>3. c = i
  <2>1. ContentIn(log, s, v) = i  BY <1>1, <1>2, MadeBy
  <2>2. QED  BY <2>1, ContentOfLog
<1>4. log[i] \in [scope : Scopes, there : BOOLEAN]
  <2>1. PICK T : T = [scope : Scopes, there : BOOLEAN] /\ log \in Seq(T)  BY DEF TypeOK
  <2>2. i \in 1 .. Len(log)  BY <1>1 DEF Now
  <2>3. log[i] \in T  BY <2>1, <2>2, ElementOfLog
  <2>4. QED  BY <2>1, <2>3
<1>5. log[i] = [scope |-> s, there |-> TRUE]
  <2>1. log[i].scope = s /\ log[i].there = TRUE  BY <1>2, <1>4 DEF MakesIn
  <2>2. QED  BY <1>4, <2>1
<1>6. QED  BY <1>2, <1>3, <1>5 DEF MakesIn

\* A relist sees the scopes it lists as they are now.
LEMMA SeenByRelist ==
    ASSUME NEW scopes, Relist(scopes), NEW s \in ObjectScopes
    PROVE  \/ seen'[s] = Content(s, Now)
           \/ seen'[s] = seen[s] /\ versions'[s] = versions[s]
  BY ScopeKinds DEF Relist

\* What a step of the connector makes of what was seen of an object: nothing, what there is now, that
\* nothing is known, or what a change of it made.
LEMMA SeenSteps ==
    ASSUME TypeOK, [Next]_feedVars, NEW s \in ObjectScopes
    PROVE  \/ seen'[s] = seen[s] /\ (versions'[s] # NoVersion => versions[s] # NoVersion)
           \/ log' = log /\ seen'[s] = Content(s, Now)
           \/ log' = log /\ versions'[s] = NoVersion /\ seen'[s] = 0
           \/ log' = log /\ \E i \in 1 .. Now : log[i].scope = s /\ seen'[s] = IF log[i].there THEN i ELSE 0
<1> DEFINE Goal ==
           \/ seen'[s] = seen[s] /\ (versions'[s] # NoVersion => versions[s] # NoVersion)
           \/ log' = log /\ seen'[s] = Content(s, Now)
           \/ log' = log /\ versions'[s] = NoVersion /\ seen'[s] = 0
           \/ log' = log /\ \E i \in 1 .. Now : log[i].scope = s /\ seen'[s] = IF log[i].there THEN i ELSE 0
<1>1. s \in Scopes /\ DOMAIN versions = Scopes /\ DOMAIN seen = Scopes  BY ScopeKinds DEF TypeOK
<1>2. CASE UNCHANGED <<versions, seen>>  BY <1>2
<1>3. ASSUME NEW x \in Scopes, Silent(x) \/ FailWatch(x) PROVE Goal
  <2>1. CASE ~(Bookmark(x) \/ EndWatch(x))
    BY <1>2, <1>3, <2>1 DEF Silent, Change, OpenWatch, LearnVersion, CloseWatch, FailWatch
  <2>2. CASE EndWatch(x)  BY <1>1, <2>2 DEF EndWatch
  <2>3. CASE Bookmark(x)
    <3>1. CASE EndsUnseen(x)  BY <1>2, <3>1 DEF EndsUnseen
    <3>2. CASE ~EndsUnseen(x)
      <4>1. PICK n \in 1 .. Now : versions' = [versions EXCEPT ![x] = n] /\ versions[x] # NoVersion /\ seen' = seen
        BY <2>3, <3>2, BookmarkMoves
      <4>2. QED  BY <1>1, <4>1
    <3>3. QED  BY <3>1, <3>2
  <2>4. QED  BY <2>1, <2>2, <2>3
<1>4. ASSUME NEW x \in Scopes, NEW i \in 1 .. Now, Deliver(x, i) PROVE Goal
  <2>1. i \in Undelivered(x) /\ log' = log  BY <1>4 DEF Deliver
  <2>2. log[i].scope = x  BY <2>1 DEF Undelivered
  <2>3. CASE EndsUnseen(x)  BY <1>2, <2>3 DEF EndsUnseen
  <2>4. CASE ApplyEvent(x, i) /\ x = s
    <3>1. seen'[s] = IF log[i].there THEN i ELSE 0  BY <1>1, <2>4 DEF ApplyEvent
    <3>2. QED  BY <2>1, <2>2, <2>4, <3>1
  <2>5. CASE ApplyEvent(x, i) /\ x # s  BY <1>1, <2>5 DEF ApplyEvent
  <2>6. QED  BY <1>4, <2>3, <2>4, <2>5 DEF Deliver
<1>5. ASSUME NEW x \in Scopes, RetryRelist(x) \/ \E listed \in BOOLEAN : Expire(x, listed) PROVE Goal
  <2>1. log' = log /\ \E scopes : Relist(scopes)  BY <1>5 DEF RetryRelist, Expire
  <2>2. QED  BY <2>1, SeenByRelist
<1>6. ASSUME NEW failed, Snapshot(failed) PROVE Goal
  <2>1. log' = log /\ versions'[s] = IF s \in failed THEN NoVersion ELSE Now
    BY <1>6, ListedType DEF Snapshot
  <2>2. seen'[s] = IF s \in failed THEN 0 ELSE Content(s, Now)  BY <1>1, <1>6 DEF Snapshot
  <2>3. QED  BY <2>1, <2>2
<1>7. ASSUME NEW failed, Delta(failed) PROVE Goal
  <2>1. log' = log  BY <1>7 DEF Delta
  <2>2. ListedVersions(failed)[s] = IF s \in failed THEN NoVersion ELSE Now  BY ListedType
  <2>3. versions'[s] = IF ListedVersions(failed)[s] = NoVersion THEN versions[s] ELSE ListedVersions(failed)[s]
    BY <1>1, <1>7 DEF Delta
  <2>4. seen'[s] = IF s \in Changed(Scopes \ failed) THEN Content(s, Now)
                   ELSE IF s \in Vanished(failed) THEN 0 ELSE seen[s]
    BY <1>1, <1>7 DEF Delta
  <2>5. CASE s \in failed  BY <2>2, <2>3, <2>4, <2>5 DEF Changed, Present, Vanished
  <2>6. CASE s \notin failed
    <3>1. seen'[s] = Content(s, Now)  BY <1>1, <2>4, <2>6 DEF Changed, Present, Vanished
    <3>2. QED  BY <2>1, <3>1
  <2>7. QED  BY <2>5, <2>6
<1>8. CASE Restart
  <2>1. log' = log /\ versions'[s] = NoVersion /\ seen'[s] = 0  BY <1>1, <1>8 DEF Restart
  <2>2. QED  BY <2>1
<1>9. CASE PollFails \/ Beat \/ UNCHANGED feedVars  BY <1>2, <1>9 DEF PollFails, Beat, feedVars
<1>10. QED  BY <1>3, <1>4, <1>5, <1>6, <1>7, <1>8, <1>9 DEF Next

\* What was written or deleted once stays so.
LEMMA OnceStays ==
    ASSUME TypeOK, [Next]_feedVars, NEW s
    PROVE  (WrittenOnce(s) => WrittenOnce(s)') /\ (DeletedOnce(s) => DeletedOnce(s)')
<1>1. PICK n \in Nat, m \in Nat : n = Now /\ m = Now' /\ n <= m /\ \A i \in 1 .. n : log'[i] = log[i]
  BY LogGrows
<1>2. \A i \in 1 .. n : i \in 1 .. m /\ log'[i] = log[i]  BY <1>1
<1>3. QED  BY <1>1, <1>2 DEF WrittenOnce, DeletedOnce, Deletes

\* What is known of a scope's object stays accounted for.
LEMMA AccountsKept ==
    ASSUME TypeOK, LastChanges, [Next]_feedVars, NEW s \in ObjectScopes
    PROVE  (SeenWritten(s) => SeenWritten(s)') /\ (Accounted(s) => Accounted(s)')
<1>1. (WrittenOnce(s) => WrittenOnce(s)') /\ (DeletedOnce(s) => DeletedOnce(s)')  BY OnceStays
<1>2. PICK n \in Nat : n = Now  BY NowIsNat
<1>3. CASE seen'[s] = seen[s] /\ (versions'[s] # NoVersion => versions[s] # NoVersion)
  BY <1>1, <1>3 DEF SeenWritten, Accounted
<1>4. CASE log' = log /\ seen'[s] = Content(s, Now)
  <2>1. Now \in 0 .. Now  BY <1>2
  <2>2. SeenWritten(s)'
    <3>1. SUFFICES ASSUME Content(s, Now) # 0 PROVE WrittenOnce(s)  BY <1>1, <1>4 DEF SeenWritten
    <3>2. \A c : c = Content(s, Now) => c \in 1 .. Now /\ log[c] = [scope |-> s, there |-> TRUE]
      BY <2>1, <3>1, ContentMade
    <3>3. QED  BY <3>2 DEF WrittenOnce
  <2>3. Accounted(s) => Accounted(s)'
    <3>1. SUFFICES ASSUME WrittenOnce(s), Content(s, Now) = 0 PROVE DeletedOnce(s)
      BY <1>1, <1>4 DEF Accounted
    <3>2. PICK u \in 1 .. n : log[u] = [scope |-> s, there |-> TRUE]  BY <1>2, <3>1 DEF WrittenOnce
    <3>3. n \in 0 .. Now /\ Content(s, n) = 0  BY <1>2, <3>1
    <3>4. PICK i \in u + 1 .. n : log[i] = [scope |-> s, there |-> FALSE]  BY <3>2, <3>3, DeletedSince
    <3>5. i \in 1 .. Now  BY <1>2, <3>2, <3>4
    <3>6. QED  BY <3>4, <3>5 DEF DeletedOnce, Deletes
  <2>4. QED  BY <2>2, <2>3
<1>5. CASE log' = log /\ versions'[s] = NoVersion /\ seen'[s] = 0
  BY <1>1, <1>5 DEF SeenWritten, Accounted
<1>6. CASE log' = log /\ \E i \in 1 .. Now : log[i].scope = s /\ seen'[s] = IF log[i].there THEN i ELSE 0
  <2>1. PICK i \in 1 .. Now : log[i].scope = s /\ seen'[s] = IF log[i].there THEN i ELSE 0  BY <1>6
  <2>2. log[i] = [scope |-> s, there |-> log[i].there] /\ log[i].there \in BOOLEAN
    <3>1. PICK T : T = [scope : Scopes, there : BOOLEAN] /\ log \in Seq(T)  BY DEF TypeOK
    <3>2. log[i] \in T  BY <2>1, <3>1, ElementOfLog DEF Now
    <3>3. QED  BY <2>1, <3>1, <3>2
  <2>3. CASE log[i].there
    <3>1. WrittenOnce(s) /\ seen'[s] # 0  BY <1>2, <2>1, <2>2, <2>3 DEF WrittenOnce
    <3>2. QED  BY <1>1, <3>1 DEF SeenWritten, Accounted
  <2>4. CASE ~log[i].there
    <3>1. DeletedOnce(s) /\ seen'[s] = 0  BY <2>1, <2>2, <2>4 DEF DeletedOnce, Deletes
    <3>2. QED  BY <1>1, <3>1 DEF SeenWritten, Accounted
  <2>5. QED  BY <2>3, <2>4
<1>7. QED  BY <1>3, <1>4, <1>5, <1>6, SeenSteps

\* What the connector knows keeps to its invariants.
LEMMA FeedKept ==
    ASSUME IInv, LastChanges, \A s \in ObjectScopes : SeenWritten(s), [Next]_feedVars
    PROVE  IInv' /\ LastChanges' /\ \A s \in ObjectScopes : SeenWritten(s)'
<1>1. TypeOK /\ IInv'  BY NextKeeps DEF IInv
<1>2. LastChanges'  BY <1>1, LastChangesKept
<1>3. QED  BY <1>1, <1>2, AccountsKept

\* What one has who has all that the connector knows can be recorded.
LEMMA EndHolds == Known => \A q \in ReaderStates : End(q) => Held(q)
<1> SUFFICES ASSUME Known, NEW q \in ReaderStates, End(q), NEW s \in ObjectScopes PROVE HeldOf(q, s)
  BY DEF Held
<1>1. SeenWritten(s) /\ Recorded(s)  BY DEF Known
<1>2. q.mirror[s] = seen[s] /\ (s \in q.completed => versions[s] # NoVersion)  BY DEF End
<1>3. QED  BY <1>1, <1>2 DEF SeenWritten, Recorded, Accounted, HeldOf

\* A step that leaves the journal alone keeps what is known.
LEMMA KnownKept ==
    ASSUME JournalInv, [Next]_feedVars, journal' = journal, StreamInv'
    PROVE  /\ Known' /\ LastChanges'
           /\ \A q \in ReaderStates : Held(q) => Held(q)'
<1>1. /\ IInv /\ TypeOK /\ LastChanges /\ JournalType'
      /\ \A s \in ObjectScopes : SeenWritten(s) /\ Recorded(s)
  BY DEF JournalInv, Known, IInv, StreamInv
<1>2. IInv' /\ LastChanges' /\ \A s \in ObjectScopes : SeenWritten(s)'  BY <1>1, FeedKept
<1>3. \A s \in ObjectScopes : (Accounted(s) => Accounted(s)') /\ (DeletedOnce(s) => DeletedOnce(s)')
  BY <1>1, AccountsKept, OnceStays
<1>4. \A s \in ObjectScopes : Recorded(s)'  BY <1>1, <1>3 DEF Recorded
<1>5. Known'  BY <1>1, <1>2, <1>4 DEF Known
<1>6. \A q \in ReaderStates : Held(q) => Held(q)'  BY <1>3 DEF Held, HeldOf
<1>7. QED  BY <1>2, <1>5, <1>6

\* The connector goes on: the reader and its page stay as they are.
LEMMA ConnectorSettled ==
    ASSUME JournalInv, [Next]_feedVars, UNCHANGED <<readerVars, journal>>, StreamInv'
    PROVE  JournalInv'
<1>1. UNCHANGED <<journal, page, drained>> /\ Reader' = Reader  BY DEF readerVars, Reader
<1>2. /\ Known' /\ LastChanges'
      /\ \A q \in ReaderStates : Held(q) => Held(q)'
  BY <1>1, KnownKept
<1>3. Settled'
  <2>1. SUFFICES ASSUME drained' PROVE \E q \in ReaderStates : Path(Reader', page', q) /\ Held(q)'
    BY DEF Settled
  <2>2. PICK q \in ReaderStates : Path(Reader, page, q) /\ Held(q)  BY <1>1, <2>1 DEF JournalInv, Settled
  <2>3. QED  BY <1>1, <1>2, <2>2
<1>4. QED  BY <1>2, <1>3 DEF JournalInv

\* A short page leads to all that the connector knows when it is taken.
LEMMA PageSettled ==
    ASSUME JournalInv, [Next]_feedVars, journal' = journal, Reader' = Reader, StreamInv',
           drained' => Brings(Reader, page')
    PROVE  JournalInv'
<1>1. Known' /\ LastChanges'  BY KnownKept
<1>2. (Known => \A q \in ReaderStates : End(q) => Held(q))'  BY EndHolds, PTL
<1>3. Settled'
  <2>1. SUFFICES ASSUME drained' PROVE \E q \in ReaderStates : Path(Reader', page', q) /\ Held(q)'
    BY DEF Settled
  <2>2. PICK q \in ReaderStates : Path(Reader, page', q) /\ End(q)'  BY <2>1 DEF Brings
  <2>3. Held(q)'  BY <1>1, <1>2, <2>2
  <2>4. QED  BY <2>2, <2>3
<1>4. QED  BY <1>1, <1>3 DEF JournalInv

\* Along the path of its page the reader comes to the same end.
LEMMA ApplyItemSettled == ASSUME JournalInv, ApplyItem PROVE JournalInv'
<1>1. StreamInv /\ StreamInv'  BY ApplyItemKeeps DEF JournalInv
<1>2. page \in Seq(Items) /\ page # <<>> /\ Reader \in ReaderStates /\ page' = Tail(page)
  BY <1>1, TypesOf DEF ApplyItem
<1>3. UNCHANGED <<feedVars, drained, journal>>  BY DEF ApplyItem
<1>4. /\ Known' /\ LastChanges'
      /\ \A q \in ReaderStates : Held(q) => Held(q)'
  BY <1>1, <1>3, KnownKept
<1>5. PICK r \in ReaderStates : r = Apply(Reader, Head(page)) /\ Reader' = r
  <2>1. Head(page) \in Items  BY <1>2, HeadTailProperties
  <2>2. PICK r \in ReaderStates : r = Apply(Reader, Head(page))  BY <1>2, <2>1, ApplyType
  <2>3. /\ mirror' = r.mirror /\ staging' = r.staging /\ relisting' = r.relisting
        /\ completed' = r.completed /\ gapped' = r.gapped /\ ready' = r.ready /\ blocked' = r.blocked
    BY <2>2 DEF ApplyItem
  <2>4. r = [mirror |-> r.mirror, staging |-> r.staging, relisting |-> r.relisting, completed |-> r.completed,
             gapped |-> r.gapped, ready |-> r.ready, blocked |-> r.blocked]
    BY DEF ReaderStates
  <2>5. Reader' = r  BY <2>3, <2>4 DEF Reader
  <2>6. QED  BY <2>2, <2>5
<1>6. Settled'
  <2>1. SUFFICES ASSUME drained' PROVE \E q \in ReaderStates : Path(Reader', page', q) /\ Held(q)'
    BY DEF Settled
  <2>2. PICK q \in ReaderStates : Path(Reader, page, q) /\ Held(q)  BY <1>3, <2>1 DEF JournalInv, Settled
  <2>3. Path(r, Tail(page), q)  BY <1>2, <1>5, <2>2, PathGoesOn
  <2>4. QED  BY <1>2, <1>4, <1>5, <2>2, <2>3
<1>7. QED  BY <1>1, <1>4, <1>6 DEF JournalInv

\* A reader that was started again has drained nothing.
LEMMA RestartReaderSettled == ASSUME JournalInv, RestartReader PROVE JournalInv'
<1>1. StreamInv'  BY RestartReaderKeeps DEF JournalInv
<1>2. UNCHANGED <<feedVars, journal>> /\ ~drained'  BY DEF RestartReader
<1>3. Known' /\ LastChanges'  BY <1>1, <1>2, KnownKept
<1>4. QED  BY <1>1, <1>2, <1>3 DEF JournalInv, Settled

\* What is written into the journal: an object that was there, or that it is gone where it was deleted.
LEMMA JournalWrites ==
    ASSUME JournalInv, Journal, NEW s \in ObjectScopes
    PROVE  /\ Recorded(s)'
           /\ journal[s].there /\ ~journal'[s].there => DeletedOnce(s)
<1>1. page = <<>> /\ drained /\ UNCHANGED feedVars  BY DEF Journal, Drained
<1>2. /\ Recorded(s) /\ Reader \in ReaderStates
      /\ journal[s] \in [body : Nat, there : BOOLEAN]
  BY TypesOf DEF JournalInv, Known, JournalType
<1>3. HeldOf(Reader, s)
  <2>1. PICK q \in ReaderStates : Path(Reader, <<>>, q) /\ Held(q)  BY <1>1 DEF JournalInv, Settled
  <2>2. Len(<<>>) = 0  OBVIOUS
  <2>3. q = Reader  BY <2>1, <2>2 DEF Path
  <2>4. QED  BY <2>1, <2>3 DEF Held
<1>4. /\ mirror[s] # 0 => Accounted(s)
      /\ mirror[s] = 0 /\ s \in completed /\ journal[s].there => DeletedOnce(s)
  <2>1. Reader.mirror = mirror /\ Reader.completed = completed  BY DEF Reader
  <2>2. QED  BY <1>3, <2>1 DEF HeldOf
<1>5. Accounted(s)' <=> Accounted(s)
  BY <1>1 DEF Accounted, WrittenOnce, DeletedOnce, Deletes, Now, feedVars
<1>6. journal'[s] = IF Serves /\ mirror[s] # 0 THEN [body |-> mirror[s], there |-> TRUE]
                    ELSE IF Serves /\ Absent(s) THEN [journal[s] EXCEPT !.there = FALSE] ELSE journal[s]
  BY DEF Journal
<1>7. CASE mirror[s] # 0 /\ journal'[s] = [body |-> mirror[s], there |-> TRUE]
  <2>1. journal'[s].there  BY <1>7
  <2>2. QED  BY <1>4, <1>5, <1>7, <2>1 DEF Recorded
<1>8. CASE Absent(s) /\ journal'[s] = [journal[s] EXCEPT !.there = FALSE]
  <2>1. ~journal'[s].there  BY <1>2, <1>8
  <2>2. mirror[s] = 0 /\ s \in completed  BY <1>8 DEF Absent
  <2>3. QED  BY <1>4, <2>1, <2>2 DEF Recorded
<1>9. CASE journal'[s] = journal[s]  BY <1>2, <1>5, <1>9 DEF Recorded
<1>10. QED  BY <1>6, <1>7, <1>8, <1>9, Zenon

\* When the journal is written the stream is to be drained again.
LEMMA JournalSettled == ASSUME JournalInv, Journal PROVE JournalInv'
<1>1. StreamInv' /\ JournalType'  BY JournalKeeps DEF JournalInv, StreamInv
<1>2. ~drained' /\ UNCHANGED feedVars  BY DEF Journal
<1>3. IInv' /\ LastChanges' /\ \A s \in ObjectScopes : SeenWritten(s)'
  BY <1>1, <1>2, FeedKept DEF JournalInv, Known, StreamInv
<1>4. \A s \in ObjectScopes : Recorded(s)'  BY JournalWrites
<1>5. Known'  BY <1>1, <1>3, <1>4 DEF Known
<1>6. QED  BY <1>1, <1>2, <1>3, <1>5 DEF JournalInv, Settled

\* Only Journal writes the journal.
LEMMA JournalUnwritten == ASSUME [StreamNext]_streamVars, ~Journal PROVE journal' = journal
<1>1. CASE UNCHANGED streamVars  BY <1>1 DEF streamVars
<1>2. CASE ReadPage \/ ReadWithoutBaseline  BY <1>2 DEF ReadPage, ReadWithoutBaseline, Take
<1>3. CASE ApplyItem \/ RestartReader  BY <1>3 DEF ApplyItem, RestartReader
<1>4. QED  BY <1>1, <1>2, <1>3 DEF StreamNext

\* Every step keeps the invariant.
LEMMA JournalInvKept == ASSUME JournalInv, [StreamNext]_streamVars PROVE JournalInv'
<1>1. StreamInv /\ StreamInv'  BY StreamNextKeeps DEF JournalInv
<1>2. [Next]_feedVars
  <2>1. ASSUME UNCHANGED streamVars PROVE UNCHANGED feedVars  BY <2>1 DEF streamVars
  <2>2. QED  BY <2>1, StreamOfFeed
<1>3. CASE (Connector \/ RestartConnector) /\ UNCHANGED <<readerVars, journal, readers>>
  BY <1>1, <1>2, <1>3, ConnectorSettled
<1>4. CASE ReadPage \/ ReadWithoutBaseline
  <2>1. drained' => Brings(Reader, page')  BY <1>1, <1>4, ReadPageKeeps, ReadWithoutBaselineKeeps
  <2>2. Reader' = Reader /\ journal' = journal
    BY <1>4 DEF ReadPage, ReadWithoutBaseline, Take, Reader, readerVars
  <2>3. QED  BY <1>1, <1>2, <2>1, <2>2, PageSettled
<1>5. CASE ApplyItem  BY <1>5, ApplyItemSettled
<1>6. CASE RestartReader  BY <1>6, RestartReaderSettled
<1>7. CASE Journal  BY <1>7, JournalSettled
<1>8. CASE UNCHANGED streamVars
  <2>1. UNCHANGED <<readerVars, journal>>  BY <1>8 DEF streamVars
  <2>2. QED  BY <1>1, <1>2, <2>1, ConnectorSettled
<1>9. QED  BY <1>3, <1>4, <1>5, <1>6, <1>7, <1>8 DEF StreamNext

\* At the start nothing is recorded.
LEMMA JournalInitHolds == ASSUME StreamInit PROVE JournalInv
<1>1. StreamInv  BY StreamInitHolds
<1>2. IInv /\ Now = 0  BY InitHolds DEF StreamInit, Init, Now
<1>3. LastChanges
  <2>1. ASSUME NEW v \in 0 .. 0 PROVE 1 .. v = {}  OBVIOUS
  <2>2. QED  BY <1>2, <2>1 DEF LastChanges, EndsIn
<1>4. ~drained /\ JournalType  BY <1>1 DEF StreamInit, StreamInv
<1>5. ASSUME NEW s \in ObjectScopes PROVE SeenWritten(s) /\ Recorded(s)
  <2>1. ~journal[s].there /\ seen[s] = 0  BY ScopeKinds DEF StreamInit, Init
  <2>2. QED  BY <2>1 DEF SeenWritten, Recorded
<1>6. QED  BY <1>1, <1>2, <1>3, <1>4, <1>5 DEF JournalInv, Known, Settled

\* JournalInv holds always.
THEOREM JournalInvariance == StreamSpec => []JournalInv
<1>1. StreamInit => JournalInv  BY JournalInitHolds
<1>2. JournalInv /\ [StreamNext]_streamVars => JournalInv'  BY JournalInvKept
<1>3. QED  BY <1>1, <1>2, PTL DEF StreamSpec

\* No object is recorded as deleted that never was: not where a listing failed, a scope was listed
\* again, the stream was cut or either side was started again, and absence from the mirror alone would
\* say nothing (ChangeWatcher.snapshot_result over what StreamedClusterReader serves).
THEOREM TombstonesAreCaused == StreamSpec => TombstonesHaveCause
<1>1. JournalInv /\ [StreamNext]_streamVars
          => [\A s \in ObjectScopes : journal[s].there /\ ~journal'[s].there =>
                  \E i \in 1 .. Now : Deletes(i, s)]_streamVars
  <2>1. SUFFICES ASSUME JournalInv, [StreamNext]_streamVars, NEW s \in ObjectScopes,
                        journal[s].there, ~journal'[s].there
                 PROVE  \E i \in 1 .. Now : Deletes(i, s)
    OBVIOUS
  <2>2. Journal  BY <2>1, JournalUnwritten
  <2>3. QED  BY <2>1, <2>2, JournalWrites DEF DeletedOnce
<1>2. QED  BY <1>1, JournalInvariance, PTL DEF StreamSpec, TombstonesHaveCause
==============================================================================
