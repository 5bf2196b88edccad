------------------------------ MODULE FSProofs ------------------------------
(***************************************************************************)
(* Proofs about the io/fs view of client/fs.go: what readDirAll lists, how *)
(* dirFile.ReadDir hands it out, and that file.Read stays at io.EOF.       *)
(***************************************************************************)
EXTENDS FS, FiniteSetTheorems, TLAPS

\* Zenon proves the leaves that name no other prover.
USE Zenon

Once(s, x) == \E k \in 1 .. Len(s) : \A i \in 1 .. Len(s) : s[i] = x <=> i = k
Never(s, x) == \A i \in 1 .. Len(s) : s[i] # x

DirHandles == [kind : {"dir"}, entries : Seq(Names), read : BOOLEAN, pos : Nat]
FileHandles == [kind : {"file"}, offset : Nat, eof : BOOLEAN]

Shape ==
    /\ dir \in [Cookies -> Names \cup Dots \cup {Free}]
    /\ \A a, b \in Cookies : dir[a] = dir[b] /\ dir[a] \in Names => a = b
    /\ pc \in {"idle", "walk", "list", "link"}
    /\ n \in Int /\ cookie \in Nat
    /\ out \in Seq(Names) /\ got \in Seq(Names)
    /\ handle.kind = "dir" => handle \in DirHandles
    /\ handle.kind = "file" => handle \in FileHandles

\* While a directory is listed: an entry that has been there from the start is in
\* the listing, once, if its cookie has been passed, and not yet if it has not.
ListInv ==
    pc = "list" =>
        /\ stable \subseteq {dir[c] : c \in Cookies} \cap Names
        /\ \A c \in Cookies : dir[c] \in Names => dir[c] \in seen
        /\ \A i \in 1 .. Len(out) : out[i] \in seen
        /\ \A c \in Cookies : dir[c] \in stable =>
              IF c <= cookie THEN Once(out, dir[c]) ELSE Never(out, dir[c])
        /\ op = "chunk" => handle.kind = "dir" /\ ~handle.read

\* What the last call returned.
RetInv ==
    /\ ret.all \in Seq(Names)
    /\ ret.short \/ \A x \in ret.stable : Once(ret.all, x)
    /\ \A i \in 1 .. Len(ret.all) : ret.all[i] \in ret.seen

\* What a directory handle has delivered, and where a file handle stands.
HandleInv ==
    /\ handle.kind = "dir" =>
          /\ handle.pos <= Len(handle.entries) /\ Len(got) = handle.pos
          /\ \A i \in 1 .. handle.pos : got[i] = handle.entries[i]
          /\ ~handle.read => handle.entries = <<>>
          /\ ret.err = "EOF" => handle.pos = Len(handle.entries)
    /\ handle.kind = "file" /\ ret.err = "EOF" => handle.eof

IInv == Shape /\ ListInv /\ RetInv /\ HandleInv
-----------------------------------------------------------------------------
(* Operators.                                                              *)

\* Ordered gives a sequence of all cookies of S, each at one place, increasing.
LEMMA OrderedFacts ==
    ASSUME NEW S, S \subseteq Cookies, NEW p \in Ordered(S)
    PROVE  /\ p \in Seq(S)
           /\ \A c \in S : \E i \in 1 .. Len(p) : p[i] = c
           /\ \A i, j \in 1 .. Len(p) : i < j => p[i] < p[j]
<1>1. PICK k \in 0 .. MaxCookie : p \in [1 .. k -> S]
  BY DEF Ordered
<1>2. k \in Nat
  BY SMTT(30), NumbersKnown
<1>3. p \in Seq(S) /\ DOMAIN p = 1 .. Len(p)
  BY SMTT(30), <1>1, <1>2
<1>4. Range(p) = S /\ \A i, j \in DOMAIN p : i < j => p[i] < p[j]
  BY DEF Ordered
<1> QED BY <1>3, <1>4 DEF Range

\* SubSeq and \o, entry by entry.
LEMMA SliceFacts ==
    ASSUME NEW s \in Seq(Names), NEW a \in Nat, NEW b \in Nat, a <= b, b <= Len(s)
    PROVE  /\ SubSeq(s, a + 1, b) \in Seq(Names) /\ Len(SubSeq(s, a + 1, b)) = b - a
           /\ \A i \in 1 .. b - a : SubSeq(s, a + 1, b)[i] = s[a + i]
BY SMTT(30)

\* \o, entry by entry.
LEMMA JoinFacts ==
    ASSUME NEW s \in Seq(Names), NEW t \in Seq(Names)
    PROVE  /\ s \o t \in Seq(Names) /\ Len(s \o t) = Len(s) + Len(t)
           /\ \A i \in 1 .. Len(s) + Len(t) : (s \o t)[i] = IF i <= Len(s) THEN s[i] ELSE t[i - Len(s)]
BY SMTT(30)

\* Listings with the same entries are the same.
LEMMA SameSeq ==
    ASSUME NEW s \in Seq(Names), NEW t \in Seq(Names), Len(s) = Len(t),
           \A i \in 1 .. Len(s) : s[i] = t[i]
    PROVE  s = t
BY SMTT(30)

\* No status of a protocol call is turned into io.EOF.
LEMMA StatusNotEof ==
    ASSUME NEW s \in Statuses
    PROVE  pathError(s) # "EOF" /\ s # "EOF"
BY StatusesKnown DEF pathError

\* A page ends at its last cookie: between the two cookies of the loop lie the
\* entries of the page and no other.
LEMMA PageEnds ==
    ASSUME NEW last \in Cookies \cup {0}, NEW p \in Page(last), cookie \in Nat, p # <<>>
    PROVE  /\ NextCookie(p) \in Nat /\ NextCookie(p) > cookie /\ NextCookie(p) <= last
           /\ \A c \in Present(dir) : c > cookie /\ c <= last => c <= NextCookie(p)
<1> DEFINE S == {c \in Present(dir) : c > cookie /\ c <= last}
<1>1. S \subseteq Cookies /\ p \in Ordered(S)
  BY DEF Page, Present
<1>2. /\ p \in Seq(S)
      /\ \A c \in S : \E i \in 1 .. Len(p) : p[i] = c
      /\ \A i, j \in 1 .. Len(p) : i < j => p[i] < p[j]
  BY <1>1, OrderedFacts
<1>3. Len(p) \in 1 .. Len(p)
  BY SMTT(30), <1>2
<1>4. NextCookie(p) = p[Len(p)] /\ p[Len(p)] \in S
  BY SMTT(30), <1>2, <1>3 DEF NextCookie
<1>5. NextCookie(p) \in Nat /\ NextCookie(p) > cookie /\ NextCookie(p) <= last
  BY SMTT(30), <1>4, NumbersKnown DEF Present, Cookies
<1>6. ASSUME NEW c \in S
      PROVE  c <= NextCookie(p)
  <2>1. PICK i \in 1 .. Len(p) : p[i] = c
    BY <1>2
  <2>2. i = Len(p) \/ i < Len(p)
    BY SMTT(30), <1>2
  <2>3. c \in Int /\ p[Len(p)] \in Int
    BY SMTT(30), <1>4, NumbersKnown DEF Present, Cookies
  <2> QED BY SMTT(30), <2>1, <2>2, <2>3, <1>2, <1>3, <1>4
<1> QED BY <1>5, <1>6

\* What one page adds to the listing: the names it carries, and of the entries that
\* were there all along exactly those between the two cookies.
LEMMA PageListed ==
    ASSUME Shape, ListInv, pc = "list",
           NEW last \in Cookies \cup {0}, NEW p \in Page(last), NEW q \in Kept(p)
    PROVE  /\ Listed(q) \in Seq(Names)
           /\ \A i \in 1 .. Len(Listed(q)) : Listed(q)[i] \in seen
           /\ \A c \in Cookies : dir[c] \in stable =>
                 IF c <= cookie \/ c <= last THEN Once(Listed(q), dir[c]) ELSE Never(Listed(q), dir[c])
<1> DEFINE S == {c \in Present(dir) : c > cookie /\ c <= last}
           T == {c \in Range(p) : dir[c] \notin Dots}
           t == [i \in 1 .. Len(q) |-> dir[q[i]]]
<1>1. S \subseteq Cookies /\ p \in Ordered(S)
  BY DEF Page, Present
<1>2. Range(p) = S
  BY <1>1 DEF Ordered
<1>3. T = {c \in S : dir[c] \in Names}
  BY <1>2, NamesKnown DEF Shape, Present
<1>4. T \subseteq Cookies /\ q \in Ordered(T)
  BY <1>1, <1>3 DEF Kept
<1>5. /\ q \in Seq(T)
      /\ \A c \in T : \E i \in 1 .. Len(q) : q[i] = c
      /\ \A i, j \in 1 .. Len(q) : i < j => q[i] < q[j]
  BY <1>4, OrderedFacts
<1>6. Len(q) \in Nat /\ \A i \in 1 .. Len(q) : q[i] \in T /\ q[i] \in Cookies /\ q[i] \in Int
  BY SMTT(30), <1>4, <1>5 DEF Cookies
<1>7. t \in Seq(Names) /\ Len(t) = Len(q) /\ \A i \in 1 .. Len(q) : t[i] = dir[q[i]]
  BY SMTT(30), <1>3, <1>6
<1>8. out \in Seq(Names) /\ Len(out) \in Nat
  BY SMTT(30) DEF Shape
<1> DEFINE l == Listed(q)
<1>9. /\ l \in Seq(Names) /\ Len(l) = Len(out) + Len(q)
      /\ \A i \in 1 .. Len(l) : l[i] = IF i <= Len(out) THEN out[i] ELSE t[i - Len(out)]
  <2>1. l = out \o t
    BY DEF Listed
  <2> QED BY SMTT(30), <2>1, <1>7, <1>8
<1>10. \A c \in Present(dir) : c \in T <=> c > cookie /\ c <= last /\ dir[c] \in Names
  BY <1>3
<1>11. \A i \in 1 .. Len(q) : q[i] > cookie /\ q[i] <= last
  BY <1>3, <1>6
<1> HIDE DEF S, T, t, l
<1>12. \A i \in 1 .. Len(l) :
          \/ i \in 1 .. Len(out) /\ l[i] = out[i]
          \/ i \notin 1 .. Len(out) /\ i - Len(out) \in 1 .. Len(q) /\ l[i] = t[i - Len(out)]
  BY SMTT(30), <1>6, <1>8, <1>9
<1>13. \A i \in 1 .. Len(l) : l[i] \in seen
  <2> SUFFICES ASSUME NEW i \in 1 .. Len(l)
               PROVE  l[i] \in seen
    OBVIOUS
  <2>1. CASE i <= Len(out)
    BY SMTT(30), <2>1, <1>8, <1>9 DEF ListInv
  <2>2. CASE ~(i <= Len(out))
    <3>1. i - Len(out) \in 1 .. Len(q)
      BY SMTT(30), <2>2, <1>6, <1>8, <1>9
    <3>2. l[i] = dir[q[i - Len(out)]] /\ q[i - Len(out)] \in T
      BY <3>1, <2>2, <1>6, <1>7, <1>9
    <3> QED BY <3>2, <1>3, <1>4 DEF ListInv
  <2> QED BY <2>1, <2>2
<1>14. ASSUME NEW c \in Cookies, dir[c] \in stable
       PROVE  IF c <= cookie \/ c <= last THEN Once(l, dir[c]) ELSE Never(l, dir[c])
  <2>1. dir[c] \in Names /\ c \in Present(dir) /\ c \in Int /\ cookie \in Nat /\ last \in Int
    BY SMTT(30), <1>14, NamesKnown DEF ListInv, Shape, Present, Cookies
  <2>2. IF c <= cookie THEN Once(out, dir[c]) ELSE Never(out, dir[c])
    BY <1>14 DEF ListInv
  <2>3. \A i \in 1 .. Len(q) : t[i] = dir[c] <=> q[i] = c
    BY SMTT(30), <2>1, <1>6, <1>7 DEF Shape
  <2>4. CASE c <= cookie
    <3>1. PICK k \in 1 .. Len(out) : \A i \in 1 .. Len(out) : out[i] = dir[c] <=> i = k
      BY <2>2, <2>4 DEF Once
    <3>2. \A i \in 1 .. Len(q) : t[i] # dir[c]
      BY SMTT(30), <2>1, <2>3, <2>4, <1>6, <1>11
    <3>3. k \in 1 .. Len(l) /\ \A i \in 1 .. Len(l) : l[i] = dir[c] <=> i = k
      <4>1. k \in 1 .. Len(l)
        BY SMTT(30), <1>6, <1>8, <1>9
      <4> QED BY <4>1, <3>1, <3>2, <1>12
    <3> QED BY <3>3, <2>4 DEF Once
  <2>5. CASE ~(c <= cookie) /\ c <= last
    <3>1. c \in T
      BY SMTT(30), <2>1, <2>5, <1>10
    <3>2. PICK j \in 1 .. Len(q) : q[j] = c
      BY <3>1, <1>5
    <3>3. \A i \in 1 .. Len(q) : t[i] = dir[c] <=> i = j
      <4>1. ASSUME NEW i \in 1 .. Len(q), i # j
            PROVE  q[i] # q[j]
        <5>1. i < j \/ j < i
          BY SMTT(30), <4>1
        <5>2. q[i] < q[j] \/ q[j] < q[i]
          BY <5>1, <1>5
        <5>3. q[i] \in Int /\ q[j] \in Int
          BY <1>6
        <5> QED BY SMTT(30), <5>2, <5>3
      <4> QED BY <4>1, <3>2, <2>3
    <3>4. \A i \in 1 .. Len(out) : out[i] # dir[c]
      BY <2>2, <2>5 DEF Never
    <3> DEFINE k == Len(out) + j
    <3>5. k \in 1 .. Len(l) /\ \A i \in 1 .. Len(l) : l[i] = dir[c] <=> i = k
      <4>1. k \in 1 .. Len(l)
        BY SMTT(30), <1>6, <1>8, <1>9
      <4> SUFFICES ASSUME NEW i \in 1 .. Len(l)
                   PROVE  l[i] = dir[c] <=> i = k
        BY <4>1
      <4>2. CASE i <= Len(out)
        BY SMTT(30), <4>2, <3>4, <1>8, <1>9
      <4>3. CASE ~(i <= Len(out))
        <5>1. i - Len(out) \in 1 .. Len(q) /\ l[i] = t[i - Len(out)]
          BY SMTT(30), <4>3, <1>6, <1>8, <1>9
        <5>2. l[i] = dir[c] <=> i - Len(out) = j
          BY <5>1, <3>3
        <5> QED BY SMTT(30), <5>2, <1>8
      <4> QED BY <4>2, <4>3
    <3> QED BY <3>5, <2>5 DEF Once
  <2>6. CASE ~(c <= cookie) /\ ~(c <= last)
    <3>1. \A i \in 1 .. Len(q) : t[i] # dir[c]
      BY <2>1, <2>3, <2>6, <1>6, <1>11
    <3>2. \A i \in 1 .. Len(out) : out[i] # dir[c]
      BY <2>2, <2>6 DEF Never
    <3>3. \A i \in 1 .. Len(l) : l[i] # dir[c]
      BY <3>1, <3>2, <1>12
    <3> QED BY <3>3, <2>6 DEF Never
  <2> QED BY <2>4, <2>5, <2>6
<1> QED BY <1>9, <1>13, <1>14 DEF l

-----------------------------------------------------------------------------
(* Steps.                                                                  *)

\* A result that is no listing and not io.EOF.
Plain(r) == r.all = <<>> /\ r.stable = {} /\ r.err # "EOF"

\* A call that returns such a result and leaves the handle alone.
LEMMA ReturnStep ==
    ASSUME IInv, NEW r, Plain(r), Return(r), UNCHANGED <<server, handle, got>>
    PROVE  IInv'
<1>1. Shape'
  BY SMTT(30) DEF IInv, Shape, Return, server
<1>2. ListInv'
  BY DEF Return, ListInv
<1>3. RetInv'
  <2>1. ret'.all = <<>> /\ ret'.stable = {}
    BY DEF Return, Plain
  <2> QED BY SMTT(30), <2>1 DEF RetInv
<1>4. HandleInv'
  BY DEF IInv, HandleInv, Return, Plain
<1> QED BY <1>1, <1>2, <1>3, <1>4 DEF IInv

\* readDirAll begins with nothing listed: everything is ahead of the cookie.
LEMMA StartListStep ==
    ASSUME IInv, StartList, UNCHANGED <<server, handle, got>>, ret' = ret \/ ret' = OK, n' \in Int,
           op' = "chunk" => handle.kind = "dir" /\ ~handle.read
    PROVE  IInv'
<1>1. Shape'
  BY SMTT(30) DEF IInv, Shape, StartList, server
<1>2. ListInv'
  <2>1. stable' = {dir[c] : c \in Present(dir)} \ Dots /\ seen' = stable'
    BY DEF StartList
  <2>2. \A c \in Cookies : dir[c] \in Names <=> c \in Present(dir) /\ dir[c] \notin Dots
    BY NamesKnown DEF IInv, Shape, Present
  <2>3. stable' \subseteq {dir[c] : c \in Cookies} \cap Names
    BY <2>1, <2>2 DEF Present
  <2>4. \A c \in Cookies : dir[c] \in Names => dir[c] \in seen'
    BY <2>1, <2>2
  <2>5. out' = <<>> /\ cookie' = 0 /\ \A c \in Cookies : ~(c <= 0)
    BY SMTT(30) DEF StartList, Cookies
  <2>6. \A x : Never(out', x)
    BY SMTT(30), <2>5 DEF Never
  <2>7. dir' = dir /\ handle' = handle
    BY DEF server
  <2> QED BY SMTT(30), <2>3, <2>4, <2>5, <2>6, <2>7 DEF ListInv
<1>3. CASE ret' = ret
  BY SMTT(30), <1>1, <1>2, <1>3 DEF IInv, RetInv, HandleInv, Once
<1>4. CASE ret' = OK
  BY SMTT(30), <1>1, <1>2, <1>4 DEF IInv, RetInv, HandleInv, OK, Result
<1> QED BY <1>3, <1>4

\* A chunk goes on where the last one ended, and io.EOF means that nothing is left.
LEMMA DeliverStep ==
    ASSUME NEW h \in DirHandles, NEW k \in Int, got \in Seq(Names),
           h.pos <= Len(h.entries), Len(got) = h.pos, h.read,
           \A i \in 1 .. h.pos : got[i] = h.entries[i],
           Deliver(h, k), ret'.err = Delivered(h, k).err
    PROVE  /\ handle' \in DirHandles /\ got' \in Seq(Names) /\ HandleInv'
           /\ handle'.kind = "dir"
<1> DEFINE size0 == Len(h.entries)
           end == IF k <= 0 \/ h.pos + k > size0 THEN size0 ELSE h.pos + k
           list == SubSeq(h.entries, h.pos + 1, end)
<1>1. h.entries \in Seq(Names) /\ h.pos \in Nat /\ size0 \in Nat /\ h.kind = "dir" /\ h.read = TRUE
  BY SMTT(30) DEF DirHandles
<1>2. end \in Nat /\ h.pos <= end /\ end <= size0
  BY SMTT(30), <1>1
<1>3. Chunk(h, k).list = list /\ Chunk(h, k).pos = end
  BY <1>1 DEF Chunk
<1>4. Chunk(h, k).eof => end = size0
  <2>1. CASE k <= 0
    BY <2>1
  <2>2. CASE ~(k <= 0)
    <3>1. Chunk(h, k).eof = (h.pos >= size0)
      BY <2>2 DEF Chunk
    <3>2. h.pos >= size0 => end = size0
      BY SMTT(30), <1>1, <1>2
    <3> QED BY <3>1, <3>2
  <2> QED BY <2>1, <2>2
<1>5. handle' = [h EXCEPT !.pos = end] /\ got' = got \o list
  BY <1>3 DEF Deliver
<1>6. /\ handle' \in DirHandles /\ handle'.kind = "dir" /\ handle'.entries = h.entries
      /\ handle'.pos = end /\ handle'.read = TRUE
  BY <1>1, <1>2, <1>5 DEF DirHandles
<1>7. ret'.err = "EOF" => end = size0
  BY <1>4 DEF Delivered, Result
<1> HIDE DEF end
<1>8. list \in Seq(Names) /\ Len(list) = end - h.pos
      /\ \A i \in 1 .. end - h.pos : list[i] = h.entries[h.pos + i]
  BY SliceFacts, <1>1, <1>2
<1> HIDE DEF list
<1>9. got' \in Seq(Names) /\ Len(got') = end /\ \A i \in 1 .. end : got'[i] = h.entries[i]
  <2>1. /\ got \o list \in Seq(Names) /\ Len(got \o list) = Len(got) + Len(list)
        /\ \A i \in 1 .. Len(got) + Len(list) :
              (got \o list)[i] = IF i <= Len(got) THEN got[i] ELSE list[i - Len(got)]
    BY <1>8, JoinFacts
  <2>2. Len(got) + Len(list) = end
    BY SMTT(30), <1>1, <1>2, <1>8
  <2>3. /\ got' \in Seq(Names) /\ Len(got') = end
        /\ \A i \in 1 .. end : got'[i] = IF i <= h.pos THEN got[i] ELSE list[i - h.pos]
    BY <2>1, <2>2, <1>5
  <2> SUFFICES ASSUME NEW i \in 1 .. end
               PROVE  got'[i] = h.entries[i]
    BY <2>3
  <2>4. CASE i <= h.pos
    <3>1. i \in 1 .. h.pos
      BY SMTT(30), <2>4, <1>1, <1>2
    <3> QED BY SMTT(30), <3>1, <2>3, <2>4
  <2>5. CASE ~(i <= h.pos)
    <3>1. i - h.pos \in 1 .. end - h.pos /\ h.pos + (i - h.pos) = i
      BY SMTT(30), <2>5, <1>1, <1>2
    <3>2. list[i - h.pos] = h.entries[i]
      BY <3>1, <1>8
    <3> QED BY <3>2, <2>3, <2>5
  <2> QED BY <2>4, <2>5
<1>10. HandleInv'
  BY <1>2, <1>6, <1>7, <1>9 DEF HandleInv
<1> QED BY <1>6, <1>9, <1>10

\* A new entry was not there from the start: it may be listed or not.
LEMMA CreateStep ==
    ASSUME IInv, NEW x \in Names, NEW c \in Cookies, Create(x, c)
    PROVE  IInv'
<1>1. /\ UNCHANGED <<op, pc, n, cookie, out, handle, ret, got, stable>>
      /\ dir' = [dir EXCEPT ![c] = x] /\ dir[c] = Free /\ \A b \in Cookies : dir[b] # x
      /\ seen' = IF pc = "list" THEN seen \cup {x} ELSE seen
  BY DEF Create, Change
<1>2. dir' \in [Cookies -> Names \cup Dots \cup {Free}] /\ \A b \in Cookies : dir'[b] = IF b = c THEN x ELSE dir[b]
  BY <1>1 DEF IInv, Shape
<1>3. Shape'
  <2>1. \A a, b \in Cookies : dir'[a] = dir'[b] /\ dir'[a] \in Names => a = b
    BY <1>1, <1>2 DEF IInv, Shape
  <2> QED BY <2>1, <1>1, <1>2 DEF IInv, Shape
<1>4. ListInv'
  <2> SUFFICES ASSUME pc = "list"
               PROVE  ListInv'
    BY <1>1 DEF ListInv
  <2>1. x \notin stable /\ Free \notin stable
    BY <1>1, NamesKnown DEF IInv, ListInv
  <2>2. stable' \subseteq {dir'[b] : b \in Cookies} \cap Names
    BY <2>1, <1>1, <1>2 DEF IInv, ListInv
  <2>3. \A b \in Cookies : dir'[b] \in stable' => dir[b] \in stable /\ dir'[b] = dir[b]
    BY <2>1, <1>1, <1>2
  <2>4. \A b \in Cookies : dir'[b] \in Names => dir'[b] \in seen'
    BY <1>1, <1>2 DEF IInv, ListInv
  <2>5. \A i \in 1 .. Len(out) : out[i] \in seen'
    BY <1>1 DEF IInv, ListInv
  <2>6. \A b \in Cookies : dir'[b] \in stable' =>
            IF b <= cookie THEN Once(out, dir'[b]) ELSE Never(out, dir'[b])
    BY <2>3 DEF IInv, ListInv
  <2>7. op = "chunk" => handle.kind = "dir" /\ ~handle.read
    BY DEF IInv, ListInv
  <2> QED BY SMTT(30), <2>2, <2>4, <2>5, <2>6, <2>7, <1>1 DEF ListInv, Once, Never
<1>5. RetInv' /\ HandleInv'
  BY SMTT(30), <1>1 DEF IInv, RetInv, HandleInv, Once
<1> QED BY <1>3, <1>4, <1>5 DEF IInv

\* An entry that is removed has not been there all through.
LEMMA RemoveStep ==
    ASSUME IInv, NEW c \in Cookies, Remove1(c)
    PROVE  IInv'
<1>1. /\ UNCHANGED <<op, pc, n, cookie, out, handle, ret, got, seen>>
      /\ dir' = [dir EXCEPT ![c] = Free] /\ dir[c] \in Names
      /\ stable' = stable \ {dir[c]}
  BY DEF Remove1, Change
<1>2. dir' \in [Cookies -> Names \cup Dots \cup {Free}] /\ \A b \in Cookies : dir'[b] = IF b = c THEN Free ELSE dir[b]
  BY <1>1 DEF IInv, Shape
<1>3. Shape'
  <2>1. \A a, b \in Cookies : dir'[a] = dir'[b] /\ dir'[a] \in Names => a = b
    BY <1>1, <1>2, NamesKnown DEF IInv, Shape
  <2> QED BY <2>1, <1>1, <1>2 DEF IInv, Shape
<1>4. ListInv'
  <2> SUFFICES ASSUME pc = "list"
               PROVE  ListInv'
    BY <1>1 DEF ListInv
  <2>1. Free \notin stable'
    BY <1>1, NamesKnown DEF IInv, ListInv
  <2>2. stable' \subseteq {dir'[b] : b \in Cookies} \cap Names
    BY <2>1, <1>1, <1>2 DEF IInv, ListInv
  <2>3. \A b \in Cookies : dir'[b] \in stable' => dir[b] \in stable /\ dir'[b] = dir[b]
    BY <2>1, <1>1, <1>2
  <2>4. \A b \in Cookies : dir'[b] \in Names => dir'[b] \in seen'
    BY <1>1, <1>2, NamesKnown DEF IInv, ListInv
  <2>5. \A b \in Cookies : dir'[b] \in stable' =>
            IF b <= cookie THEN Once(out, dir'[b]) ELSE Never(out, dir'[b])
    BY <2>3 DEF IInv, ListInv
  <2>6. (op = "chunk" => handle.kind = "dir" /\ ~handle.read) /\ \A i \in 1 .. Len(out) : out[i] \in seen
    BY DEF IInv, ListInv
  <2> QED BY ZenonT(40), <2>2, <2>4, <2>5, <2>6, <1>1 DEF ListInv, Once, Never
<1>5. RetInv' /\ HandleInv'
  BY SMTT(30), <1>1 DEF IInv, RetInv, HandleInv, Once
<1> QED BY <1>3, <1>4, <1>5 DEF IInv

\* Steps of a walk, and a file that changes its length, concern no listing.
LEMMA WalkStep ==
    ASSUME IInv, UNCHANGED <<dir, n, listing, handle, got>>, ret' = ret \/ ret' = OK,
           pc' \in {"idle", "walk", "link"} \/ UNCHANGED <<op, pc>>
    PROVE  IInv'
<1>1. Shape'
  BY DEF IInv, Shape, listing
<1>2. ListInv'
  BY DEF IInv, ListInv, listing, Once, Never
<1>3. CASE ret' = ret
  BY SMTT(30), <1>1, <1>2, <1>3 DEF IInv, RetInv, HandleInv, Once
<1>4. CASE ret' = OK
  <2>1. ret'.all = <<>> /\ ret'.stable = {} /\ ret'.err = "nil"
    BY <1>4 DEF OK, Result
  <2>2. RetInv'
    BY SMTT(30), <2>1 DEF RetInv
  <2> QED BY <2>1, <2>2, <1>1, <1>2 DEF IInv, HandleInv
<1> QED BY <1>3, <1>4

\* resolve: a LOOKUP or the GETATTR that ends the walk.
LEMMA LookupStep ==
    ASSUME IInv, Lookup
    PROVE  IInv'
<1>1. CASE UNCHANGED <<op, pc, n, listing, ret>>
  BY <1>1, WalkStep DEF Lookup, server
<1>2. ASSUME NEW s \in Statuses, Return(Err(pathError(s)))
      PROVE  IInv'
  <2>1. Plain(Err(pathError(s)))
    BY StatusNotEof DEF Plain, Err, Result
  <2> QED BY <2>1, <1>2, ReturnStep DEF Lookup
<1> QED BY <1>1, <1>2 DEF Lookup

\* FS.stat and the GETATTR of resolve.
LEMMA StatStep ==
    ASSUME IInv, stat
    PROVE  IInv'
<1>1. UNCHANGED server
  BY DEF stat
<1>2. Plain(OK) /\ Plain(Err("not a directory"))
  BY DEF Plain, OK, Err, Result
<1>3. ASSUME NEW k \in {"dir", "file"}, Resolved(k)
      PROVE  IInv'
  <2>1. CASE Return(OK) /\ UNCHANGED <<handle, got>>
    BY <2>1, <1>1, <1>2, ReturnStep
  <2>2. CASE Return(Err("not a directory")) /\ UNCHANGED <<handle, got>>
    BY <2>2, <1>1, <1>2, ReturnStep
  <2>3. CASE Return(OK) /\ handle' = Opened(k) /\ got' = <<>>
    <3>1. /\ handle'.kind = "dir" => handle' = [kind |-> "dir", entries |-> <<>>, read |-> FALSE, pos |-> 0]
          /\ handle'.kind = "file" => handle' = [kind |-> "file", offset |-> 0, eof |-> FALSE]
      BY <2>3 DEF Opened
    <3>2. Shape'
      <4>1. /\ [kind |-> "dir", entries |-> <<>>, read |-> FALSE, pos |-> 0] \in DirHandles
            /\ [kind |-> "file", offset |-> 0, eof |-> FALSE] \in FileHandles
        BY SMTT(30) DEF DirHandles, FileHandles
      <4>2. /\ handle'.kind = "dir" => handle' \in DirHandles
            /\ handle'.kind = "file" => handle' \in FileHandles
        BY <4>1, <3>1, Zenon
      <4> QED BY SMTT(30), <2>3, <4>2, <1>1 DEF IInv, Shape, Return, server, DirHandles
    <3>3. ListInv' /\ RetInv'
      BY SMTT(30), <2>3 DEF Return, ListInv, RetInv, OK, Result
    <3>4. HandleInv'
      BY SMTT(30), <2>3, <3>1 DEF HandleInv, Return, OK, Result
    <3> QED BY <3>2, <3>3, <3>4 DEF IInv
  <2>4. CASE op = "ReadDir" /\ StartList /\ UNCHANGED <<op, left, n, handle, ret, got>>
    <3>1. n' \in Int
      BY <2>4 DEF IInv, Shape
    <3> QED BY <2>4, <3>1, <1>1, StartListStep
  <2>5. CASE pc' = "link" /\ UNCHANGED <<op, left, n, listing, handle, ret, got>>
    BY <2>5, <1>1, WalkStep DEF server
  <2> QED BY <2>1, <2>2, <2>3, <2>4, <2>5, <1>3 DEF Resolved
<1>4. ASSUME NEW s \in Statuses, Return(Err(pathError(s))), UNCHANGED <<handle, got>>
      PROVE  IInv'
  <2>1. Plain(Err(pathError(s)))
    BY StatusNotEof DEF Plain, Err, Result
  <2> QED BY <2>1, <1>1, <1>4, ReturnStep
<1> QED BY <1>3, <1>4 DEF stat

\* dirFile.ReadDir of a directory that was listed before, or that is listed now.
LEMMA DirReadStep ==
    ASSUME IInv, NEW k \in Counts, DirRead(k)
    PROVE  IInv'
<1>1. pc = "idle" /\ handle.kind = "dir" /\ UNCHANGED server /\ k \in Int
  BY NumbersKnown DEF DirRead
<1>2. CASE handle.read
  <2>1. Deliver(handle, k) /\ Return(Delivered(handle, k))
    BY <1>2 DEF DirRead
  <2>2. ret'.err = Delivered(handle, k).err /\ ret'.all = <<>> /\ ret'.stable = {} /\ pc' = "idle"
    BY <2>1 DEF Return, Delivered, Result
  <2>3. handle \in DirHandles /\ got \in Seq(Names)
    BY <1>1 DEF IInv, Shape, DirHandles
  <2>4. /\ handle.pos <= Len(handle.entries) /\ Len(got) = handle.pos
        /\ \A i \in 1 .. handle.pos : got[i] = handle.entries[i]
    BY <1>1 DEF IInv, HandleInv
  <2>5. handle' \in DirHandles /\ got' \in Seq(Names) /\ HandleInv' /\ handle'.kind = "dir"
    BY <2>1, <2>2, <2>3, <2>4, <1>1, <1>2, DeliverStep
  <2>6. Shape'
    BY SMTT(30), <2>1, <2>5, <1>1 DEF IInv, Shape, Return, server, DirHandles
  <2>7. ListInv' /\ RetInv'
    BY SMTT(30), <2>2 DEF ListInv, RetInv
  <2> QED BY <2>5, <2>6, <2>7 DEF IInv
<1>3. CASE ~handle.read
  <2>1. StartList /\ n' = k /\ ret' = OK /\ UNCHANGED <<handle, got>>
    BY <1>3 DEF DirRead
  <2> QED BY <2>1, <1>1, <1>3, StartListStep
<1> QED BY <1>2, <1>3

\* readDirAll ends with this listing.
LEMMA DoneStep ==
    ASSUME IInv, pc = "list", UNCHANGED server,
           NEW list \in Seq(Names), NEW short \in BOOLEAN, Done(list, short),
           short \/ \A x \in stable : Once(list, x),
           \A i \in 1 .. Len(list) : list[i] \in seen
    PROVE  IInv'
<1>1. ASSUME NEW r, Return(Found(r, list, short)),
             r \in [err : {r.err}, list : {r.list}, all : {r.all}, stable : {r.stable}, seen : {r.seen}, short : {r.short}]
      PROVE  ListInv' /\ RetInv' /\ ret'.err = r.err
  <2>1. pc' = "idle" /\ ret' = [r EXCEPT !.all = list, !.stable = stable, !.seen = seen, !.short = short]
    BY <1>1 DEF Return, Found
  <2>2. ret'.all = list /\ ret'.stable = stable /\ ret'.seen = seen /\ ret'.short = short /\ ret'.err = r.err
    BY <2>1, <1>1
  <2> QED BY SMTT(30), <2>1, <2>2 DEF ListInv, RetInv, Once
<1>2. CASE op = "chunk"
  <2> DEFINE h == [handle EXCEPT !.entries = list, !.read = TRUE]
  <2>1. Deliver(h, n) /\ Return(Found(Delivered(h, n), list, short))
    BY <1>2 DEF Done
  <2>2. handle.kind = "dir" /\ ~handle.read
    BY <1>2 DEF IInv, ListInv
  <2>3. handle \in DirHandles /\ got \in Seq(Names) /\ n \in Int
    BY <2>2 DEF IInv, Shape, DirHandles
  <2>4. handle.pos = 0 /\ Len(got) = 0
    BY SMTT(30), <2>2, <2>3 DEF IInv, HandleInv, DirHandles
  <2>5. h \in DirHandles /\ h.entries = list /\ h.read /\ h.pos = 0
    BY <2>3, <2>4 DEF DirHandles
  <2>6. h.pos <= Len(h.entries) /\ Len(got) = h.pos /\ \A i \in 1 .. h.pos : got[i] = h.entries[i]
    BY SMTT(30), <2>4, <2>5
  <2> HIDE DEF h
  <2>7. ListInv' /\ RetInv' /\ ret'.err = Delivered(h, n).err
    BY <2>1, <1>1 DEF Delivered, Result
  <2>8. handle' \in DirHandles /\ got' \in Seq(Names) /\ HandleInv' /\ handle'.kind = "dir"
    BY <2>1, <2>3, <2>5, <2>6, <2>7, DeliverStep
  <2>9. Shape'
    BY SMTT(30), <2>1, <2>8 DEF IInv, Shape, Return, server, DirHandles
  <2> QED BY <2>7, <2>8, <2>9 DEF IInv
<1>3. CASE op # "chunk"
  <2>1. Return(Found(Result("nil", list), list, short)) /\ UNCHANGED <<handle, got>>
    BY <1>3 DEF Done
  <2>2. ListInv' /\ RetInv' /\ ret'.err = "nil"
    BY SMTT(30), <2>1, <1>1 DEF Result
  <2>3. Shape'
    BY SMTT(30), <2>1 DEF IInv, Shape, Return, server
  <2>4. HandleInv'
    BY <2>1, <2>2 DEF IInv, HandleInv
  <2> QED BY <2>2, <2>3, <2>4 DEF IInv
<1> QED BY <1>2, <1>3

\* A page of readDirAll: the loop goes on after its last cookie, or ends.
LEMMA ReaddirStep ==
    ASSUME IInv, Readdir
    PROVE  IInv'
<1>1. pc = "list" /\ UNCHANGED server
  BY DEF Readdir
<1> DEFINE AtEnd(last) == \A c \in Present(dir) : c <= cookie \/ c <= last
           Page1(last, p, q, eof) ==
                \/ /\ eof \/ p = <<>>
                   /\ Done(Listed(q), ~AtEnd(last))
                \/ /\ ~eof /\ p # <<>>
                   /\ out' = Listed(q) /\ cookie' = NextCookie(p) /\ page' = 1 - page
                   /\ UNCHANGED <<op, pc, left, n, stable, seen, handle, ret, got>>
<1>2. PICK last \in Cookies \cup {0} :
        \E p \in Page(last) : \E q \in Kept(p) : \E eof \in {FALSE, AtEnd(last)} : Page1(last, p, q, eof)
  BY DEF Readdir
<1>3. PICK p \in Page(last) : \E q \in Kept(p) : \E eof \in {FALSE, AtEnd(last)} : Page1(last, p, q, eof)
  BY <1>2
<1>4. PICK q \in Kept(p) : \E eof \in {FALSE, AtEnd(last)} : Page1(last, p, q, eof)
  BY <1>3
<1> DEFINE atEnd == AtEnd(last)
<1>5. \/ Done(Listed(q), ~atEnd)
      \/ /\ p # <<>>
         /\ out' = Listed(q) /\ cookie' = NextCookie(p)
         /\ UNCHANGED <<op, pc, left, n, stable, seen, handle, ret, got>>
  BY <1>4
<1>6. /\ Listed(q) \in Seq(Names)
      /\ \A i \in 1 .. Len(Listed(q)) : Listed(q)[i] \in seen
      /\ \A c \in Cookies : dir[c] \in stable =>
            IF c <= cookie \/ c <= last THEN Once(Listed(q), dir[c]) ELSE Never(Listed(q), dir[c])
  BY <1>1, PageListed DEF IInv
<1>7. /\ stable \subseteq {dir[c] : c \in Cookies} \cap Names
      /\ \A c \in Cookies : dir[c] \in stable => c \in Present(dir)
  BY <1>1, NamesKnown DEF IInv, ListInv, Present
<1>8. CASE Done(Listed(q), ~atEnd)
  <2>1. atEnd => \A x \in stable : Once(Listed(q), x)
    BY <1>6, <1>7
  <2>2. (~atEnd) \in BOOLEAN
    OBVIOUS
  <2> HIDE DEF atEnd
  <2> QED BY <2>1, <2>2, <1>1, <1>6, <1>8, DoneStep
<1>9. CASE /\ p # <<>>
           /\ out' = Listed(q) /\ cookie' = NextCookie(p)
           /\ UNCHANGED <<op, pc, left, n, stable, seen, handle, ret, got>>
  <2>1. cookie \in Nat
    BY DEF IInv, Shape
  <2>2. /\ NextCookie(p) \in Nat /\ NextCookie(p) > cookie /\ NextCookie(p) <= last
        /\ \A c \in Present(dir) : c > cookie /\ c <= last => c <= NextCookie(p)
    BY <2>1, <1>9, PageEnds
  <2>3. \A c \in Present(dir) : c <= NextCookie(p) <=> c <= cookie \/ c <= last
    <3>1. last \in Int /\ \A c \in Present(dir) : c \in Int
      BY SMTT(30) DEF Cookies, Present
    <3> QED BY SMTT(30), <2>1, <2>2, <3>1
  <2>4. Shape'
    BY <2>2, <1>1, <1>6, <1>9 DEF IInv, Shape, server
  <2>5. dir' = dir
    BY <1>1 DEF server
  <2>6. ListInv'
    <3>1. \A c \in Cookies : dir[c] \in stable =>
             IF c <= NextCookie(p) THEN Once(Listed(q), dir[c]) ELSE Never(Listed(q), dir[c])
      <4>1. \A c \in Cookies : dir[c] \in stable => (c <= NextCookie(p) <=> c <= cookie \/ c <= last)
        BY <2>3, <1>7
      <4> QED BY <4>1, <1>6
    <3>2. /\ \A c \in Cookies : dir[c] \in Names => dir[c] \in seen
          /\ op = "chunk" => handle.kind = "dir" /\ ~handle.read
      BY <1>1 DEF IInv, ListInv
    <3> QED BY <3>1, <3>2, <2>5, <1>6, <1>7, <1>9, SMTT(20) DEF ListInv, Once, Never
  <2>7. RetInv' /\ HandleInv'
    BY SMTT(30), <1>9 DEF IInv, RetInv, HandleInv, Once
  <2> QED BY <2>4, <2>6, <2>7 DEF IInv
<1> QED BY <1>5, <1>8, <1>9

\* file.Read: io.EOF is returned together with the flag, or because of it.
LEMMA FileReadStep ==
    ASSUME IInv, NEW len \in Lengths, FileRead(len)
    PROVE  IInv'
<1>1. pc = "idle" /\ handle.kind = "file" /\ UNCHANGED <<server, got>>
  BY DEF FileRead
<1>2. handle \in FileHandles
  BY <1>1 DEF IInv, Shape
<1>3. ASSUME NEW e, NEW h \in FileHandles,
             Return(Result(e, <<>>)), handle' = h, e = "EOF" => h.eof
      PROVE  IInv'
  <2>1. /\ ret'.err = e /\ ret'.all = <<>> /\ ret'.stable = {} /\ pc' = "idle"
        /\ handle'.kind = "file"
    BY <1>3 DEF Return, Result, FileHandles
  <2>2. Shape'
    BY SMTT(30), <2>1, <1>1, <1>3 DEF IInv, Shape, Return, server
  <2>3. ListInv' /\ RetInv'
    BY SMTT(30), <2>1 DEF ListInv, RetInv
  <2>4. HandleInv'
    BY <2>1, <1>3 DEF HandleInv
  <2> QED BY <2>2, <2>3, <2>4 DEF IInv
<1>4. CASE handle.eof /\ Return(Err("EOF")) /\ UNCHANGED handle
  BY <1>2, <1>3, <1>4 DEF Err
<1>5. ASSUME NEW s \in Statuses, Return(Err(s)), UNCHANGED handle
      PROVE  IInv'
  BY <1>2, <1>3, <1>5, StatusNotEof DEF Err
<1>6. ASSUME NEW k \in Nat, NEW eof \in BOOLEAN, handle' = Advance(handle, k, eof),
             Return(IF k = 0 /\ eof THEN Err("EOF") ELSE OK)
      PROVE  IInv'
  <2> DEFINE e == IF k = 0 /\ eof THEN "EOF" ELSE "nil"
  <2>1. Return(Result(e, <<>>))
    BY <1>6 DEF Err, OK
  <2>2. handle' \in FileHandles /\ handle'.eof = eof
    <3>1. handle' = [handle EXCEPT !.offset = handle.offset + k, !.eof = eof]
      BY <1>6 DEF Advance
    <3>2. handle.offset + k \in Nat
      BY SMTT(30), <1>2 DEF FileHandles
    <3> QED BY <3>1, <3>2, <1>2 DEF FileHandles
  <2>3. e = "EOF" => handle'.eof
    BY <2>2
  <2> HIDE DEF e
  <2> QED BY <2>1, <2>2, <2>3, <1>3
<1>7. \/ handle.eof /\ Return(Err("EOF")) /\ UNCHANGED handle
      \/ \E s \in Statuses : Return(Err(s)) /\ UNCHANGED handle
      \/ \E k \in Nat, eof \in BOOLEAN :
            handle' = Advance(handle, k, eof) /\ Return(IF k = 0 /\ eof THEN Err("EOF") ELSE OK)
  <2> DEFINE want == IF len > ReadBlock THEN ReadBlock ELSE len
             there == IF size > handle.offset THEN size - handle.offset ELSE 0
  <2>1. \A k \in 0 .. want : k \in Nat
    BY SMTT(30), NumbersKnown
  <2>2. \A k : (k = there) \in BOOLEAN
    OBVIOUS
  <2>3. \/ handle.eof /\ Return(Err("EOF")) /\ UNCHANGED handle
        \/ \E s \in Statuses : Return(Err(s)) /\ UNCHANGED handle
        \/ \E k \in 0 .. want :
              handle' = Advance(handle, k, k = there) /\ Return(IF k = 0 /\ k = there THEN Err("EOF") ELSE OK)
    BY DEF FileRead
  <2> HIDE DEF want, there
  <2> QED BY <2>1, <2>2, <2>3, Zenon
<1> QED BY <1>4, <1>5, <1>6, <1>7

\* The invariant holds before the first call.
LEMMA InitHolds == Init => IInv
<1> SUFFICES ASSUME Init
             PROVE  IInv
  OBVIOUS
<1>1. PICK dot \in Dots, x \in Names :
        dir = [c \in Cookies |-> IF c = 1 THEN dot ELSE IF c = 2 THEN x ELSE Free]
  BY SMTT(30) DEF Init
<1>2. Shape
  <2>1. dir \in [Cookies -> Names \cup Dots \cup {Free}]
    BY <1>1
  <2>2. \A c \in Cookies : dir[c] \in Names => c = 2
    BY <1>1, NamesKnown
  <2> QED BY SMTT(30), <2>1, <2>2 DEF Init, Shape, NoHandle
<1>3. ListInv /\ RetInv /\ HandleInv
  BY SMTT(30) DEF Init, ListInv, RetInv, HandleInv, NoHandle, OK, Result
<1> QED BY <1>2, <1>3 DEF IInv

\* Every action keeps the invariant.
LEMMA NextHolds == IInv /\ [Next]_vars => IInv'
<1> SUFFICES ASSUME IInv, [Next]_vars
             PROVE  IInv'
  OBVIOUS
<1>1. ASSUME NEW x \in Names, NEW c \in Cookies, Create(x, c)
      PROVE  IInv'
  BY <1>1, CreateStep
<1>2. ASSUME NEW c \in Cookies, Remove1(c)
      PROVE  IInv'
  BY <1>2, RemoveStep
<1>3. ASSUME NEW s \in 0 .. MaxSize, Resize(s)
      PROVE  IInv'
  BY <1>3, WalkStep DEF Resize, Change, listing
<1>4. CASE Invalid
  <2>1. Plain(Err("ErrInvalid"))
    BY DEF Plain, Err, Result
  <2> QED BY <2>1, <1>4, ReturnStep DEF Invalid
<1>5. ASSUME NEW o \in Ops, NEW d \in 0 .. MaxDepth, Call(o, d)
      PROVE  IInv'
  BY <1>5, WalkStep DEF Call, server
<1>6. ASSUME NEW k \in Counts, DirRead(k)
      PROVE  IInv'
  BY <1>6, DirReadStep
<1>7. CASE DirFileRead
  <2>1. Plain(Err("is a directory"))
    BY DEF Plain, Err, Result
  <2> QED BY <2>1, <1>7, ReturnStep DEF DirFileRead
<1>8. ASSUME NEW len \in Lengths, FileRead(len)
      PROVE  IInv'
  BY <1>8, FileReadStep
<1>9. CASE Lookup
  BY <1>9, LookupStep
<1>10. CASE stat
  BY <1>10, StatStep
<1>11. CASE ReadLink
  <2>1. Plain(OK) /\ \A s \in Statuses : Plain(Err(pathError(s)))
    BY StatusNotEof DEF Plain, OK, Err, Result
  <2> QED BY <2>1, <1>11, ReturnStep DEF ReadLink
<1>12. CASE Readdir
  BY <1>12, ReaddirStep
<1>13. CASE ReaddirFails
  <2>1. PICK s \in Statuses : Return(Err(IF op = "chunk" THEN s ELSE pathError(s)))
    BY <1>13 DEF ReaddirFails
  <2>2. Plain(Err(IF op = "chunk" THEN s ELSE pathError(s)))
    BY StatusNotEof DEF Plain, Err, Result
  <2> QED BY <2>1, <2>2, <1>13, ReturnStep DEF ReaddirFails
<1>14. CASE UNCHANGED vars
  BY <1>14, WalkStep DEF vars, server
<1> QED BY <1>1, <1>2, <1>3, <1>4, <1>5, <1>6, <1>7, <1>8, <1>9, <1>10, <1>11, <1>12, <1>13, <1>14 DEF Next, Step
-----------------------------------------------------------------------------
(* Theorems.                                                               *)

\* The inductive invariant: what a listing holds at each cookie of readDirAll,
\* what a directory handle has delivered, and where a file handle stands.
THEOREM Invariance == Spec => []IInv
<1>1. Init => IInv
  BY InitHolds
<1>2. IInv /\ [Next]_vars => IInv'
  BY NextHolds
<1> QED BY <1>1, <1>2, PTL DEF Spec

\* An element that occurs once in a listing is counted once.
LEMMA OnceCounts ==
    ASSUME NEW s, NEW x, Once(s, x)
    PROVE  Cardinality({i \in 1 .. Len(s) : s[i] = x}) = 1
<1>1. PICK k \in 1 .. Len(s) : \A i \in 1 .. Len(s) : s[i] = x <=> i = k
  BY DEF Once
<1>2. {i \in 1 .. Len(s) : s[i] = x} = {k}
  BY <1>1
<1> QED BY <1>2, FS_Singleton

\* readDirAll, for every directory, however the server cuts its pages and whatever
\* other clients do meanwhile: an entry that stays is listed exactly once, and
\* nothing is listed that was never there.
THEOREM ListedOnceThm == Spec => []ListedOnce
<1>1. IInv => ListedOnce
  <2> SUFFICES ASSUME IInv
               PROVE  ListedOnce
    OBVIOUS
  <2>1. ret.short \/ \A x \in ret.stable : Cardinality({i \in 1 .. Len(ret.all) : ret.all[i] = x}) = 1
    BY ZenonT(40), OnceCounts DEF IInv, RetInv
  <2>2. ret.all \in Seq(Names) /\ \A i \in 1 .. Len(ret.all) : ret.all[i] \in ret.seen
    BY DEF IInv, RetInv
  <2>3. Range(ret.all) \subseteq ret.seen
    BY SMTT(30), <2>2 DEF Range
  <2> QED BY <2>1, <2>3 DEF ListedOnce
<1> QED BY <1>1, Invariance, PTL

\* dirFile.ReadDir, for every sequence of counts: the chunks are the listing in its
\* order and without a gap, and io.EOF comes only after the last of them.
THEOREM ChunksAddUpThm == Spec => []ChunksAddUp
<1>1. IInv => ChunksAddUp
  <2> SUFFICES ASSUME IInv, handle.kind = "dir"
               PROVE  ChunksAddUp
    BY DEF ChunksAddUp
  <2>1. handle \in DirHandles /\ got \in Seq(Names)
    BY DEF IInv, Shape, DirHandles
  <2>2. handle.entries \in Seq(Names) /\ handle.pos \in Nat /\ Len(handle.entries) \in Nat
    BY SMTT(30), <2>1 DEF DirHandles
  <2>3. /\ handle.pos <= Len(handle.entries) /\ Len(got) = handle.pos
        /\ \A i \in 1 .. handle.pos : got[i] = handle.entries[i]
        /\ ret.err = "EOF" => handle.pos = Len(handle.entries)
    BY DEF IInv, HandleInv
  <2> DEFINE front == SubSeq(handle.entries, 0 + 1, handle.pos)
  <2>4. /\ front \in Seq(Names) /\ Len(front) = handle.pos - 0
        /\ \A i \in 1 .. handle.pos - 0 : front[i] = handle.entries[0 + i]
    BY SMTT(30), <2>2, <2>3, SliceFacts
  <2>5. \A i \in 1 .. Len(got) : got[i] = front[i]
    BY SMTT(30), <2>2, <2>3, <2>4
  <2>6. Len(got) = Len(front)
    BY SMTT(30), <2>2, <2>3, <2>4
  <2> HIDE DEF front
  <2>7. got = front
    BY <2>1, <2>4, <2>5, <2>6, SameSeq
  <2>8. ASSUME ret.err = "EOF"
        PROVE  got = handle.entries
    BY <2>1, <2>2, <2>3, <2>8, SameSeq
  <2>9. front = SubSeq(handle.entries, 1, Len(got))
    BY SMTT(30), <2>3 DEF front
  <2> QED BY <2>3, <2>7, <2>8, <2>9 DEF ChunksAddUp
<1> QED BY <1>1, Invariance, PTL

\* file.Read stays at io.EOF, for every length of the buffers and whatever the file
\* grows to meanwhile.
THEOREM EofIsFinalThm == Spec => EofIsFinal
<1> DEFINE A == pc = "idle" /\ handle.kind = "file" /\ (ret.err = "EOF" \/ handle.eof) => handle' = handle
<1>1. IInv /\ [Next]_vars => [A]_<<handle, ret>>
  <2> SUFFICES ASSUME IInv, [Next]_vars, pc = "idle", handle.kind = "file", ret.err = "EOF" \/ handle.eof
               PROVE  handle' = handle
    OBVIOUS
  <2>1. handle.eof
    BY DEF IInv, HandleInv
  <2>2. CASE \E len \in Lengths : FileRead(len)
    BY <2>1, <2>2 DEF FileRead
  <2>3. CASE UNCHANGED vars
    BY <2>3 DEF vars
  <2>4. CASE Step
    BY <2>4 DEF Step, Lookup, stat, ReadLink, Readdir, ReaddirFails
  <2>5. CASE \E k \in Counts : DirRead(k)
    BY <2>5 DEF DirRead
  <2> QED BY <2>2, <2>3, <2>4, <2>5 DEF Next, Create, Remove1, Resize, Change, Invalid, Call, DirFileRead
<1> QED BY <1>1, Invariance, PTL DEF Spec, EofIsFinal

=============================================================================
