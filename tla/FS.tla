--------------------------------- MODULE FS ---------------------------------
(***************************************************************************)
(* client.FS (client/fs.go), the read-only io/fs view: Open, Stat, Lstat,  *)
(* ReadDir and ReadLink, each a walk of LOOKUPs and what follows it, and   *)
(* the files and directories that Open returns.  Every protocol call may   *)
(* fail.  Between any two of them other clients create and remove entries  *)
(* of the directory, and change the length of the file.                    *)
(***************************************************************************)
EXTENDS Integers, Sequences, FiniteSets, Functions

CONSTANTS
    Names,       \* the names other clients give to entries
    Dots,        \* "." and ".."
    MaxCookie,   \* entries have the cookies 1 .. MaxCookie
    MaxSize,     \* of the file
    ReadBlock,   \* FS.readBlock
    Lengths,     \* len(p) of a Read
    Counts,      \* n of a dirFile.ReadDir
    Statuses,    \* what a protocol call may fail with
    MaxDepth,    \* components of a path
    MaxChanges   \* by other clients

VARIABLES
    dir,      \* the directory on the server: an entry's name by its cookie
    size,     \* the length of the file on the server
    changes,  \* made by other clients so far
    op,       \* the call: "Open", "Stat", "Lstat", "ReadDir", "ReadLink" or
              \* "chunk" for dirFile.ReadDir
    pc,       \* "idle", "walk", "list" or "link"
    left,     \* components still to be looked up
    n,        \* the argument of dirFile.ReadDir
    cookie,   \* readDirAll: where the next page begins
    out,      \* readDirAll: the entries so far
    page,     \* readDirAll: the number of the page, modulo 2
    handle,   \* what Open returned last: a file, a directory or none
    ret,      \* what the last call returned; see Result
    got,      \* the entries delivered from the directory handle
    stable,   \* the entries that were there all through the listing
    seen      \* the names that were there at some time during the listing

server == <<dir, size, changes>>
listing == <<cookie, out, page, stable, seen>>
vars == <<server, op, pc, left, n, listing, handle, ret, got>>

Free == "free"
Cookies == 1 .. MaxCookie

ASSUME NamesKnown == Names \cap Dots = {} /\ Free \notin Names \cup Dots
\* Every error of a protocol call is wrapped or is a StatusError: none is the
\* io.EOF that file.Read and dirFile.ReadDir return themselves.
ASSUME StatusesKnown == "EOF" \notin Statuses
ASSUME NumbersKnown == MaxCookie \in Nat /\ Lengths \subseteq Nat /\ ReadBlock \in Nat /\ Counts \subseteq Int

Present(d) == {c \in Cookies : d[c] # Free}

NoHandle == [kind |-> "none"]
\* An error, the entries returned, and what a call that listed the directory
\* found: all entries, and whether the server left some out.
Result(e, list) ==
    [err |-> e, list |-> list, all |-> <<>>, stable |-> {}, seen |-> {}, short |-> FALSE]
OK == Result("nil", <<>>)
Err(e) == Result(e, <<>>)
Found(r, all, short) ==
    [r EXCEPT !.all = all, !.stable = stable, !.seen = seen, !.short = short]

\* StatusError.Is, canonicalSentinel and pathError: the sentinel of a status.
pathError(s) ==
    CASE s = "EXIST" -> "ErrExist"
      [] s \in {"NOENT", "STALE", "FHEXPIRED", "NOFILEHANDLE"} -> "ErrNotExist"
      [] s \in {"PERM", "ACCESS", "ROFS"} -> "ErrPermission"
      [] s \in {"INVAL", "BADXDR", "BADHANDLE", "BADTYPE"} -> "ErrInvalid"
      [] OTHER -> s

Init ==
    /\ dir \in {[c \in Cookies |-> IF c = 1 THEN dot ELSE IF c = 2 THEN x ELSE Free] :
                    dot \in Dots, x \in Names}
    /\ size \in 0 .. MaxSize
    /\ changes = 0
    /\ op = "none" /\ pc = "idle" /\ left = 0 /\ n = 0
    /\ cookie = 0 /\ out = <<>> /\ page = 0 /\ stable = {} /\ seen = {}
    /\ handle = NoHandle /\ ret = OK /\ got = <<>>
-----------------------------------------------------------------------------
(* Other clients.                                                          *)

Change ==
    /\ changes < MaxChanges
    /\ changes' = changes + 1
    /\ UNCHANGED <<op, pc, left, n, cookie, out, page, handle, ret, got>>

Create(x, c) ==
    /\ Change
    /\ dir[c] = Free /\ \A b \in Cookies : dir[b] # x
    /\ dir' = [dir EXCEPT ![c] = x]
    /\ seen' = IF pc = "list" THEN seen \cup {x} ELSE seen
    /\ UNCHANGED <<size, stable>>

Remove1(c) ==
    /\ Change
    /\ dir[c] \in Names
    /\ dir' = [dir EXCEPT ![c] = Free]
    /\ stable' = stable \ {dir[c]}
    /\ UNCHANGED <<size, seen>>

Resize(s) ==
    /\ Change
    /\ s # size /\ size' = s
    /\ UNCHANGED <<dir, stable, seen>>
-----------------------------------------------------------------------------
(* Calls.                                                                  *)

\* A call ends; the state of its listing is gone.
Return(r) ==
    /\ pc' = "idle" /\ ret' = r /\ op' = "none" /\ left' = 0 /\ n' = 0
    /\ cookie' = 0 /\ out' = <<>> /\ page' = 0 /\ stable' = {} /\ seen' = {}

\* fs.ValidPath fails: nothing is sent.
Invalid ==
    /\ pc = "idle"
    /\ Return(Err("ErrInvalid"))
    /\ UNCHANGED <<server, handle, got>>

\* Open, Stat, Lstat, ReadDir or ReadLink of a path of d components ("." has 0).
Call(o, d) ==
    /\ pc = "idle"
    /\ op' = o /\ left' = d /\ pc' = "walk"
    /\ ret' = OK
    /\ UNCHANGED <<server, n, listing, handle, got>>

\* resolve: the LOOKUP of the next component.
Lookup ==
    /\ pc = "walk" /\ left > 0
    /\ \/ left' = left - 1 /\ UNCHANGED <<op, pc, n, listing, ret>>
       \/ \E s \in Statuses : Return(Err(pathError(s)))
    /\ UNCHANGED <<server, handle, got>>

\* readDirAll begins; the directory is what it is now.
StartList ==
    /\ pc' = "list"
    /\ cookie' = 0 /\ out' = <<>> /\ page' = 0
    /\ stable' = {dir[c] : c \in Present(dir)} \ Dots
    /\ seen' = stable'

Opened(k) ==
    IF k = "dir" THEN [kind |-> "dir", entries |-> <<>>, read |-> FALSE, pos |-> 0]
    ELSE [kind |-> "file", offset |-> 0, eof |-> FALSE]

\* resolve: GETATTR of the handle that the walk reached, of kind k.
Resolved(k) ==
    \/ op \in {"Stat", "Lstat"} /\ Return(OK) /\ UNCHANGED <<handle, got>>
    \/ op = "Open" /\ Return(OK) /\ handle' = Opened(k) /\ got' = <<>>
    \/ op = "ReadDir" /\ k # "dir" /\ Return(Err("not a directory")) /\ UNCHANGED <<handle, got>>
    \/ op = "ReadDir" /\ k = "dir" /\ StartList /\ UNCHANGED <<op, left, n, handle, ret, got>>
    \/ op = "ReadLink" /\ pc' = "link" /\ UNCHANGED <<op, left, n, listing, handle, ret, got>>

stat ==
    /\ pc = "walk" /\ left = 0
    /\ \/ \E k \in {"dir", "file"} : Resolved(k)
       \/ \E s \in Statuses : Return(Err(pathError(s))) /\ UNCHANGED <<handle, got>>
    /\ UNCHANGED server

ReadLink ==
    /\ pc = "link"
    /\ Return(OK) \/ \E s \in Statuses : Return(Err(pathError(s)))
    /\ UNCHANGED <<server, handle, got>>
-----------------------------------------------------------------------------
(* dirFile.ReadDir.                                                        *)

BugChunk(h, k) ==
    IF k <= 0 THEN [list |-> SubSeq(h.entries, h.pos + 1, Len(h.entries)), pos |-> h.pos, eof |-> FALSE]
    ELSE LET end == IF h.pos + k > Len(h.entries) THEN Len(h.entries) ELSE h.pos + k
         IN [list |-> SubSeq(h.entries, h.pos + 1, end), pos |-> end,
             eof |-> h.pos >= Len(h.entries)]

\* The entries after pos: all of them, or the next k; at the end, io.EOF.
Chunk(h, k) ==
    IF k <= 0
    THEN [list |-> SubSeq(h.entries, h.pos + 1, Len(h.entries)), pos |-> Len(h.entries), eof |-> FALSE]
    ELSE LET end == IF h.pos + k > Len(h.entries) THEN Len(h.entries) ELSE h.pos + k
         IN [list |-> SubSeq(h.entries, h.pos + 1, end), pos |-> end,
             eof |-> h.pos >= Len(h.entries)]

\* The directory was listed before; the chunk is what is left to do.
Delivered(h, k) == Result(IF Chunk(h, k).eof THEN "EOF" ELSE "nil", Chunk(h, k).list)

Deliver(h, k) ==
    /\ handle' = [h EXCEPT !.pos = Chunk(h, k).pos]
    /\ got' = got \o Chunk(h, k).list

DirRead(k) ==
    /\ pc = "idle" /\ handle.kind = "dir"
    /\ IF handle.read THEN Deliver(handle, k) /\ Return(Delivered(handle, k))
       ELSE /\ op' = "chunk" /\ n' = k /\ ret' = OK
            /\ StartList
            /\ UNCHANGED <<left, handle, got>>
    /\ UNCHANGED server

\* Bytes cannot be read from a directory.
DirFileRead ==
    /\ pc = "idle" /\ handle.kind = "dir"
    /\ Return(Err("is a directory"))
    /\ UNCHANGED <<server, handle, got>>
-----------------------------------------------------------------------------
(* readDirAll: a page is the next entries after the cookie, in order, up   *)
(* to any of them; EOF may come with the last one or after it.             *)

\* The cookies of S, every one of them once and by increasing number.
Ordered(S) ==
    {p \in UNION {[1 .. k -> S] : k \in 0 .. MaxCookie} :
        Range(p) = S /\ \A i, j \in DOMAIN p : i < j => p[i] < p[j]}

Page(last) == Ordered({c \in Present(dir) : c > cookie /\ c <= last})

BugNextCookie(p) ==
    LET q == {c \in Range(p) : dir[c] \notin Dots}
    IN IF q = {} THEN cookie ELSE CHOOSE c \in q : \A b \in q : b <= c

\* The cookie of the last entry, a dot or not.
NextCookie(p) == IF p = <<>> THEN cookie ELSE p[Len(p)]

BugKept(p) == {p}

\* The entries of a page that are listed, in its order: not "." and "..".
Kept(p) == Ordered({c \in Range(p) : dir[c] \notin Dots})

\* The listing so far with the names of these entries appended.
Listed(q) == out \o [i \in 1 .. Len(q) |-> dir[q[i]]]

Done(list, short) ==
    IF op = "chunk"
    THEN LET h == [handle EXCEPT !.entries = list, !.read = TRUE]
         IN Deliver(h, n) /\ Return(Found(Delivered(h, n), list, short))
    ELSE Return(Found(Result("nil", list), list, short)) /\ UNCHANGED <<handle, got>>

Readdir ==
    /\ pc = "list"
    /\ \E last \in Cookies \cup {0} : \E p \in Page(last) : \E q \in Kept(p) :
          LET atEnd == \A c \in Present(dir) : c <= cookie \/ c <= last
          IN \E eof \in {FALSE, atEnd} :
                \/ /\ eof \/ p = <<>>
                   /\ Done(Listed(q), ~atEnd)
                \/ /\ ~eof /\ p # <<>>
                   /\ out' = Listed(q) /\ cookie' = NextCookie(p) /\ page' = 1 - page
                   /\ UNCHANGED <<op, pc, left, n, stable, seen, handle, ret, got>>
    /\ UNCHANGED server

\* READDIR fails, or the attributes of an entry cannot be decoded.
ReaddirFails ==
    /\ pc = "list"
    /\ \E s \in Statuses : Return(Err(IF op = "chunk" THEN s ELSE pathError(s)))
    /\ UNCHANGED <<server, handle, got>>
-----------------------------------------------------------------------------
(* file.Read: len(p) bytes, a block at the most, from the offset.          *)

BugAdvance(h, k, eof) == [h EXCEPT !.offset = @ + k, !.eof = eof /\ k > 0]

\* The file after a READ that returned k bytes.
Advance(h, k, eof) == [h EXCEPT !.offset = @ + k, !.eof = eof]

FileRead(len) ==
    LET want == IF len > ReadBlock THEN ReadBlock ELSE len
        there == IF size > handle.offset THEN size - handle.offset ELSE 0
    IN
    /\ pc = "idle" /\ handle.kind = "file"
    /\ \/ /\ handle.eof
          /\ Return(Err("EOF")) /\ UNCHANGED handle
       \/ /\ ~handle.eof
          /\ \E k \in 0 .. want :
                LET eof == k = there IN
                /\ k <= there /\ (k = 0 => want = 0 \/ there = 0)
                /\ handle' = Advance(handle, k, eof)
                /\ Return(IF k = 0 /\ eof THEN Err("EOF") ELSE OK)
       \/ /\ ~handle.eof
          /\ \E s \in Statuses : Return(Err(s)) /\ UNCHANGED handle
    /\ UNCHANGED <<server, got>>
-----------------------------------------------------------------------------
Ops == {"Open", "Stat", "Lstat", "ReadDir", "ReadLink"}

Step == Lookup \/ stat \/ ReadLink \/ Readdir \/ ReaddirFails

Next ==
    \/ \E x \in Names, c \in Cookies : Create(x, c)
    \/ \E c \in Cookies : Remove1(c)
    \/ \E s \in 0 .. MaxSize : Resize(s)
    \/ Invalid
    \/ \E o \in Ops, d \in 0 .. MaxDepth : Call(o, d)
    \/ \E k \in Counts : DirRead(k)
    \/ DirFileRead
    \/ \E len \in Lengths : FileRead(len)
    \/ Step

Spec == Init /\ [][Next]_vars /\ WF_vars(Step)
-----------------------------------------------------------------------------
(***************************************************************************)
(* readDirAll: an entry that is in the directory all through the listing   *)
(* is listed exactly once, however the server cuts its pages and whatever  *)
(* other entries come and go between them; nothing is listed that was not  *)
(* there, and "." and ".." never are.  A server that ends a page with      *)
(* neither an entry nor EOF is the exception: fs.go:219 stops there.       *)
(***************************************************************************)
ListedOnce ==
    /\ ret.short \/ \A x \in ret.stable : Cardinality({i \in 1 .. Len(ret.all) : ret.all[i] = x}) = 1
    /\ Range(ret.all) \subseteq ret.seen

\* dirFile.ReadDir: the chunks add up to the listing, in order and without a gap,
\* whichever counts are asked for, and io.EOF comes only after the last of them.
ChunksAddUp ==
    handle.kind = "dir" =>
        /\ got = SubSeq(handle.entries, 1, Len(got))
        /\ Len(got) = handle.pos
        /\ ret.err = "EOF" => got = handle.entries

\* file.Read: once it has returned io.EOF no read delivers anything, even if the
\* file has grown since; the flag is remembered also when it came with data.
EofIsFinal ==
    [][pc = "idle" /\ handle.kind = "file" /\ (ret.err = "EOF" \/ handle.eof) => handle' = handle]_<<handle, ret>>

\* A call whose protocol calls are answered returns: the pages of a directory
\* come to an end.
CallsEnd == pc # "idle" ~> pc = "idle"
=============================================================================
