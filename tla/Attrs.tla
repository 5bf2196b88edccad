------------------------------- MODULE Attrs --------------------------------
(***************************************************************************)
(* File attributes (nfs4/attr): the bitmaps a client asks with, the        *)
(* decoding of an attrlist4 and the encoding of settable attributes.  A    *)
(* bitmap is the sequence of its 32-bit words, as on the wire.             *)
(***************************************************************************)
EXTENDS Wire, FiniteSetsExt

\* bitmap.go, AttrNum
AttrNums ==
    [Type |-> 1, Size |-> 4, FSID |-> 8, FileID |-> 20, FilesAvail |-> 21, FilesFree |-> 22,
     FilesTotal |-> 23, MaxName |-> 30, Mode |-> 33, NumLinks |-> 35, Owner |-> 36,
     OwnerGroup |-> 37, RawDev |-> 41, SpaceAvail |-> 42, SpaceFree |-> 43, SpaceTotal |-> 44,
     SpaceUsed |-> 45, TimeAccess |-> 47, TimeMetadata |-> 52, TimeModify |-> 53]

\* Attribute n is bit n % 32 of word n / 32; the last word is that of the largest.
BitmapFor(nums) ==
    [w \in 1 .. (Max(nums \cup {0}) \div 32) + 1 |->
        FoldSet(LAMBDA n, sum : sum + 2 ^ (n % 32), 0, {n \in nums : n \div 32 = w - 1})]

Has(b, n) == (n \div 32) < Len(b) /\ (b[(n \div 32) + 1] \div 2 ^ (n % 32)) % 2 = 1

\* The numbers in a bitmap, in increasing order.  The masks below do not use
\* the top bit of a word, which TLC's integers do not have.
SetAttrs(b) ==
    SelectSeq([i \in 1 .. 32 * Len(b) |-> i - 1], LAMBDA n : n % 32 # 31 /\ Has(b, n))

StandardMask ==
    BitmapFor({AttrNums[a] : a \in {"Type", "Size", "FSID", "FileID", "Mode", "NumLinks", "Owner",
                                    "OwnerGroup", "RawDev", "SpaceUsed", "TimeAccess",
                                    "TimeMetadata", "TimeModify"}})

StatvfsMask ==
    BitmapFor({AttrNums[a] : a \in {"FSID", "FilesAvail", "FilesFree", "FilesTotal", "MaxName",
                                    "SpaceAvail", "SpaceFree", "SpaceTotal"}})

\* Decoding goes by the numbers of the mask, one value after the other.  Width
\* has the words of each attribute the decoder knows, 0 those of a string; an
\* attribute it does not know is an error, because its length is not known.
DecodeAttrs(mask, vals, Width) ==
    LET step(s, n) ==
            LET v == IF n \notin DOMAIN Width THEN [s.d EXCEPT !.err = TRUE]
                     ELSE IF Width[n] = 0 THEN Opaque([s.d EXCEPT !.out = <<>>])
                     ELSE Read([s.d EXCEPT !.out = <<>>], Width[n])
            IN IF s.d.err \/ v.err THEN [s EXCEPT !.d.err = TRUE]
               ELSE [d |-> v, attrs |-> [m \in DOMAIN s.attrs \cup {n} |->
                                            IF m = n THEN v.out ELSE s.attrs[m]]]
        s0 == [d |-> Decoder(vals), attrs |-> <<>>]
        end == FoldLeft(step, s0, SetAttrs(mask))
    IN [err |-> end.d.err, attrs |-> end.attrs]

\* decodeTime reads seconds and nanoseconds.
TimeWords == 2 + 1

\* An FSID of one number.
BugStandardWidth ==
    LET N == AttrNums IN
    (N.Type :> 1) @@ (N.Size :> 2) @@ (N.FSID :> 2) @@ (N.FileID :> 2) @@ (N.Mode :> 1)
    @@ (N.NumLinks :> 1) @@ (N.Owner :> 0) @@ (N.OwnerGroup :> 0) @@ (N.RawDev :> 2)
    @@ (N.SpaceUsed :> 2) @@ (N.TimeAccess :> TimeWords) @@ (N.TimeMetadata :> TimeWords)
    @@ (N.TimeModify :> TimeWords)

\* The switch of Decode.
StandardWidth ==
    LET N == AttrNums IN
    (N.Type :> 1) @@ (N.Size :> 2) @@ (N.FSID :> 2 + 2) @@ (N.FileID :> 2) @@ (N.Mode :> 1)
    @@ (N.NumLinks :> 1) @@ (N.Owner :> 0) @@ (N.OwnerGroup :> 0) @@ (N.RawDev :> 1 + 1)
    @@ (N.SpaceUsed :> 2) @@ (N.TimeAccess :> TimeWords) @@ (N.TimeMetadata :> TimeWords)
    @@ (N.TimeModify :> TimeWords)

\* The switch of DecodeStatvfs.
StatvfsWidth ==
    LET N == AttrNums IN
    (N.FSID :> 2 + 2) @@ (N.FilesAvail :> 2) @@ (N.FilesFree :> 2) @@ (N.FilesTotal :> 2)
    @@ (N.MaxName :> 1) @@ (N.SpaceAvail :> 2) @@ (N.SpaceFree :> 2) @@ (N.SpaceTotal :> 2)

Decode(mask, vals) == DecodeAttrs(mask, vals, StandardWidth)
DecodeStatvfs(mask, vals) == DecodeAttrs(mask, vals, StatvfsWidth)

\* settime4 of the client's time; t is the words of the time.
encodeSettime(t) == U32(1) \o t

\* EncodeFattr: s has the fields that are not nil.
EncodeFattr(s) ==
    LET field(f, w) == IF f \in DOMAIN s THEN w ELSE <<>>
        fields == {"Size", "Mode", "TimeAccess", "TimeModify"} \cap DOMAIN s
    IN [mask |-> BitmapFor({AttrNums[f] : f \in fields}),
        vals |-> field("Size", s.Size) \o field("Mode", U32(s.Mode))
                     \o field("TimeAccess", encodeSettime(s.TimeAccess))
                     \o field("TimeModify", encodeSettime(s.TimeModify))]
=============================================================================
