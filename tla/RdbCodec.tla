------------------------------ MODULE RdbCodec ------------------------------
(***************************************************************************)
(* The text of a snapshot file, as rdb::save writes it and as              *)
(* recoverDb::recover reads it back: one object after the other is         *)
(* written, the file is loaded, and the parser takes it apart.             *)
(*                                                                         *)
(* A text is a sequence of symbols.  The characters that the parser looks  *)
(* for are symbols of their own; a number in decimals is one symbol, and   *)
(* so is one of the file's own tags, and a run of 21 characters (all that  *)
(* matters of the length of a string is whether it exceeds 20).  Operators *)
(* named after a slip are used by no action (PROJECT.json, mutants).       *)
(***************************************************************************)
EXTENDS Integers, Sequences, SequencesExt

CONSTANTS
  Objects,     \* the objects a database may hold
  MaxObjects,  \* bound: objects in one file
  Now,         \* the time of the recovery, in seconds
  MemoryLimit  \* bound: values in a list when memory is exhausted

VARIABLES
  saved,  \* the objects in the file, in its order
  text,   \* the file while it is written; then what is not parsed yet
  stage,  \* "write", where the parser is, or how it ended; in "astray" and
          \* "overrun" it goes on, and nothing is known of what it reads
  got,    \* the object in the parser's hands
  db      \* the objects recovered

codecVars == <<saved, text, stage, got, db>>

-----------------------------------------------------------------------------
(* Symbols *)

Kinds == {"char", "dec", "frac", "run", "lzf", "junk", "tag"}
Symbol == Kinds \X Int

Ch(c) == <<"char", c>>
Dec(n) == <<"dec", n>>    \* an integer in decimals
Frac(n) == <<"frac", n>>  \* n and decimal places
Run == <<"run", 0>>       \* 21 characters that cannot be compressed
Rep == <<"run", 1>>       \* 21 characters that can
Lzf == <<"lzf", 0>>       \* a compressed text the parser finds nothing in
Wild == <<"lzf", 1>>      \* one with a CR or what looks like an expiry in it
Junk == <<"junk", 0>>     \* bytes of memory nobody wrote

Nul == Ch(0)
LF == Ch(10)
CR == Ch(13)
Dollar == Ch(36)
Colon == Ch(58)
E == Ch(101)

RedisTag == <<"tag", 1>>
IdTag == <<"tag", 2>>
CtpTag == <<"tag", 3>>
EcTag == <<"tag", 4>>
YcTag == <<"tag", 5>>
XcTag == <<"tag", 6>>

Eol == <<CR, LF>>
Closing == <<CR, Dollar, LF>>
Expiry == <<E, Colon>>

Never == -1

StringType == 3
HashType == 4
ListType == 5

Least == -2147483647 - 1

(* What a word may consist of: neither the ends of lines and of strings,   *)
(* nor the tags of the file, which are taken not to be typed, nor what a   *)
(* recovery that fails to decompress a value leaves in it.  Of a number    *)
(* below the integers atoi may make anything; there are none.              *)
Letter ==
  {s \in Symbol : /\ s[1] \notin {"tag", "lzf", "junk"}
                  /\ s[1] \in {"dec", "frac"} => s[2] >= Least} \ {Nul, CR}

(* A string has one value, a hash has each field once.  A line's end comes *)
(* into memory only as the value of a string, where the number 10 has been *)
(* read as a character.                                                    *)
ASSUME ObjectsAssumption ==
  /\ Objects \subseteq
       [type : Int, key : Seq(Letter), end : Int, vals : Seq(Seq(Letter))]
  /\ \A o \in Objects :
       /\ o.type = StringType => Len(o.vals) = 1
       /\ o.type = HashType =>
            /\ Len(o.vals) % 2 = 0
            /\ \A i, j \in DOMAIN o.vals :
                 i % 2 = 1 /\ j % 2 = 1 /\ o.vals[i] = o.vals[j] => i = j
       /\ o.type = ListType =>
            /\ Len(o.vals) < MemoryLimit
            /\ \A i \in DOMAIN o.vals : LF \notin ToSet(o.vals[i])

ASSUME LimitsAssumption ==
  MaxObjects \in Nat /\ MemoryLimit \in Nat /\ Now \in Nat \ {0}

(* std::string::find: the first place of p in t, or 0. *)
Find(t, p) ==
  SelectInSubSeq([i \in DOMAIN t |-> i], 1, Len(t) - Len(p) + 1,
                 LAMBDA i : \A k \in DOMAIN p : t[i + k - 1] = p[k])

(* The first place of the symbol c in t, from i on, or 0. *)
Until(t, i, c) == SelectInSubSeq(t, i, Len(t), LAMBDA s : s = c)

From(t, i) == SubSeq(t, i, Len(t))

IsNumber(v) == Len(v) = 1 /\ v[1][1] \in {"dec", "frac"}

(* atoi, atol, atoll *)
AtoI(v) == IF v # <<>> /\ v[1][1] \in {"dec", "frac"} THEN v[1][2] ELSE 0

Size(v) == Len(v) + 20 * Len(SelectSeq(v, LAMBDA s : s[1] = "run"))

-----------------------------------------------------------------------------
(* Writing *)

Int8Max == 127
Int16Max == 32767
Int32Max == 2147483647

EncodingInt == 1
EncodingRaw == 2
EncodingInt8 == 5
EncodingInt16 == 6
EncodingInt32 == 7

getStringEncodingType(v) ==
  IF IsNumber(v) /\ AtoI(v) < Int32Max
    THEN IF AtoI(v) < Int8Max THEN EncodingInt8
         ELSE IF AtoI(v) < Int16Max THEN EncodingInt16 ELSE EncodingInt32
    ELSE EncodingRaw

Clamped(n) == Ch(IF n < 0 THEN 0 ELSE n)

(* An int8_t is written as the character it is. *)
AsInt8(n) == Ch(n % 256)

(* The encodings of a text of more than 20 characters: its length before,  *)
(* its length after, the bytes.  Only compression makes the lengths        *)
(* differ, and it may fail; compressed bytes that begin with a zero count  *)
(* as a failure too.  The buffer is written as a string, up to the first   *)
(* zero in the compressed bytes or in the memory behind them: what is in   *)
(* it is beyond the program's control.                                     *)
Compressions(v) ==
  {<<Size(v), v>>} \cup
    IF Rep \in ToSet(v) THEN {Size(v) - 4} \X {<<Lzf>>, <<Wild>>} ELSE {}

processString(key, v) ==
  LET type == getStringEncodingType(v) IN
  CASE type = EncodingInt8 ->
         {<<EcTag, Dec(EncodingInt)>> \o Eol
            \o key \o <<Colon, AsInt8(AtoI(v))>> \o Closing}
    [] type = EncodingInt16 ->
         {<<EcTag, Dec(EncodingInt)>> \o Eol
            \o key \o <<Colon, Dec(AtoI(v))>> \o Closing}
    [] type = EncodingInt32 ->
         {<<EcTag, Dec(EncodingInt8)>> \o Eol
            \o key \o <<Colon, Dec(AtoI(v))>> \o Closing}
    [] type = EncodingRaw /\ Size(v) =< 20 ->
         {<<EcTag, Dec(EncodingRaw)>> \o Eol \o <<YcTag, Dec(Size(v))>> \o Eol
            \o key \o <<Colon>> \o v \o Closing}
    [] OTHER ->
         {<<EcTag, Dec(EncodingRaw)>> \o Eol \o <<YcTag, Dec(Size(v))>> \o Eol
            \o <<XcTag, Dec(c[1])>> \o Eol
            \o key \o <<Colon>> \o c[2] \o Closing : c \in Compressions(v)}

(* A hash is the sequence of its fields, each with its value after it. *)
processHash(key, vals) ==
  key \o Eol
    \o FlattenSeq([i \in DOMAIN vals |->
         vals[i] \o IF i % 2 = 1 THEN <<Colon>> ELSE Eol])
    \o Closing

ListUnclosed(key, vals) ==
  key \o Eol \o FlattenSeq([i \in DOMAIN vals |-> vals[i] \o Eol])

processList(key, vals) ==
  key \o Eol \o FlattenSeq([i \in DOMAIN vals |-> vals[i] \o Eol]) \o Closing

(* What save may write for an object; a set or a sorted set gets nothing   *)
(* but its expiry.                                                         *)
WrittenAs(o) ==
  LET head == Expiry \o <<Dec(o.end)>> \o Eol
      tag == <<CtpTag, Dec(o.type)>> \o Eol
  IN CASE o.type = StringType ->
            {head \o tag \o s : s \in processString(o.key, o.vals[1])}
       [] o.type = HashType -> {head \o tag \o processHash(o.key, o.vals)}
       [] o.type = ListType -> {head \o tag \o processList(o.key, o.vals)}
       [] OTHER -> {head}

NoObject == [type |-> 0, key |-> <<>>, end |-> 0, vals |-> <<>>]

CodecInit ==
  /\ saved = <<>>
  /\ text = <<RedisTag>> \o Eol \o <<IdTag, Dec(0)>> \o Eol
  /\ stage = "write"
  /\ got = NoObject
  /\ db = {}

SamePlace(o, p) == o.type = p.type /\ o.key = p.key

WriteObject(o) ==
  /\ stage = "write"
  /\ Len(saved) < MaxObjects
  /\ \A i \in DOMAIN saved : ~SamePlace(o, saved[i])
  /\ saved' = Append(saved, o)
  /\ \E w \in WrittenAs(o) : text' = text \o w
  /\ UNCHANGED <<stage, got, db>>

(* getFileInfo takes the mapped file for a string that ends at the first   *)
(* zero; isRedis and getNum read the head.  The rest of a page behind the  *)
(* file is zero; but a file of whole pages has no rest, and if there is no *)
(* zero in it, the string runs on behind the mapping.                      *)
Load ==
  /\ stage = "write"
  /\ LET file == text \o Eol
         zero == Until(file, 1, Nul)
         read == IF zero = 0 THEN file ELSE SubSeq(file, 1, zero - 1)
     IN \/ /\ text' = From(read, Find(read, <<IdTag>>))
           /\ stage' = "time"
        \/ /\ zero = 0
           /\ stage' = "overrun"
           /\ UNCHANGED text
  /\ UNCHANGED <<saved, got, db>>

-----------------------------------------------------------------------------
(* Reading *)

(* What stands from i on up to the end of its line. *)
Line(t, i) == SubSeq(t, i, Until(t, i, CR) - 1)

AddTwice(o) ==
  /\ db' = db \cup {o}
  /\ got' = NoObject
  /\ stage' = "time"
  /\ UNCHANGED saved

(* An object goes into the database, unless its place is taken. *)
AddObject(o) ==
  /\ db' = IF \E p \in db : SamePlace(o, p) THEN db ELSE db \cup {o}
  /\ got' = NoObject
  /\ stage' = "time"
  /\ UNCHANGED saved

TimeAt == Find(text, Expiry) + 2

Time == AtoI(Line(text, TimeAt))

HasTime == stage = "time" /\ Find(text, Expiry) # 0

(* No expiry is found, or it reads as zero. *)
ReadEnd ==
  /\ stage = "time"
  /\ HasTime => Time = 0
  /\ stage' = "done"
  /\ UNCHANGED <<saved, text, got, db>>

Has(t, c) == c \in ToSet(t)

(* An object that has expired is passed over, up to the next closing,      *)
(* which a compressed text before it may hold in parts or whole.           *)
SkipExpired ==
  /\ HasTime
  /\ Time \in 1..(Now - 1)
  /\ LET t == From(text, TimeAt)
         n == Find(t, Closing)
     IN IF Has(SubSeq(t, 1, n), Wild)
          THEN stage' = "astray" /\ UNCHANGED text
          ELSE text' = From(t, n + 3) /\ UNCHANGED stage
  /\ UNCHANGED <<saved, got, db>>

ReadTime ==
  /\ HasTime
  /\ Time < 0 \/ Time >= Now
  /\ text' = From(text, TimeAt)
  /\ got' = [NoObject EXCEPT !.end = Time]
  /\ stage' = "type"
  /\ UNCHANGED <<saved, db>>

(* The next tag, wherever it is; without one an assertion fails. *)
ReadType ==
  /\ stage = "type"
  /\ LET i == Find(text, <<CtpTag>>) IN
       IF i = 0
         THEN stage' = "aborted" /\ UNCHANGED <<text, got>>
         ELSE /\ got' = [got EXCEPT !.type = AtoI(Line(text, i + 1))]
              /\ text' = From(text, i + 1)
              /\ stage' = "object"
  /\ UNCHANGED <<saved, db>>

(* stringGet *)

Encoding == AtoI(Line(text, Find(text, <<EcTag>>) + 1))

PastTag(t, tag) == From(t, Find(t, <<tag>>) + 1)

(* Decompression: the buffer it fills ends without a zero, and its input   *)
(* was cut at the first zero or ends in junk.                              *)
Inflated(v) ==
  {v, <<Junk>>} \cup IF v = <<Lzf>> THEN {<<Rep>>, <<Rep, Junk>>} ELSE {}

(* Key and value as they stand after the next end of line.  The text that  *)
(* remains begins behind the value, or for a raw one with its colon.  A    *)
(* value that ends with the text makes the loop that looks for the line's  *)
(* end run on through memory nobody wrote, and one that was compressed may *)
(* end early or be read as more objects; nothing is known from there on.   *)
ReadPlainString(t, keepsValue, inflates) ==
  LET k == Find(t, Eol) + 2
      c == Until(t, k, Colon)
      r == Until(t, c + 1, CR)
  IN IF r = 0 \/ Has(SubSeq(t, c + 1, r - 1), Wild)
       THEN /\ stage' = "astray"
            /\ UNCHANGED <<saved, text, got, db>>
       ELSE /\ \E v \in IF inflates THEN Inflated(SubSeq(t, c + 1, r - 1))
                                   ELSE {SubSeq(t, c + 1, r - 1)} :
                 AddObject([got EXCEPT !.key = SubSeq(t, k, c - 1), !.vals = <<v>>])
            /\ text' = From(t, IF keepsValue THEN c ELSE r)

AtString == stage = "object" /\ got.type = StringType

ReadInt ==
  /\ AtString
  /\ Encoding = EncodingInt
  /\ ReadPlainString(PastTag(text, EcTag), FALSE, FALSE)

ReadRaw ==
  /\ AtString
  /\ Encoding = EncodingRaw
  /\ LET y == PastTag(text, YcTag)
         x == PastTag(y, XcTag)
         length == AtoI(Line(y, 1))
     IN IF length > 20
          THEN ReadPlainString(x, TRUE, AtoI(Line(x, 1)) # length)
          ELSE ReadPlainString(y, TRUE, FALSE)

(* No other encoding is known: the object gets no key and no value, and    *)
(* its text is left to be parsed.                                          *)
ReadOther ==
  /\ AtString
  /\ Encoding \notin {EncodingInt, EncodingRaw}
  /\ text' = PastTag(text, EcTag)
  /\ AddObject([got EXCEPT !.vals = <<<<>>>>])

(* getHashKey, for hashes and lists.  A list does not take over the expiry. *)
ReadKey ==
  /\ stage = "object"
  /\ got.type \in {HashType, ListType}
  /\ LET k == Find(text, Eol) + 2
         r == Until(text, k, CR)
     IN /\ got' = [got EXCEPT !.key = SubSeq(text, k, r - 1),
                              !.end = IF got.type = ListType THEN Never ELSE @]
        /\ text' = From(text, r + 2)
  /\ stage' = IF got.type = HashType THEN "fields" ELSE "values"
  /\ UNCHANGED <<saved, db>>

(* The fields of a hash with f set to v. *)
WithField(vals, f, v) ==
  IF \E i \in DOMAIN vals : i % 2 = 1 /\ vals[i] = f
    THEN [i \in DOMAIN vals |->
            IF i % 2 = 0 /\ vals[i - 1] = f THEN v ELSE vals[i]]
    ELSE vals \o <<f, v>>

(* getAttrKV: a field up to the next colon, a value up to the line's end.  *)
ReadField ==
  /\ stage = "fields"
  /\ LET c == Until(text, 1, Colon)
         t == From(text, c + 1)
         r == Find(t, Eol)
         f == SubSeq(text, 1, c - 1)
         v == SubSeq(t, 1, r - 1)
     IN \/ /\ Find(text, Closing) = 1 \/ c = 0
           /\ AddObject(got)
           /\ UNCHANGED text
        \/ /\ Find(text, Closing) # 1 /\ c # 0
           /\ text' = From(t, IF r = 0 THEN 1 ELSE r + 2)
           /\ IF r = 0 \/ f = <<>> \/ v = <<>>
                THEN AddObject(got)
                ELSE /\ got' = [got EXCEPT !.vals = WithField(@, f, v)]
                     /\ UNCHANGED <<saved, stage, db>>

(* getListValues: a value up to the end of its line.  At a dollar sign it  *)
(* returns what stands before it and leaves the text as it is.             *)
ReadValue ==
  /\ stage = "values"
  /\ LET r == SelectInSeq(text, LAMBDA s : s \in {CR, LF, Dollar})
         v == SubSeq(text, 1, r - 1)
     IN /\ text' = IF text[r] = Dollar THEN text ELSE From(text, r + 2)
        /\ IF v = <<>>
             THEN AddObject(got)
             ELSE /\ Len(got.vals) < MemoryLimit
                  /\ got' = [got EXCEPT !.vals = Append(@, v)]
                  /\ UNCHANGED <<saved, stage, db>>

(* The list has grown until there is no memory left. *)
OutOfMemory ==
  /\ stage = "values"
  /\ Len(got.vals) = MemoryLimit
  /\ stage' = "killed"
  /\ UNCHANGED <<saved, text, got, db>>

Read ==
  \/ ReadEnd \/ SkipExpired \/ ReadTime \/ ReadType
  \/ ReadInt \/ ReadRaw \/ ReadOther
  \/ ReadKey \/ ReadField \/ ReadValue \/ OutOfMemory

CodecNext == (\E o \in Objects : WriteObject(o)) \/ Load \/ Read

CodecSpec == CodecInit /\ [][CodecNext]_codecVars

-----------------------------------------------------------------------------
(* Properties *)

IsObject(o) ==
  /\ o \in [type : Int, key : Seq(Symbol), end : Int, vals : Seq(Seq(Symbol))]
  /\ o.type = HashType => Len(o.vals) % 2 = 0
  /\ o.type = StringType => Len(o.vals) = 1

(* Types; what has been recovered is of a type that is saved, and no two   *)
(* objects are in one place.                                               *)
CodecTypeOK ==
  /\ Len(saved) =< MaxObjects /\ ToSet(saved) \subseteq Objects
  /\ text \in Seq(Symbol)
  /\ stage \in {"write", "time", "type", "object", "fields", "values",
                "done", "aborted", "astray", "killed", "overrun"}
  /\ stage \in {"fields", "values"} => got.type \in {HashType, ListType}
  /\ \A o \in db : IsObject(o) /\ o.type \in StringType..ListType
  /\ \A o, p \in db : SamePlace(o, p) => o = p

(* A number from low up to high, kept in a string. *)
IsIntIn(o, low, high) ==
  /\ o.type = StringType
  /\ IsNumber(o.vals[1])
  /\ low =< AtoI(o.vals[1]) /\ AtoI(o.vals[1]) < high

IsSmall(o) == IsIntIn(o, Least, 127)
IsMiddle(o) == IsIntIn(o, 127, 32767)
IsWide(o) == IsIntIn(o, 32767, 2147483647)
IsPlain(o) == o.type = StringType /\ ~IsIntIn(o, Least, 2147483647)

ZeroByte(o) == IsSmall(o) /\ AtoI(o.vals[1]) % 256 = 0
Compressible(o) == IsPlain(o) /\ Has(o.vals[1], Rep)

(* Objects whose text the parser takes for itself: it goes on at the next  *)
(* object, or finds no other.  Not so: one with an expiry; a number that   *)
(* is the character 0; a wide number or a string in which what looks like  *)
(* an expiry is left over behind the key; a string that can be compressed; *)
(* a dollar sign in a list; a field that begins with a colon; an empty     *)
(* word in a hash or a list.                                               *)
Confined(o) ==
  /\ o.end = Never
  /\ \/ IsSmall(o) /\ ~ZeroByte(o)
     \/ IsMiddle(o)
     \/ IsWide(o) /\ Find(o.key \o <<Colon>>, Expiry) = 0
     \/ /\ IsPlain(o) /\ ~Compressible(o)
        /\ LET t == o.key \o <<Colon>> \o o.vals[1]
           IN Find(From(t, Until(t, 1, Colon)), Expiry) = 0
     \/ /\ o.type = HashType
        /\ \A i \in DOMAIN o.vals :
             o.vals[i] # <<>> /\ (i % 2 = 1 => o.vals[i][1] # Colon)
     \/ /\ o.type = ListType
        /\ \A i \in DOMAIN o.vals : o.vals[i] # <<>> /\ ~Has(o.vals[i], Dollar)
     \/ o.type \notin StringType..ListType

(* Objects of which it is known what comes back: texts as they are;        *)
(* numbers below 127 as a character, below 32767 without decimal places,   *)
(* and from 2147483647 on as they are.                                     *)
Described(o) ==
  \/ /\ o.type = StringType /\ o.key # <<>> /\ ~Has(o.key, Colon)
     /\ IsSmall(o) => AtoI(o.vals[1]) % 256 \notin {0, 13}
     /\ ~IsWide(o) /\ ~Has(o.vals[1], Rep)
  \/ /\ o.type = HashType
     /\ \A i \in DOMAIN o.vals : i % 2 = 1 => ~Has(o.vals[i], Colon)
  \/ o.type = ListType

Back(o) ==
  CASE IsSmall(o) -> [o EXCEPT !.vals = <<<<Ch(AtoI(o.vals[1]) % 256)>>>>]
    [] IsMiddle(o) -> [o EXCEPT !.vals = <<<<Dec(AtoI(o.vals[1]))>>>>]
    [] OTHER -> o

(* Damage runs forward only: whatever the later objects are, an object     *)
(* comes back as described if it and all before it are confined; it can    *)
(* only find its place taken by one whose key was cut at a colon.  And     *)
(* when all objects are of this kind, nothing else comes back.             *)
ComesBack ==
  stage \in {"done", "astray"} =>
    /\ \A i \in DOMAIN saved :
         /\ \A j \in 1..i : Confined(saved[j])
         /\ Described(saved[i])
         => \/ Back(saved[i]) \in db
            \/ /\ \E p \in db : SamePlace(p, saved[i])
               /\ \E j \in 1..(i - 1) :
                    saved[j].type = StringType /\ Has(saved[j].key, Colon)
    /\ (\A o \in ToSet(saved) : Confined(o) /\ Described(o)) =>
         db = {Back(o) : o \in ToSet(saved)}

(* A recovery does not come to its end only because of a number whose last *)
(* byte is zero or a string that can be compressed, a dollar sign inside   *)
(* of a list's value (it is read again and again), or a file that ends     *)
(* with an object that has no tag, or with what was taken for the expiry   *)
(* of one; or because the file fills its pages and none of the numbers in  *)
(* it ends it.                                                             *)
EndsUnless ==
  /\ stage = "astray" =>
       \E o \in ToSet(saved) : ZeroByte(o) \/ Compressible(o)
  /\ stage = "overrun" => \A o \in ToSet(saved) : ~ZeroByte(o)
  /\ stage = "killed" =>
       \E o \in ToSet(saved) :
         /\ o.type = ListType
         /\ \E i \in DOMAIN o.vals :
              \E k \in 2..Len(o.vals[i]) : o.vals[i][k] = Dollar
  /\ stage = "aborted" =>
       \/ Last(saved).type \notin StringType..ListType
       \/ ~Confined(Last(saved))
=============================================================================
