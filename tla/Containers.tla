------------------------------ MODULE Containers ------------------------------
(***************************************************************************)
(* The file formats the detail providers read byte by byte                 *)
(* (forensics/ArtifactDetailProviders, detail_providers/EvtxBinXmlParser   *)
(* and SrumEsentParser): shell links, compound files with the jump list in *)
(* them, event logs with their binary XML, and the ESE pages of SRUM.      *)
(*                                                                         *)
(* A file is a record of what its bytes say where the code looks.  Lengths *)
(* and offsets stay numbers, since running past the end is what the code   *)
(* guards against; texts are kept only as far as they are told apart.      *)
(***************************************************************************)
EXTENDS Hive

CONSTANT RecordCap  \* kRecordCap, the most events taken from one log

ASSUME ContainersAssumption == RecordCap \in Nat \ {0}

NoTime == 0
Epoch  == 2  \* the first file time that is a date of ours: 1970
\* Mutant: a time before the epoch is taken for a date.
FileTimeUnchecked(raw) == raw

FileTime(raw) == IF raw < Epoch THEN NoTime ELSE raw

Least(a, b) == IF a < b THEN a ELSE b
Entry(kind, time, of) == [kind |-> kind, time |-> time, of |-> of]

-----------------------------------------------------------------------------
(* Shell links.  body is what follows the header, cut into items of which   *)
(* one holds a length; a string or an item list is preceded by its length,  *)
(* and link information counts itself.                                      *)
Strings == <<"name", "relative", "workdir", "args">>

ReadString(body, st, field) ==
  LET from == st.cursor + 2
      to   == st.cursor + 1 + body[st.cursor + 1]
  IN  IF st.cursor >= Len(body)
        THEN [st EXCEPT !.warnings = @ \union {"string header truncated"}]
      ELSE IF to > Len(body)
        THEN [st EXCEPT !.cursor = @ + 1, !.warnings = @ \union {"string truncated"}]
      ELSE [st EXCEPT !.cursor = to,
                      !.fields = IF from <= to /\ field # "name"
                                   THEN @ \union {[field |-> field, at |-> from]} ELSE @]

ReadStrings(p, start) ==
  LET read[i \in 0 .. Len(Strings)] ==
        IF i = 0 THEN start
        ELSE IF Strings[i] \in p.flags THEN ReadString(p.body, read[i - 1], Strings[i])
        ELSE read[i - 1]
  IN  read[Len(Strings)]

IsLink(p) == p.times \in [1 .. 3 -> Nat]

Lnk(state, warnings, error, fields, times) ==
  [state |-> state, warnings |-> warnings, error |-> error, fields |-> fields, times |-> times]

ParseLnk(p) ==
  LET times == [i \in 1 .. 3 |-> FileTime(p.times[i])]
      ids   == IF "idlist" \notin p.flags THEN 0 ELSE IF p.body = <<>> THEN 1 ELSE 1 + p.body[1]
      info  == "linkinfo" \in p.flags /\ ids < Len(p.body)
      size  == p.body[ids + 1]
      fits  == size > 0 /\ ids + size <= Len(p.body)
      start == [cursor   |-> IF info THEN ids + size ELSE ids,
                fields   |-> IF info /\ fits /\ size > 1
                               THEN {[field |-> "target", at |-> ids + 2]} ELSE {},
                warnings |-> IF info /\ ~fits THEN {"link information truncated"} ELSE {}]
      end   == ReadStrings(p, start)
      any   == end.fields # {} \/ \E i \in 1 .. 3 : times[i] # NoTime
  IN  IF p.header # "ok" THEN Lnk("failed", {}, p.header, {}, <<NoTime, NoTime, NoTime>>)
      ELSE IF ids > Len(p.body) THEN Lnk("partial", {"item list truncated"}, "none", {}, times)
      ELSE   Lnk(IF any /\ end.warnings = {} THEN "parsed" ELSE "partial",
                 IF any THEN end.warnings ELSE end.warnings \union {"no field"},
                 "none", end.fields, times)

-----------------------------------------------------------------------------
(* Compound files.  A chain of sectors is followed through a table until    *)
(* its end; a sector out of the table, met before or not in the file ends   *)
(* it with an error.  sectors and minis are the numbers of sectors there.   *)
EndOfChain == -2
FreeSector == -1

IsTable(t)  == IsFiniteSet(DOMAIN t) /\ DOMAIN t \subseteq Nat /\ \A n \in DOMAIN t : t[n] \in Int
IsStream(s) == s.start \in Int /\ s.size \in Nat
IsCompound(p) ==
  /\ IsTable(p.fat) /\ IsTable(p.miniFat)
  /\ {p.sectors, p.minis, p.sectorSize, p.miniSize} \subseteq Nat
  /\ IsStream(p.destList) /\ \A i \in DOMAIN p.streams : IsStream(p.streams[i])
  /\ \A o \in DOMAIN p.list : p.list[o].time \in Nat /\ p.list[o].chars \in [1 .. 2 -> Nat]

\* Mutant: a sector met before is read again.
HopAgain(table, room, st) ==
  IF st.error # "none" \/ st.at = EndOfChain THEN st
  ELSE IF st.at \notin DOMAIN table THEN [st EXCEPT !.error = "outside the table"]
  ELSE IF st.at >= room THEN [st EXCEPT !.error = "out of range"]
  ELSE [st EXCEPT !.data = Append(@, st.at), !.at = table[st.at]]

Hop(table, room, st) ==
  IF st.error # "none" \/ st.at = EndOfChain THEN st
  ELSE IF st.at \notin DOMAIN table THEN [st EXCEPT !.error = "outside the table"]
  ELSE IF \E i \in DOMAIN st.data : st.data[i] = st.at THEN [st EXCEPT !.error = "loop"]
  ELSE IF st.at >= room THEN [st EXCEPT !.error = "out of range"]
  ELSE [st EXCEPT !.data = Append(@, st.at), !.at = table[st.at]]

Chain(table, room, start) ==
  LET longest == Cardinality(DOMAIN table) + 1
      walk[k \in 0 .. longest] ==
        IF k = 0 THEN [at |-> start, data |-> <<>>, error |-> "none"]
                 ELSE Hop(table, room, walk[k - 1])
  IN  walk[longest]

NoData(start) == start \in {EndOfChain, FreeSector}
ReadFat(c, start) ==
  IF NoData(start) THEN [at |-> start, data |-> <<>>, error |-> "none"]
                   ELSE Chain(c.fat, c.sectors, start)

(* The root entry's stream is cut into mini sectors.                        *)
Minis(c) == IF c.root = EndOfChain THEN 0 ELSE c.minis

(* What a compound file holds once it is open; the first fault ends it.     *)
OpenCfbf(c) ==
  LET faults == Where(<<c.header, ReadFat(c, c.directory).error,
                            IF NoData(c.miniStart) THEN "none" ELSE ReadFat(c, c.miniStart).error,
                            ReadFat(c, c.root).error>>, LAMBDA e : e # "none")
  IN  IF faults = <<>> THEN "none" ELSE Head(faults)

InFat(c, stream) == stream.size >= c.cutoff \/ NoData(c.miniStart) \/ Minis(c) = 0

(* A stream's bytes: no more than its size, and no more than its chain has. *)
ReadStream(c, stream) ==
  LET read == IF InFat(c, stream) THEN Chain(c.fat, c.sectors, stream.start)
                                  ELSE Chain(c.miniFat, Minis(c), stream.start)
      unit == IF InFat(c, stream) THEN c.sectorSize ELSE c.miniSize
  IN  IF stream.size = 0 \/ NoData(stream.start)
        THEN [size |-> 0, data |-> <<>>, error |-> "none"]
        ELSE [size  |-> IF read.error = "none" THEN Least(stream.size, unit * Len(read.data)) ELSE 0,
              data  |-> read.data,
              error |-> read.error]

-----------------------------------------------------------------------------
(* The list of destinations in a jump list.  The first layout whose length  *)
(* field leaves the path inside the list is taken for the entry's.  A       *)
(* stream's name is a number read in base sixteen or ten: numbers is both.  *)
ListHeader == 32
MaxChars   == 8192
Layouts    == <<[fixed |-> 114, trusted |-> TRUE], [fixed |-> 128, trusted |-> FALSE]>>
Noise      == [chars |-> <<MaxChars + 1, MaxChars + 1>>, stream |-> 0, time |-> 0, pin |-> 0]

ListedAt(list, off) == IF off \in DOMAIN list THEN list[off] ELSE Noise
Chars(e, l)         == IF l.trusted THEN e.chars[1] ELSE e.chars[2]
Extent(e, l)        == l.fixed + 2 * Chars(e, l)
Fits(e, l, room)    == Chars(e, l) <= MaxChars /\ Extent(e, l) <= room

NamedStream(c, e) == Where(c.streams, LAMBDA s : e.stream \in s.numbers)

NoLink == [header |-> "too short", flags |-> {}, body |-> <<>>, times |-> <<0, 0, 0>>]

(* What the link an entry points to adds: nothing but warnings here.        *)
LinkWarnings(c, e) ==
  LET found == NamedStream(c, e)
      read  == ReadStream(c, Head(found))
  IN  IF e.stream \in {0, FreeSector} THEN {}
      ELSE IF found = <<>> THEN {"link not found"}
      ELSE IF read.error # "none" THEN {"link unreadable"}
      ELSE ParseLnk(IF read.size = 0 THEN NoLink ELSE Head(found).lnk).warnings

ReadListed(c, size, st) ==
  LET e == ListedAt(c.list, st.at)
      l == Where(Layouts, LAMBDA x : Fits(e, x, size - st.at))
  IN  IF st.cut \/ st.at + Layouts[1].fixed > size THEN st
      ELSE IF l = <<>> THEN [st EXCEPT !.cut = TRUE, !.warnings = @ \union {"entries truncated"}]
      ELSE [st EXCEPT
              !.at       = @ + Extent(e, Head(l)),
              !.entries  = Append(@, Entry("entry", IF Head(l).trusted THEN FileTime(e.time) ELSE NoTime, st.at)),
              !.warnings = @ \union LinkWarnings(c, e)
                             \union (IF Head(l).trusted THEN {} ELSE {"layout not trusted"})
                             \union (IF Head(l).trusted /\ e.pin \notin {0, 1, FreeSector}
                                       THEN {"pin state"} ELSE {})]

ReadList(c, size) ==
  LET read[k \in 0 .. size \div Layouts[1].fixed] ==
        IF k = 0 THEN [at |-> ListHeader, entries |-> <<>>, warnings |-> {}, cut |-> FALSE]
                 ELSE ReadListed(c, size, read[k - 1])
  IN  read[size \div Layouts[1].fixed]

-----------------------------------------------------------------------------
(* The binary XML of an event: a row of tokens.  A value is the text in the *)
(* token (index 0) or one of the values listed before them; 0 is no text,   *)
(* and one below Epoch is the text of no date.                              *)
XmlTokens == [t : STRING, name : STRING, value : Nat, index : Nat]
XmlEvents == [header : BOOLEAN, time : Nat, subs : Seq(Nat), tokens : Seq(XmlTokens)]

MaxDepth == 24
Missing  == -1
System(name) == <<"Event", "System", name>>
EventData    == <<"Event", "EventData", "Data">>
Within(stack, path) ==
  Len(stack) >= Len(path) /\ SubSeq(stack, Len(stack) - Len(path) + 1, Len(stack)) = path

Attribute(s, name, v) ==
  CASE Within(s.stack, System("Provider")) /\ name = "Name" ->
         [s EXCEPT !.provider = v, !.consumed = @ \/ v # 0]
    [] Within(s.stack, System("TimeCreated")) /\ name = "SystemTime" /\ FileTime(v) # NoTime ->
         [s EXCEPT !.time = v, !.consumed = TRUE]
    [] Within(s.stack, EventData) /\ name = "Name" -> [s EXCEPT !.key = v]
    [] OTHER -> s

Content(s, v) ==
  CASE Within(s.stack, System("EventID"))  -> [s EXCEPT !.id = v, !.consumed = @ \/ v # 0]
    [] Within(s.stack, System("Computer")) -> [s EXCEPT !.consumed = @ \/ v # 0]
    [] Within(s.stack, EventData) /\ (s.key # 0 \/ v # 0) ->
         [s EXCEPT !.data = Append(@, <<s.key, v, s.read>>), !.key = 0, !.consumed = TRUE]
    [] OTHER -> s

Open(s, name)  == [s EXCEPT !.stack = Append(@, name), !.root = @ \/ (s.stack = <<>> /\ name = "Event")]
\* Mutant: a name outlives the element that gave it.
CloseKeepingKey(s) == [s EXCEPT !.stack = Front(@)]

Close(s)       == [s EXCEPT !.stack = Front(@), !.key = 0]
Malformed(s)   == [s EXCEPT !.over = TRUE]

Token(s, tok, subs) ==
  LET v == IF tok.index = 0 THEN tok.value
           ELSE IF tok.index <= Len(subs) THEN subs[tok.index] ELSE Missing
      t == [s EXCEPT !.read = @ + 1]
  IN  IF s.over THEN s ELSE
      CASE tok.t = "end"  -> [t EXCEPT !.over = TRUE, !.ended = TRUE]
        [] tok.t = "skip" -> t
        [] tok.t = "open" /\ tok.name # "" /\ Len(s.stack) < MaxDepth -> Open(t, tok.name)
        [] tok.t = "close" /\ s.stack # <<>> -> Close(t)
        [] tok.t = "attr" /\ v # Missing /\ s.stack # <<>> -> Attribute(t, tok.name, v)
        [] tok.t = "value" /\ v # Missing -> Content(t, v)
        [] OTHER -> Malformed(t)

ReadEvent(x) ==
  LET start == [stack |-> <<>>, key |-> 0, root |-> FALSE, ended |-> FALSE, over |-> FALSE,
                consumed |-> FALSE, read |-> 0, id |-> 0, provider |-> 0, time |-> x.time, data |-> <<>>]
      read[k \in 0 .. Len(x.tokens)] ==
        IF k = 0 THEN start ELSE Token(read[k - 1], x.tokens[k], x.subs)
  IN  IF x.header THEN read[Len(x.tokens)] ELSE start

Accepted(s) == s.root /\ s.ended /\ s.stack = <<>> /\ s.consumed

-----------------------------------------------------------------------------
(* Event logs: chunks, each a header and a row of records up to its free    *)
(* space.  A record's size is given before and after it; record is what an  *)
(* offset holds, offset 1 the first after the header, and file is where the *)
(* file ends in this chunk.                                                 *)
LogRecords == [size : Int, trailer : Int, xml : XmlEvents]
LogChunks  == [signature : {"chunk", "zero", "bad"}, first : Nat, free : Nat, size : Nat, file : Nat,
               record : Seq(LogRecords)]
IsLog(p) == p.chunks \in Seq(LogChunks) /\ \A n \in DOMAIN p.chunks : Len(p.chunks[n].record) = p.chunks[n].size

Reserved(first, size) == IF first \in 1 .. size THEN first ELSE 1
Bound(c, cursor)      == IF c.free \in cursor + 1 .. c.size + 1 THEN c.free ELSE c.size + 1
EventOf(s, of) ==
  [time |-> s.time, id |-> s.id, provider |-> s.provider, data |-> s.data, good |-> Accepted(s), of |-> of]
LogEvent(n, at, r)    == EventOf(ReadEvent([r.xml EXCEPT !.time = FileTime(@)]), <<n, at>>)
Taken(st, size, event) ==
  [st EXCEPT !.at = @ + size, !.events = Append(@, event),
             !.warnings = @ \union (IF event.good THEN {} ELSE {"malformed payload"})]

\* Mutant: records that end in another size than they began with end the
\* chunk without a word.
ReadRecordQuietly(n, c, st) ==
  LET r == c.record[st.at]
  IN  IF st.over \/ st.at >= Bound(c, Reserved(c.first, c.size)) \/ Len(st.events) >= RecordCap
           \/ st.at > c.file \/ r.size = 0 \/ r.trailer # r.size
        THEN [st EXCEPT !.over = TRUE]
      ELSE IF r.size < 0 \/ st.at + r.size > Least(c.size, c.file) + 1
        THEN [st EXCEPT !.over = TRUE, !.warnings = @ \union {"record truncated"}]
      ELSE Taken(st, r.size, LogEvent(n, st.at, r))

ReadRecord(n, c, st) ==
  LET r == c.record[st.at]
  IN  IF st.over \/ st.at >= Bound(c, Reserved(c.first, c.size)) \/ Len(st.events) >= RecordCap
           \/ st.at > c.file \/ r.size = 0
        THEN [st EXCEPT !.over = TRUE]
      ELSE IF r.size < 0 \/ st.at + r.size > Least(c.size, c.file) + 1
        THEN [st EXCEPT !.over = TRUE, !.warnings = @ \union {"record truncated"}]
      ELSE IF r.trailer # r.size
        THEN [st EXCEPT !.over = TRUE, !.warnings = @ \union {"record size mismatch"}]
      ELSE Taken(st, r.size, LogEvent(n, st.at, r))

ReadChunk(n, c, st) ==
  LET start == [st EXCEPT !.at = Reserved(c.first, c.size), !.over = FALSE, !.chunks = @ + 1,
                          !.warnings = @ \union (IF c.first \in 1 .. c.size THEN {} ELSE {"first record"})]
      read[k \in 0 .. c.size + 1] == IF k = 0 THEN start ELSE ReadRecord(n, c, read[k - 1])
  IN  CASE c.signature = "zero" -> st
        [] c.signature = "bad"  -> [st EXCEPT !.warnings = @ \union {"chunk signature"}]
        [] c.signature = "chunk" -> read[c.size + 1]

Capped(log) == [log EXCEPT !.warnings = @ \union (IF Len(log.events) >= RecordCap THEN {"cap reached"} ELSE {})]
ReadLog(chunks) ==
  LET read[n \in 0 .. Len(chunks)] ==
        IF n = 0 THEN [at |-> 0, over |-> FALSE, chunks |-> 0, events |-> <<>>, warnings |-> {}]
                 ELSE ReadChunk(n, chunks[n], read[n - 1])
  IN  Capped(read[Len(chunks)])

-----------------------------------------------------------------------------
(* The whole pages of an ESE database after its header page (bytes behind   *)
(* the last are not looked at): the number of tags each has in the          *)
(* directory at its end, and the tags, as far as the last that is not       *)
(* empty; the tables are named in what the tags point to.  A page whose     *)
(* directory would begin in its header is passed over in silence, like one  *)
(* of no tags or of too many.                                               *)
Tables == <<"application", "network", "connectivity", "energy">>
PageTags == [empty : BOOLEAN, inside : BOOLEAN, tables : SUBSET ToSet(Tables)]
Pages    == [count : Nat, tags : Seq(PageTags)]
MaxTags  == 1024
Coherent(page, size) == page.count \in 1 .. MaxTags /\ size - 4 * page.count >= 32
Tags(page, size)     == IF Coherent(page, size) THEN page.tags ELSE <<>>

ParseSrum(p) ==
  LET tags    == Concat([i \in DOMAIN p.pages |-> Tags(p.pages[i], p.pageSize)])
      read    == Where(tags, LAMBDA t : ~t.empty /\ t.inside)
      wrong   == \E i \in DOMAIN tags : ~tags[i].empty /\ ~tags[i].inside
      found   == Concat([i \in DOMAIN read |->
                   Where(Tables, LAMBDA x : /\ x \in read[i].tables
                                                /\ \A j \in 1 .. i - 1 : x \notin read[j].tables)])
  IN  IF p.header # "ok" THEN [valid |-> p.header = "page size", tables |-> <<>>, warnings |-> {p.header}]
      ELSE IF p.pages = <<>> THEN [valid |-> TRUE, tables |-> <<>>, warnings |-> {"no data page"}]
      ELSE [valid |-> TRUE, tables |-> found,
            warnings |-> (IF wrong THEN {"tag out of range"} ELSE {})
                           \union (IF found = <<>> THEN {"no table"} ELSE {})]
=============================================================================
