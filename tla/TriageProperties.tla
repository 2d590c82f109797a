--------------------------- MODULE TriageProperties ---------------------------
(***************************************************************************)
(* What the details of the artifact rows and their timeline owe to the     *)
(* files they were made of.  Each property looks at the file itself: the   *)
(* cells that can be reached in a hive, the tokens of an event, the sectors *)
(* of a chain; none follows the order in which the parsers do it.          *)
(***************************************************************************)
EXTENDS Triage

Shown     == {i \in DOMAIN rows : PathOf(i) \in DOMAIN cache /\ cache[PathOf(i)] # NoDetails}
Of(i)     == cache[PathOf(i)]
FileAt(i) == disk[PathOf(i)]
Ofs(i)    == {Of(i).entries[k].of : k \in DOMAIN Of(i).entries}
Read(f)   == {i \in Shown : FileAt(i).format = f /\ FileAt(i).read = "none" /\ Of(i).error = "none"}

-----------------------------------------------------------------------------
(* Analyze Artifacts leaves the timeline the command line makes of the same  *)
(* rows, whatever was loaded by hand before, meanwhile or after; only rows   *)
(* that were never to be described can add to it (MainWindow.cpp:1440-1459,  *)
(* 1677-1689; ArtifactMaterializationService.cpp).                           *)
OfScan(t) == Where(t, LAMBDA e : ToDescribe(rows[e.from[1]]))
Files     == [i \in DOMAIN rows |-> disk[PathOf(i)]]

AnalysisIsComplete == analysed => OfScan(timeline) = buildEvents(rows, populate(rows, Files))

(* What holds of every scan, also of one in which several providers claim a  *)
(* path, as they do an NTUSER.DAT or a SYSTEM hive: after an analysis every  *)
(* row to be described has on the timeline the events the command line       *)
(* makes of it or of a row of its path, the same for all rows of that path,  *)
(* and read while the evidence was there.  Where no two rows share a path    *)
(* this is AnalysisIsComplete (the lines named there).                       *)
AnalysisCoversTheScan ==
  analysed =>
    \E teller \in [DOMAIN rows -> DOMAIN rows] :
      /\ \A i, j \in DOMAIN rows : PathOf(i) = PathOf(j) => teller[i] = teller[j]
      /\ \A i \in DOMAIN rows : PathOf(teller[i]) = PathOf(i)
      /\ OfScan(timeline) = buildEvents(rows, [i \in DOMAIN rows |->
           IF ToDescribe(rows[i]) THEN describe(rows[teller[i]], disk[PathOf(i)]) ELSE NoDetails])

(* The panel never shows details of one path under a row of another, however *)
(* loads, selections and an analysis overlap (ArtifactDetailSession.h:41-49). *)
(* They are the selected row's own where no other row has its path; where    *)
(* rows share it, as all that name one hive do, they may be what another     *)
(* row's provider says of it, since the key is the path (same file, 11); the *)
(* run shared_key shows what becomes of that.                                *)
PanelIsTheRows ==
  /\ panel.row = selected
  /\ (selected # 0 /\ panel.state # "loading") =>
       \E j \in {i \in DOMAIN rows : PathOf(i) = PathOf(selected)} :
         \E f \in {FileAt(j), [FileAt(j) EXCEPT !.read = "not mounted"]} :
           panel.details = describe(rows[j], f)

(* Timed events first, in the order of their times; what is equal by time,   *)
(* type, path and profile stays in the order of rows and entries.  Every     *)
(* entry is there once, twice if Sysmon knows it, and a link's absent time   *)
(* not at all (ArtifactTimelineService.cpp:446-506).                         *)
Place(e) == <<IF e.time = NoTime THEN 1 ELSE 0, e.time, Rank(e.type), Rank(e.path), Rank(e.profile),
              e.from[1], IF e.from[2] = 0 THEN 1 ELSE 0, e.from[2]>>
SysmonIds == {1, 3, 4, 7, 8, 10, 11, 22, 25} \union 12 .. 14 \union 16 .. 21
Times(i, k) ==
  LET e == Of(i).entries[k]
  IN  IF e.kind \in {"created", "modified", "accessed"} /\ e.time = NoTime THEN 0
      ELSE IF e.kind = "event" /\ "sysmon" \in rows[i].marks /\ e.sysmon /\ e.id \in SysmonIds THEN 2
      ELSE 1
TimelineInOrder ==
  /\ \A j \in 1 .. Len(timeline) - 1 : KeyLess(Place(timeline[j]), Place(timeline[j + 1]))
  /\ \A i \in Shown : \A k \in DOMAIN Of(i).entries :
       Cardinality({j \in DOMAIN timeline : timeline[j].from = <<i, k>>}) = Times(i, k)
  /\ \A j \in DOMAIN timeline : timeline[j].from[1] \in Shown

(* A row that failed, or was parsed with a warning, says so in one event of  *)
(* the timeline, with the error or all its warnings; a row that was parsed   *)
(* without says nothing (ArtifactTimelineService.cpp:106-116; README.md:129). *)
TroubleIsOnTheTimeline ==
  \A i \in Shown :
    LET said == {j \in DOMAIN timeline : timeline[j].from = <<i, 0>>}
    IN  /\ (Of(i).error # "none" \/ (Of(i).warnings # {} /\ Of(i).state # "unsupported")) =>
             \E j \in said : said = {j} /\ timeline[j].note =
               (IF Of(i).error = "none" THEN Of(i).warnings ELSE {Of(i).error})
        /\ said # {} => Of(i).state # "parsed"

-----------------------------------------------------------------------------
(* No time is made up: an event's time is one the file holds and a date, and *)
(* a jump list entry in the layout that is not trusted has none              *)
(* (ArtifactDetailProviders.cpp:56-63, 463-479; ARCHITECTURE.md:136).        *)
HeldInCell(h, c) == CASE Sig(h, c) = "nk" -> {h.cells[c].time}
                      [] Sig(h, c) \in {"vk", "data"} -> ToSet(h.cells[c].data)
                      [] OTHER -> {}
HeldInHive(h)  == UNION {HeldInCell(h, c) : c \in DOMAIN h.cells}
HeldInEvent(x) == {x.time} \union ToSet(x.subs) \union {x.tokens[k].value : k \in DOMAIN x.tokens}
Held(p) ==
  CASE p.format = "hive" -> HeldInHive(p.hive)
    [] p.format \in {"lnk", "pf"} -> ToSet(p.times)
    [] p.format = "recycle" -> {p.time}
    [] p.format = "xml"     -> {p.tokens[k].value : k \in DOMAIN p.tokens}
    [] p.format = "text"    -> {p.lines[k].value : k \in DOMAIN p.lines}
    [] p.format = "sqlite"  -> ToSet(p.visits) \union ToSet(p.downloads)
    [] p.format = "cfbf"    -> {p.list[o].time : o \in DOMAIN p.list}
    [] p.format = "evtx"    ->
         UNION {UNION {HeldInEvent(r.xml) : r \in ToSet(p.chunks[n].record)} : n \in DOMAIN p.chunks}
    [] OTHER -> {}

TimesComeFromTheFile ==
  /\ \A j \in DOMAIN timeline : timeline[j].time # NoTime =>
       timeline[j].time >= Epoch /\ timeline[j].time \in Held(disk[timeline[j].path])
  /\ \A i \in Read("cfbf") : \A k \in DOMAIN Of(i).entries :
       LET e == Of(i).entries[k]
       IN  e.time # NoTime => 114 + 2 * FileAt(i).list[e.of].chars[1] <= FileAt(i).destList.size - e.of

-----------------------------------------------------------------------------
(* The cells of a hive that can be reached, as sets: below holds what the     *)
(* lists in a list of lists do.                                              *)
Holding(h, below) ==
  [x \in DOMAIN h.cells |->
     CASE Sig(h, x) \in {"li", "lf", "lh"} -> ToSet(h.cells[x].items)
       [] Sig(h, x) = "ri" -> UNION {below[y] : y \in ToSet(h.cells[x].items) \cap DOMAIN h.cells}
       [] OTHER -> {}]
Listed(h, l) ==
  LET down[d \in 0 .. MaxNesting + 1] ==
        IF d = 0 THEN [x \in DOMAIN h.cells |-> {}] ELSE Holding(h, down[d - 1])
  IN  IF l \in DOMAIN h.cells THEN down[MaxNesting + 1][l] ELSE {}
Keys(h, c) == IF Parses(h, c) /\ h.cells[c].count > 0
                THEN {k \in Listed(h, h.cells[c].list) : Named(h, k)} ELSE {}
KeysAt(h, path) ==
  LET at[i \in 0 .. Len(path)] ==
        IF i = 0 THEN {h.root}
        ELSE {k \in UNION {Keys(h, c) : c \in at[i - 1]} : h.cells[k].name = path[i]}
  IN  at[Len(path)]
Under(h, name) ==
  LET at[i \in 0 .. 5] == IF i = 0 THEN KeysAt(h, <<name>>)
                          ELSE at[i - 1] \union UNION {Keys(h, c) : c \in at[i - 1]}
  IN  at[5]
Readable(h, c) ==
  {v \in ToSet(h.cells[c].values) : Sig(h, v) = "vk" /\ (h.cells[v].inline \/ Sig(h, h.cells[v].at) = "data")}
Named2(h, cs)  == UNION {{<<c, h.cells[v].name>> : v \in Readable(h, c)} : c \in cs}

Current(h) ==
  UNION {{Data(h, h.cells[v])[1] : v \in {w \in Readable(h, c) :
            h.cells[w].name = "Current" /\ h.cells[w].type = Dword /\ Data(h, h.cells[w]) # <<>>}}
         : c \in KeysAt(h, <<"Select">>)}
Active(h) == IF Current(h) \subseteq {1} THEN "ControlSet001"
             ELSE IF 2 \in Current(h) THEN "ControlSet002" ELSE "ControlSet999"

(* What is reported of a SYSTEM hive lies below the control set it was last  *)
(* started with; when the hive does not say, below the first, and the row is *)
(* then never parsed without a warning (ArtifactDetailProviders.cpp:297-315; *)
(* README.md:155).                                                           *)
ActiveSetIsRead ==
  \A i \in {j \in Read("hive") : "/SYSTEM" \in rows[j].marks} :
    LET h == FileAt(i).hive
    IN  /\ \A of \in Ofs(i) : of[1] \in Under(h, Active(h))
        /\ Current(h) = {} => Of(i).warnings # {} /\ Of(i).state # "parsed"

(* A damaged cell takes only itself and what lies below it away: every value *)
(* or key that can be reached is still reported, and so is every event in    *)
(* front of the first damage of its own chunk, unless the cap was reached    *)
(* (RegistryHive.cpp:100-181; ArtifactDetailProviders.cpp:1650-1702).        *)
Reached(i) ==
  LET h == FileAt(i).hive
      set == Active(h)
      explorer(name) == KeysAt(h, <<"Explorer", name>>)
      below(cs) == UNION {Keys(h, c) : c \in cs}
      listed(cs) == {x \in Named2(h, cs) : x[2] \notin MruLists}
      settings == below(KeysAt(h, <<set, "Services", "bam", "UserSettings">>)
                        \union KeysAt(h, <<set, "Services", "dam", "UserSettings">>))
  IN  CASE Of(i).provider = "windows.registry_run_mru" -> listed(explorer("RunMRU"))
        [] Of(i).provider = "windows.registry_recent_docs" ->
             listed(explorer("RecentDocs") \union below(explorer("RecentDocs")))
               \union {x \in Named2(h, explorer("TypedPaths")) : x[2] \in Urls}
        [] Of(i).provider = "windows.registry_userassist" ->
             Named2(h, {c \in below(below(explorer("UserAssist"))) : h.cells[c].name = "Count"})
        [] Of(i).provider = "windows.amcache" ->
             {c \in below(KeysAt(h, <<"Root", "InventoryApplication">>)) : h.cells[c].time >= Epoch}
        [] Of(i).provider = "windows.bam_dam" -> {x \in Named2(h, settings) : x[2] # "Version"}
        [] Of(i).provider = "windows.usb_registry_v1" ->
             UNION {{<<d, x>> : x \in Keys(h, d)} : d \in below(KeysAt(h, <<set, "USBSTOR">>))}
        [] OTHER -> {}

Sound(c, at) == /\ at \in 1 .. Least(c.size, c.file)
                /\ at < (IF c.free \in (IF c.first \in 1 .. c.size THEN c.first ELSE 1) + 1 .. c.size + 1
                           THEN c.free ELSE c.size + 1)
                /\ c.record[at].size > 0 /\ c.record[at].trailer = c.record[at].size
                /\ at + c.record[at].size <= Least(c.size, c.file) + 1
Supported(c, T) ==
  \A t \in T : t = (IF c.first \in 1 .. c.size THEN c.first ELSE 1)
                 \/ \E u \in T : Sound(c, u) /\ u + c.record[u].size = t

DamageHidesOnlyItself ==
  /\ \A i \in Read("hive") : Reached(i) \subseteq Ofs(i)
  /\ \A i \in Read("evtx") : "cap reached" \notin Of(i).warnings =>
       \A n \in DOMAIN FileAt(i).chunks :
         LET c == FileAt(i).chunks[n]
         IN  c.signature = "chunk" =>
               \A T \in SUBSET (1 .. c.size) : Supported(c, T) =>
                 \A t \in T : Sound(c, t) => <<n, t>> \in Ofs(i)

(* Programs of a most-recently-used list are in its order, the ones it does  *)
(* not name last; two values of one name are one program.  It is the details *)
(* of the list's provider that count, under whichever row of the hive they   *)
(* are shown (ArtifactDetailProviders.cpp:254-280).                          *)
RecentFirst ==
  \A i \in {j \in Read("hive") : Of(j).provider = "windows.registry_run_mru"} :
    LET h == FileAt(i).hive
        es == Of(i).entries
        order(c) == {v \in Readable(h, c) : h.cells[v].name \in MruLists}
        slots(c) == Data(h, h.cells[CHOOSE v \in order(c) : TRUE])
        before(c, n) == \A m \in 1 .. n : slots(c)[m] # Terminator
        at(x) == {n \in DOMAIN slots(x[1]) : before(x[1], n) /\ SlotName[slots(x[1])[n] + 1] = x[2]}
    IN  \A a, b \in DOMAIN es : (a < b /\ es[a].of # es[b].of /\ Cardinality(order(es[a].of[1])) = 1) =>
          \A n \in at(es[b].of) : \E m \in at(es[a].of) : m < n

-----------------------------------------------------------------------------
(* A stream is read without an error exactly when its start leads, sector by *)
(* sector and all of them in the file, to the end of a chain; then the data  *)
(* are that chain's, cut at the stream's size                                *)
(* (ArtifactDetailProviders.cpp:579-601, 699-733).                           *)
IsChain(table, room, s, start) ==
  /\ \A k \in DOMAIN s : s[k] \in DOMAIN table /\ s[k] < room
  /\ \A k \in DOMAIN s : s[k] = IF k = 1 THEN start ELSE table[s[k - 1]]
  /\ EndOfChain = IF s = <<>> THEN start ELSE table[Last(s)]

ChainIsTheStream ==
  \A i \in {j \in Shown : FileAt(j).format = "cfbf" /\ FileAt(j).read = "none"} :
    LET p == FileAt(i)
    IN  \A stream \in {p.destList} \union ToSet(p.streams) :
          LET r     == ReadStream(p, stream)
              big   == stream.size >= p.cutoff \/ p.root = EndOfChain \/ NoData(p.miniStart) \/ p.minis = 0
              table == IF big THEN p.fat ELSE p.miniFat
              room  == IF big THEN p.sectors ELSE p.minis
          IN  IF stream.size = 0 \/ NoData(stream.start) THEN r.size = 0
              ELSE /\ r.error = "none" <=>
                        \E n \in 0 .. Cardinality(DOMAIN table) :
                          \E s \in [1 .. n -> DOMAIN table] : IsChain(table, room, s, stream.start)
                   /\ r.error = "none" =>
                        /\ IsChain(table, room, r.data, stream.start)
                        /\ r.size <= stream.size
                        /\ r.size \in {stream.size, Len(r.data) * (IF big THEN p.sectorSize ELSE p.miniSize)}

(* A name in an event's data is the one its own Data element gave: nothing   *)
(* was closed between the attribute and the value                            *)
(* (detail_providers/EvtxBinXmlParser.cpp:142-283).                          *)
KeysAreTheirOwn ==
  \A i \in Read("evtx") : \A k \in DOMAIN Of(i).entries :
    LET e  == Of(i).entries[k]
        x  == FileAt(i).chunks[e.of[1]].record[e.of[2]].xml
        said(m) == IF x.tokens[m].index = 0 THEN x.tokens[m].value ELSE x.subs[x.tokens[m].index]
    IN  \A d \in DOMAIN e.data :
          LET at == e.data[d][3]
          IN  /\ x.tokens[at].t = "value" /\ said(at) = e.data[d][2]
              /\ e.data[d][1] # 0 => \E m \in 1 .. at - 1 :
                   /\ x.tokens[m].t = "attr" /\ x.tokens[m].name = "Name" /\ said(m) = e.data[d][1]
                   /\ \A q \in m + 1 .. at - 1 : x.tokens[q].t # "close"

-----------------------------------------------------------------------------
(* Parsed without a warning means whole: the events go on to the free space  *)
(* of their chunk, the end of the file or an empty record; a link holds all  *)
(* its flags promise; a jump list is read to its end, by the layout that is  *)
(* trusted; a task's triggers, a page's tables and a program's runs are all  *)
(* there.  Four cases go unsaid and are left out: a link that ends right     *)
(* where its link information should begin, a list whose chain of sectors    *)
(* ends before the size the directory gives (ArtifactDetailProviders.cpp:    *)
(* 181-207, 699-733), a page of SRUM whose number of tags is zero, above     *)
(* 1024 or more than the page has room for, which is passed over with all it *)
(* holds (detail_providers/SrumEsentParser.cpp:61-65), and what is behind    *)
(* the last whole page (108), which is no page of the model.                 *)
WholeLog(i) ==
  \A n \in DOMAIN FileAt(i).chunks :
    LET c == FileAt(i).chunks[n]
        T == {of[2] : of \in {x \in Ofs(i) : x[1] = n}}
    IN  /\ c.signature # "bad"
        /\ \A t \in T : Sound(c, t) /\ LET next == t + c.record[t].size
                                       IN  \/ next \in T \/ next \in {c.free, c.size + 1}
                                           \/ next > Least(c.file, c.size) \/ c.record[next].size = 0

WholeLink(p, fields) ==
  LET section == <<"idlist", "linkinfo">> \o Strings
      end[i \in 0 .. 6] ==
        IF i = 0 THEN 0
        ELSE IF section[i] \notin p.flags \/ end[i - 1] > Len(p.body) THEN end[i - 1]
        ELSE IF end[i - 1] = Len(p.body) THEN end[i - 1] + (IF i = 2 THEN 0 ELSE 1)
        ELSE end[i - 1] + p.body[end[i - 1] + 1] + (IF i = 2 THEN 0 ELSE 1)
  IN  /\ end[6] <= Len(p.body)
      /\ \A i \in 4 .. 6 : end[i] > end[i - 1] + 1 =>
           [field |-> section[i], at |-> end[i - 1] + 2] \in fields

WholeList(i) ==
  LET size == ReadStream(FileAt(i), FileAt(i).destList).size
      next(t) == t + 114 + 2 * FileAt(i).list[t].chars[1]
  IN  /\ 32 + 114 <= size => 32 \in Ofs(i)
      /\ \A t \in Ofs(i) : next(t) <= size /\ (next(t) \in Ofs(i) \/ next(t) + 114 > size)

Triggers(tokens) ==
  LET depth(k) == Cardinality({m \in 1 .. k : tokens[m].t = "start"})
                    - Cardinality({m \in 1 .. k : tokens[m].t = "end"})
      inside(m, k) == \A q \in m .. k - 1 : depth(q) >= depth(m)
  IN  {k \in DOMAIN tokens : /\ tokens[k].t = "start"
                             /\ \E m \in 1 .. k - 1 : /\ tokens[m].t = "start" /\ tokens[m].name = "Triggers"
                                                      /\ inside(m, k) /\ depth(k) = depth(m) + 1}

ParsedIsWhole ==
  \A i \in {j \in Shown : Of(j).state = "parsed"} :
    LET p == FileAt(i)
        first == Of(i).entries[1]
    IN  CASE p.format = "evtx" -> WholeLog(i)
          [] p.format = "lnk"  -> WholeLink(p, first.of)
          [] p.format = "cfbf" -> WholeList(i)
          [] p.format = "xml"  -> Len(first.of) = Cardinality(Triggers(p.tokens))
          [] p.format = "pf"   -> p.version \in {17, 23, 26, 30} /\ Len(p.times) >= RunTimes(p.version)
          [] p.format = "ese"  ->
               LET kept == {k \in DOMAIN p.pages : Coherent(p.pages[k], p.pageSize)}
                   tags == UNION {ToSet(p.pages[k].tags) : k \in kept}
               IN  /\ \A t \in tags : t.empty \/ t.inside
                   /\ Ofs(i) = UNION {t.tables : t \in {x \in tags : ~x.empty}}
          [] OTHER -> TRUE
=============================================================================
