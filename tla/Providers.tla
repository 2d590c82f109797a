------------------------------ MODULE Providers ------------------------------
(***************************************************************************)
(* The detail providers (forensics/ArtifactDetailProviders): which of them *)
(* takes an artifact row, and what state, warnings and entries it gives    *)
(* for the file the row names.                                             *)
(*                                                                         *)
(* A row's marks are the tests on its path that it passes: how the path    *)
(* begins or ends.  A file is [read, format, ...]: read is the error of    *)
(* reading it, or "none".  An entry keeps its kind, its time and what in   *)
(* the file it was made of.                                                *)
(***************************************************************************)
EXTENDS Containers

CONSTANTS
  Alphabet,  \* names in the order QString::compare puts them
  RowLimit   \* rows asked of the browser's database, 200

ASSUME ProvidersAssumption == Alphabet \in Seq(STRING) /\ RowLimit \in Nat \ {0}

Ranks == [name \in ToSet(Alphabet) |-> CHOOSE i \in DOMAIN Alphabet : Alphabet[i] = name]
Rank(name) == IF name \in DOMAIN Ranks THEN Ranks[name] ELSE 0

(* Keys are compared item by item.                                           *)
KeyLess(a, b) == \E i \in DOMAIN a : a[i] < b[i] /\ \A j \in 1 .. i - 1 : a[j] = b[j]
Sorted(keyed) ==
  LET less == {x \in (DOMAIN keyed) \X (DOMAIN keyed) : KeyLess(keyed[x[1]].key, keyed[x[2]].key)}
      s    == StableSort(keyed, less)
  IN  [i \in DOMAIN s |-> s[i].entry]

(* What a file of each format holds, if it can be read.                      *)
TaskTokens == [t : {"start", "text", "end"}, name : STRING, value : Nat]
IsFile(p) ==
  /\ {"read", "format"} \subseteq DOMAIN p
  /\ CASE p.read # "none"     -> TRUE
       [] p.format = "hive"    -> IsHive(p.hive)
       [] p.format = "lnk"     -> IsLink(p)
       [] p.format = "cfbf"    -> IsCompound(p)
       [] p.format = "evtx"    -> IsLog(p)
       [] p.format = "ese"     -> p.pageSize \in Nat /\ p.pages \in Seq(Pages)
       [] p.format = "xml"     -> p.tokens \in Seq(TaskTokens)
       [] p.format = "text"    -> p.lines \in Seq([key : STRING, value : Nat])
       [] p.format = "pf"      -> p.times \in Seq(Nat)
       [] p.format = "recycle" -> p.time \in Nat
       [] p.format = "sqlite"  -> p.visits \in Seq(Int) /\ p.downloads \in Seq(Int)
       [] OTHER -> TRUE

Keyed(entry, key)  == [entry |-> entry, key |-> key]
TimedFirst(t)      == IF t = NoTime THEN <<1, 0>> ELSE <<0, t>>

Result(state, warnings, error, entries) ==
  [state |-> state, warnings |-> warnings, error |-> error, entries |-> entries]
Failed(error)         == Result("failed", {}, error, <<>>)
Unsupported(warnings) == Result("unsupported", warnings, "none", <<>>)
Partial(warnings)     == Result("partial", warnings, "none", <<>>)
Found(entries, warnings) ==
  Result(IF entries # <<>> /\ warnings = {} THEN "parsed" ELSE "partial", warnings, "none", entries)
NotThere(warnings) == IF warnings = {} THEN Unsupported({}) ELSE Partial(warnings)

-----------------------------------------------------------------------------
(* NTUSER.DAT.  "Explorer" is Software\Microsoft\Windows\CurrentVersion\    *)
(* Explorer.                                                                *)
SlotName == <<"0", "1", "2">>
Urls     == {"url1", "url2"}

\* Mutant: the list is there and not used.
MruEntriesByName(h, c, kind, group) ==
  LET vs == Where(Values(h, c), LAMBDA v : v.name \notin MruLists)
  IN  [i \in DOMAIN vs |-> Keyed(Entry(kind, NoTime, <<c, vs[i].name>>), <<Rank(group), Rank(vs[i].name)>>)]

(* What the list does not name comes last.                                  *)
MruKey(group, name, pos) ==
  <<Rank(group)>> \o (IF pos = {} THEN <<1, 0>> ELSE <<0, Min(pos)>>) \o <<Rank(name)>>

MruEntries(h, c, kind, group) ==
  LET vs     == Where(Values(h, c), LAMBDA v : v.name \notin MruLists)
      order  == MruOrder(Values(h, c))
      pos(v) == {i \in DOMAIN order : SlotName[order[i] + 1] = v.name}
  IN  [i \in DOMAIN vs |-> Keyed(Entry(kind, NoTime, <<c, vs[i].name>>),
                                 MruKey(group, vs[i].name, pos(vs[i])))]

RunMru(h) ==
  LET c == KeyByPath(h, <<"Explorer", "RunMRU">>)
  IN  IF c = NoCell THEN Unsupported({}) ELSE Found(Sorted(MruEntries(h, c, "run_mru", "")), {})

TypedPaths(h) ==
  LET c  == KeyByPath(h, <<"Explorer", "TypedPaths">>)
      vs == IF c = NoCell THEN <<>> ELSE Where(Values(h, c), LAMBDA v : v.name \in Urls)
  IN  Sorted([i \in DOMAIN vs |->
                Keyed(Entry("typed_path", NoTime, <<c, vs[i].name>>), <<Rank(vs[i].name)>>)])

RecentDocs(h) ==
  LET typed  == TypedPaths(h)
      base   == KeyByPath(h, <<"Explorer", "RecentDocs">>)
      below  == ChildKeys(h, <<"Explorer", "RecentDocs">>)
  IN  IF base = NoCell
        THEN IF typed = <<>> THEN Unsupported({}) ELSE Result("partial", {}, "none", typed)
        ELSE Found(typed \o Sorted(MruEntries(h, base, "recent_doc", "(all)")
                     \o Concat([i \in DOMAIN below |->
                          MruEntries(h, below[i], "recent_doc", h.cells[below[i]].name)])), {})

(* The names of programs are written with each letter moved by thirteen.    *)
Rot13(name) == CASE name = "a" -> "n" [] name = "n" -> "a" [] OTHER -> name

UserAssist(h) ==
  LET guids    == ChildKeys(h, <<"Explorer", "UserAssist">>)
      count(g) == KeyByPath(h, <<"Explorer", "UserAssist", h.cells[g].name, "Count">>)
      ran(v)   == IF Len(v.data) < 2 THEN NoTime ELSE FileTime(v.data[2])
      used(c)  == IF c = NoCell THEN <<>> ELSE
                  [i \in DOMAIN Values(h, c) |->
                     Keyed(Entry("program", ran(Values(h, c)[i]), <<c, Values(h, c)[i].name>>),
                           <<Rank(Rot13(Values(h, c)[i].name))>>)]
  IN  IF guids = <<>> THEN Unsupported({})
      ELSE Found(Sorted(Concat([i \in DOMAIN guids |-> used(count(guids[i]))])), {})

(* Amcache.hve: an application's key says when it was first seen.           *)
Amcache(h) ==
  LET apps      == ChildKeys(h, <<"Root", "InventoryApplication">>)
      at(c)     == h.cells[c].time
      says(c)   == FileTime(at(c)) # NoTime \/ \E i \in DOMAIN Values(h, c) : Values(h, c)[i].data # <<>>
      path(c)   == FindValue(Values(h, c), "LowerCaseLongPath").data
      key(c)    == TimedFirst(FileTime(at(c))) \o <<IF path(c) = <<>> THEN 0 ELSE path(c)[1]>>
      kept      == Where(apps, says)
  IN  IF apps = <<>> THEN Unsupported({})
      ELSE Found(Sorted([i \in DOMAIN kept |->
                   Keyed(Entry("application", FileTime(at(kept[i])), kept[i]), key(kept[i]))]), {})

-----------------------------------------------------------------------------
(* SYSTEM: everything is read below the active control set.  "bam" and "dam" *)
(* are bam\State and dam\State, USBSTOR is Enum\USBSTOR, AppCompatCache is   *)
(* Control\Session Manager\AppCompatCache.                                   *)
Blob(data) ==
  IF data = <<>> THEN NoTime
  ELSE IF FileTime(data[1]) # NoTime THEN FileTime(data[1]) ELSE FileTime(Last(data))

BamDam(h) ==
  LET set  == ControlSet(h)
      sids(source) == ChildKeys(h, <<set.name, "Services", source, "UserSettings">>)
      ran(source, c) ==
        LET vs == Where(Values(h, c), LAMBDA v : v.name # "Version")
        IN  [i \in DOMAIN vs |->
               Keyed(Entry(source, Blob(vs[i].data), <<c, vs[i].name>>),
                     TimedFirst(Blob(vs[i].data)) \o <<Rank(source), Rank(vs[i].name)>>)]
      all(source) == Concat([i \in DOMAIN sids(source) |-> ran(source, sids(source)[i])])
      entries == Sorted(all("bam") \o all("dam"))
  IN  IF entries = <<>> THEN Unsupported(set.warnings) ELSE Found(entries, set.warnings)

(* The value is taken for a row of texts, those that are paths kept once.    *)
NoPath == 0
HalfCharacter == -1
Binary == 3
CachedPaths(warned, c, v) ==
  LET paths == {v.data[i] : i \in DOMAIN v.data} \ {NoPath, HalfCharacter}
      all   == warned \union (IF v.type # Binary THEN {"value type"} ELSE {})
                 \union (IF Last(v.data) = HalfCharacter THEN {"odd length"} ELSE {})
      sorted == Arranged(paths, {x \in paths \X paths : x[1] < x[2]})
  IN  IF c = NoCell THEN NotThere(warned)
      ELSE IF v.name # "AppCompatCache" THEN Unsupported(warned)
      ELSE IF v.data = <<>> THEN Partial(warned)
      ELSE IF paths = {} THEN NotThere(all)
      ELSE Found([i \in DOMAIN sorted |-> Entry("path", NoTime, <<c, sorted[i]>>)], all)

AppCompatCache(h) ==
  LET set == ControlSet(h)
      c   == KeyByPath(h, <<set.name, "AppCompatCache">>)
  IN  CachedPaths(set.warnings, c, FindValue(Values(h, c), "AppCompatCache"))

Services(h) ==
  LET set    == ControlSet(h)
      path   == <<set.name, "Services">>
      below  == ChildKeys(h, path)
      name(c) == h.cells[c].name
      dll(c) == KeyByPath(h, path \o <<name(c), "Parameters">>)
  IN  IF below = <<>> THEN NotThere(set.warnings)
      ELSE Found(Sorted([i \in DOMAIN below |->
                   Keyed(Entry("service", FileTime(h.cells[below[i]].time), <<below[i], dll(below[i])>>),
                         <<Rank(name(below[i]))>>)]), set.warnings)

Usb(h) ==
  LET set     == ControlSet(h)
      path    == <<set.name, "USBSTOR">>
      devices == ChildKeys(h, path)
      name(c) == h.cells[c].name
      time(c) == FileTime(h.cells[c].time)
      under(d) ==
        LET made == ChildKeys(h, path \o <<name(d)>>)
        IN  [i \in DOMAIN made |->
               Keyed(Entry("device", time(made[i]), <<d, made[i]>>),
                     TimedFirst(time(made[i])) \o <<Rank(name(d)), Rank(name(made[i]))>>)]
      entries == Sorted(Concat([i \in DOMAIN devices |-> under(devices[i])]))
  IN  IF devices = <<>> \/ entries = <<>> THEN NotThere(set.warnings) ELSE Found(entries, set.warnings)

InHive(p, result) ==
  IF p.format # "hive" \/ ~Opens(p.hive) THEN Failed("not a hive") ELSE result

-----------------------------------------------------------------------------
(* The other formats.                                                       *)
RecycleBin(p) ==
  IF p.format # "recycle" THEN Failed("too short")
  ELSE Found(<<Entry("deletion", FileTime(p.time), p.path)>>,
             (IF p.version \in {1, 2} THEN {} ELSE {"version"})
               \union (IF p.path = "none" THEN {"no original path"} ELSE {}))

ShellLink(p) ==
  LET l == ParseLnk(p)
  IN  IF p.format # "lnk" THEN Failed("too short")
      ELSE Result(l.state, l.warnings, l.error,
                  <<Entry("created", l.times[1], l.fields), Entry("modified", l.times[3], l.fields),
                    Entry("accessed", l.times[2], l.fields)>>)

(* Prefetch: one time of a run, or eight, at a place the version tells.      *)
RunTimes(version) == IF version \in {17, 23} THEN 1 ELSE 8
Prefetch(p) ==
  LET known   == p.version \in {17, 23, 26, 30}
      wanted  == SubSeq(p.times, 1, Least(Len(p.times), RunTimes(p.version)))
      dates   == Where(wanted, LAMBDA t : FileTime(t) # NoTime)
      useful  == p.name \/ known \/ dates # <<>>
      said    == (IF known THEN {} ELSE {"version"})
                   \union (IF Len(wanted) < RunTimes(p.version) THEN {"times truncated"} ELSE {})
                   \union (IF useful THEN {} ELSE {"no field"})
      runs    == [i \in DOMAIN dates |-> Entry("run", FileTime(dates[i]), i)]
      seen    == IF dates = <<>> /\ (p.name \/ known) THEN <<Entry("observed", NoTime, 0)>> ELSE <<>>
  IN  IF p.format # "pf" THEN Failed("signature")
      ELSE Result(IF useful /\ said = {} THEN "parsed" ELSE "partial", said, "none", runs \o seen)

(* A task is one entry; a trigger is summarised when its element closes.  It *)
(* fails when its elements do not nest under one root.                       *)
TaskToken(s, tok) ==
  LET stack == s.stack
      under == IF stack = <<>> THEN "" ELSE Last(stack)
      trigger(n) == [type |-> n, start |-> 0, enabled |-> 0]
  IN  CASE tok.t # "end" /\ stack = <<>> /\ (tok.t = "text" \/ s.root) -> [s EXCEPT !.broken = TRUE]
        [] tok.t = "start" /\ (stack # <<>> \/ ~s.root) ->
             [s EXCEPT !.stack = Append(@, tok.name), !.root = TRUE,
                       !.trigger = IF under = "Triggers" THEN <<trigger(tok.name)>> ELSE @]
        [] tok.t = "text" /\ under = "Date" ->
             [s EXCEPT !.date = IF FileTime(tok.value) = NoTime THEN @ ELSE FileTime(tok.value)]
        [] tok.t = "text" /\ under = "Command" -> [s EXCEPT !.command = tok.value]
        [] tok.t = "text" /\ under = "Enabled" ->
             IF Len(stack) > 1 /\ stack[Len(stack) - 1] = "Settings" THEN [s EXCEPT !.enabled = tok.value]
             ELSE IF s.trigger = <<>> THEN s ELSE [s EXCEPT !.trigger[1].enabled = tok.value]
        [] tok.t = "text" /\ under = "StartBoundary" /\ s.trigger # <<>> ->
             [s EXCEPT !.trigger[1].start = tok.value]
        [] tok.t = "end" /\ stack # <<>> /\ under = tok.name ->
             LET closes == s.trigger # <<>> /\ s.trigger[1].type = tok.name
             IN  [s EXCEPT !.stack = Front(@), !.trigger = IF closes THEN <<>> ELSE @,
                           !.summaries = IF closes THEN Append(@, s.trigger[1]) ELSE @]
        [] tok.t = "end" /\ (stack = <<>> \/ under # tok.name) -> [s EXCEPT !.broken = TRUE]
        [] OTHER -> s

ReadTask(tokens) ==
  LET read[k \in 0 .. Len(tokens)] ==
        IF k = 0 THEN [stack |-> <<>>, root |-> FALSE, trigger |-> <<>>, date |-> NoTime, command |-> 0,
                       enabled |-> 0, summaries |-> <<>>, broken |-> FALSE]
        ELSE IF read[k - 1].broken THEN read[k - 1] ELSE TaskToken(read[k - 1], tokens[k])
  IN  read[Len(tokens)]

ScheduledTask(p) ==
  LET t   == ReadTask(p.tokens)
      any == t.date # NoTime \/ t.command # 0 \/ t.enabled # 0 \/ t.summaries # <<>>
  IN  IF p.format = "empty" THEN Partial({})
      ELSE IF p.format # "xml" THEN Unsupported({})
      ELSE IF t.broken \/ ~t.root \/ t.stack # <<>> THEN Failed("xml")
      ELSE Found(<<Entry("task", t.date, t.summaries)>>, IF any THEN {} ELSE {"no field"})

(* An error report is lines of key and value; the first of a key counts.     *)
WerFields == {"eventtype", "appname", "sig"}
Report(p) ==
  LET value(k) == LET vs == Where(p.lines, LAMBDA l : l.key = k)
                  IN  IF vs = <<>> THEN 0 ELSE Head(vs).value
      time == IF FileTime(value("eventtime")) # NoTime THEN FileTime(value("eventtime"))
                                                       ELSE FileTime(value("reporttime"))
      any  == time # NoTime \/ \E k \in WerFields : value(k) # 0
  IN  IF p.format = "empty" THEN Partial({})
      ELSE IF p.format # "text" THEN Unsupported({})
      ELSE Found(<<Entry("report", time, any)>>,
                 (IF any THEN {} ELSE {"no field"})
                   \union (IF p.fallback THEN {"fallback charset"} ELSE {}))

Sysmon == 7  \* the name Microsoft-Windows-Sysmon
LogDetails(log, primary) ==
  IF log.chunks = 0 THEN Unsupported(log.warnings)
  ELSE Found([i \in DOMAIN log.events |->
                [kind |-> "event", time |-> log.events[i].time, of |-> log.events[i].of,
                 id |-> log.events[i].id, sysmon |-> log.events[i].provider = Sysmon,
                 data |-> log.events[i].data]],
             log.warnings \union (IF primary THEN {} ELSE {"generic channel"}))
EventLog(p, primary) ==
  IF p.format = "short" THEN Failed("truncated")
  ELSE IF p.format # "evtx" THEN Unsupported({})
  ELSE LogDetails(ReadLog(p.chunks), primary)

Srum(p) ==
  LET s == ParseSrum(p)
  IN  IF p.format # "ese" \/ ~s.valid THEN Failed("signature")
      ELSE Found([i \in DOMAIN s.tables |-> Entry("table", NoTime, s.tables[i])], s.warnings)

(* Without its table a query has no rows.                                    *)
NoTable == <<-1>>
Rows(table, kind) ==
  LET rows == IF table = NoTable THEN <<>> ELSE SubSeq(table, 1, Least(Len(table), RowLimit))
  IN  [i \in DOMAIN rows |-> Entry(kind, FileTime(rows[i]), i)]
History(p) ==
  LET entries == Rows(p.visits, "visit") \o Rows(p.downloads, "download")
      none    == {t \in {"visits", "downloads"} : (IF t = "visits" THEN p.visits ELSE p.downloads) = NoTable}
  IN  IF p.format # "sqlite" THEN Partial({"visits", "downloads", "no row"})
      ELSE Found(entries, none \union (IF entries = <<>> THEN {"no row"} ELSE {}))

FoundAll(list) == Found(list.entries, list.warnings)
JumpList(p) ==
  LET fault == OpenCfbf(p)
      bytes == ReadStream(p, p.destList)
  IN  IF p.format # "cfbf" THEN Failed("signature")
      ELSE IF fault # "none" THEN Failed(fault)
      ELSE IF ~p.listed THEN Partial({"no list"})
      ELSE IF bytes.error # "none" THEN Failed(bytes.error)
      ELSE IF bytes.size < ListHeader THEN Partial({"list truncated"})
      ELSE FoundAll(ReadList(p, bytes.size))

-----------------------------------------------------------------------------
(* Who takes a row: an artifact of one of these names, if any are given, on  *)
(* a path with all these marks.  The first that does is the one.             *)
Takes(name, artifacts, marks) == [name |-> name, artifacts |-> artifacts, marks |-> marks]
ProviderList == <<
  Takes("windows.recycle_bin_i",        {},                         {"$I"}),
  Takes("windows.lnk_summary",          {},                         {".lnk"}),
  Takes("windows.prefetch_summary",     {},                         {".pf"}),
  Takes("windows.registry_run_mru",     {"Run/RunOnce resolver"},   {"NTUSER.DAT"}),
  Takes("windows.registry_recent_docs", {"RecentDocs resolver"},    {"NTUSER.DAT"}),
  Takes("windows.registry_userassist",  {"UserAssist resolver"},    {"NTUSER.DAT"}),
  Takes("windows.amcache",              {"Amcache"},                {"Amcache.hve"}),
  Takes("windows.bam_dam",              {"BAM/DAM resolver"},       {"/SYSTEM"}),
  Takes("windows.appcompatcache_v1",    {"AppCompatCache resolver"}, {"/SYSTEM"}),
  Takes("windows.services_v1",          {"Services hive resolver"}, {"/SYSTEM"}),
  Takes("windows.usb_registry_v1",      {"USB registry resolver"},  {"/SYSTEM"}),
  Takes("windows.scheduled_task_v1",    {"Scheduled Task definitions"}, {"tasks"}),
  Takes("windows.wer_v1",               {"WER report files"},       {"wer", ".wer"}),
  Takes("windows.evtx_v1",              {"EVTX files"},             {"logs", ".evtx"}),
  Takes("windows.srum_metadata_probe",  {"SRUM metadata probe", "SRUM"}, {"SRUDB.dat"}),
  Takes("windows.chromium_history",     {"Chrome History", "Edge History"}, {"/History"}),
  Takes("windows.jump_list_v1",         {},                         {"destinations"}) >>

Supports(provider, row) ==
  /\ provider.artifacts = {} \/ row.artifact \in provider.artifacts
  /\ provider.marks \subseteq row.marks

Parse(name, row, p) ==
  CASE name = "windows.recycle_bin_i"        -> RecycleBin(p)
    [] name = "windows.lnk_summary"          -> ShellLink(p)
    [] name = "windows.prefetch_summary"     -> Prefetch(p)
    [] name = "windows.registry_run_mru"     -> InHive(p, RunMru(p.hive))
    [] name = "windows.registry_recent_docs" -> InHive(p, RecentDocs(p.hive))
    [] name = "windows.registry_userassist"  -> InHive(p, UserAssist(p.hive))
    [] name = "windows.amcache"              -> InHive(p, Amcache(p.hive))
    [] name = "windows.bam_dam"              -> InHive(p, BamDam(p.hive))
    [] name = "windows.appcompatcache_v1"    -> InHive(p, AppCompatCache(p.hive))
    [] name = "windows.services_v1"          -> InHive(p, Services(p.hive))
    [] name = "windows.usb_registry_v1"      -> InHive(p, Usb(p.hive))
    [] name = "windows.scheduled_task_v1"    -> ScheduledTask(p)
    [] name = "windows.wer_v1"               -> Report(p)
    [] name = "windows.evtx_v1"              -> EventLog(p, "primary" \in row.marks)
    [] name = "windows.srum_metadata_probe"  -> Srum(p)
    [] name = "windows.chromium_history"     -> History(p)
    [] name = "windows.jump_list_v1"         -> JumpList(p)

NoDetails == [provider |-> "none"]
Details(name, r) == [provider |-> name, state |-> r.state, warnings |-> r.warnings,
                     error |-> r.error, entries |-> r.entries]

(* A jump list of the other kind is not read at all.                         *)
describe(row, p) ==
  LET takers == Where(ProviderList, LAMBDA x : Supports(x, row))
      name   == Head(takers).name
  IN  IF takers = <<>> THEN NoDetails
      ELSE IF name = "windows.jump_list_v1" /\ "custom" \in row.marks
        THEN Details(name, Unsupported({"only automatic destinations"}))
      ELSE IF p.read # "none" THEN Details(name, Failed(p.read))
      ELSE Details(name, Parse(name, row, p))

(* What the command line does for all rows.                                  *)
ToDescribe(row) == row.status = "Present" /\ ~row.directory
populate(rows, files) ==
  [i \in DOMAIN rows |-> IF ToDescribe(rows[i]) THEN describe(rows[i], files[i]) ELSE NoDetails]
=============================================================================
