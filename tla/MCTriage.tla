------------------------------- MODULE MCTriage -------------------------------
EXTENDS TriageProperties

\* Event types, value names, key names and paths, in the order of their characters.
Names ==
  <<"(all)", ".txt", "/auto", "/evtx", "/hive", "/link", "/none", "0", "1", "Version", "a",
    "amcache_entry", "app1", "app2", "appcompatcache_entry_observed", "artifact_parse_status", "b", "bam",
    "bam_execution", "browser_download", "browser_download_observed", "browser_visit", "dam", "dev",
    "evtx_event", "exe", "inst", "jump_list_access", "jump_list_entry_observed", "lnk_accessed", "lnk_created",
    "lnk_modified", "n", "prefetch_last_run", "prefetch_observed", "recycle_bin_deletion",
    "registry_recent_doc", "registry_run_mru", "registry_typed_path", "scheduled_task_observed",
    "scheduled_task_registered", "service_config_modified", "service_config_observed",
    "srum_metadata_table_observed", "svc", "sysmon_config_change", "sysmon_dns_query", "sysmon_file_create",
    "sysmon_image_load", "sysmon_named_pipe", "sysmon_network_connect", "sysmon_process_access",
    "sysmon_process_create", "sysmon_process_tampering", "sysmon_registry_event", "sysmon_remote_thread",
    "sysmon_service_state_change", "sysmon_wmi_event", "url1",
    "usb_device_observed", "usb_device_registry_modified", "userassist_execution", "wer_report_created",
    "wer_report_observed">>

Row(artifact, path, marks) ==
  [artifact |-> artifact, path |-> path, profile |-> "a", marks |-> marks,
   status |-> "Present", directory |-> FALSE]
World(row, p) == [rows |-> <<row>>, disk |-> (row.path :> p)]
Good(format)  == [read |-> "none", format |-> format]

-----------------------------------------------------------------------------
\* Hives, whole and with any one cell damaged.
Nk(name, list, values, time) ==
  [sig |-> "nk", body |-> "whole", name |-> name, count |-> IF list = 0 THEN 0 ELSE 1,
   list |-> list, values |-> values, time |-> time]
Ix(sig, items)       == [sig |-> sig, items |-> items]
Vk(name, type, data) == [sig |-> "vk", name |-> name, type |-> type, inline |-> TRUE, data |-> data, at |-> 0]
Away(name, at)       == [sig |-> "vk", name |-> name, type |-> 3, inline |-> FALSE, data |-> <<>>, at |-> at]
Block(data)          == [sig |-> "data", data |-> data]

UserCells ==
     1 :> Nk("", 2, <<>>, 0)          @@ 2 :> Ix("lf", <<3>>)
  @@ 3 :> Nk("Explorer", 4, <<>>, 0)  @@ 4 :> Ix("ri", <<5, 6>>)
  @@ 5 :> Ix("lf", <<7, 8>>)          @@ 6 :> Ix("lh", <<9, 10>>)
  @@ 7 :> Nk("RunMRU", 0, <<20, 21, 22, 31>>, 0) @@ 8 :> Nk("TypedPaths", 0, <<23>>, 0)
  @@ 9 :> Nk("RecentDocs", 11, <<24, 25>>, 0)    @@ 10 :> Nk("UserAssist", 13, <<>>, 0)
  @@ 11 :> Ix("li", <<12>>)           @@ 12 :> Nk(".txt", 0, <<26, 27>>, 0)
  @@ 13 :> Ix("li", <<14>>)           @@ 14 :> Nk("guid", 15, <<>>, 0)
  @@ 15 :> Ix("lf", <<16>>)           @@ 16 :> Nk("Count", 0, <<28, 29, 30>>, 0)
  @@ 20 :> Vk("MRUListEx", 3, <<1, 0, -1, 2>>) @@ 21 :> Vk("0", 1, <<4>>) @@ 22 :> Away("1", 40)
  @@ 31 :> Vk("2", 1, <<4>>)
  @@ 23 :> Vk("url1", 1, <<4>>)  @@ 24 :> Vk("MRUList", 1, <<0>>) @@ 25 :> Away("0", 41)
  @@ 26 :> Vk("MRUListEx", 3, <<1>>) @@ 27 :> Vk("1", 3, <<4>>)
  @@ 28 :> Vk("n", 3, <<0, 5>>)  @@ 29 :> Vk("a", 3, <<0, 1>>) @@ 30 :> Vk("b", 3, <<0>>)
  @@ 40 :> Block(<<4>>) @@ 41 :> Block(<<4>>)
AmCells ==
     1 :> Nk("", 2, <<>>, 0)    @@ 2 :> Ix("lf", <<3>>) @@ 3 :> Nk("Root", 4, <<>>, 0)
  @@ 4 :> Ix("lf", <<5>>)       @@ 5 :> Nk("InventoryApplication", 6, <<>>, 0)
  @@ 6 :> Ix("lh", <<7, 8, 9>>) @@ 7 :> Nk("app1", 0, <<20>>, 5) @@ 8 :> Nk("app2", 0, <<>>, 3)
  @@ 9 :> Nk("b", 0, <<>>, 1)   @@ 20 :> Vk("LowerCaseLongPath", 1, <<4>>)
SetCells(b) ==
     b :> Ix("lf", <<b + 1, b + 2, b + 3>>)    @@ b + 1 :> Nk("Services", b + 4, <<>>, 0)
  @@ b + 2 :> Nk("USBSTOR", b + 13, <<>>, 0)   @@ b + 3 :> Nk("AppCompatCache", 0, <<b + 22>>, 0)
  @@ b + 4 :> Ix("lf", <<b + 5, b + 6>>)       @@ b + 5 :> Nk("bam", b + 7, <<>>, 0)
  @@ b + 6 :> Nk("svc", b + 11, <<>>, 6)       @@ b + 7 :> Ix("lf", <<b + 8>>)
  @@ b + 8 :> Nk("UserSettings", b + 9, <<>>, 0) @@ b + 9 :> Ix("lf", <<b + 10>>)
  @@ b + 10 :> Nk("sid", 0, <<b + 20, b + 21>>, 0) @@ b + 11 :> Ix("lf", <<b + 12>>)
  @@ b + 12 :> Nk("Parameters", 0, <<>>, 0)    @@ b + 13 :> Ix("lf", <<b + 14>>)
  @@ b + 14 :> Nk("dev", b + 15, <<>>, 0)      @@ b + 15 :> Ix("lf", <<b + 16>>)
  @@ b + 16 :> Nk("inst", 0, <<>>, b % 7)      @@ b + 20 :> Vk("exe", 3, <<1, b % 5>>)
  @@ b + 21 :> Vk("Version", 4, <<1>>)         @@ b + 22 :> Vk("AppCompatCache", 3, <<2, 1, 2>>)
SystemCells(select) ==
     1 :> Nk("", 2, <<>>, 0) @@ 2 :> Ix("lf", <<3, 4, 5>>) @@ 3 :> Nk("Select", 0, <<19>>, 0)
  @@ 19 :> select @@ 4 :> Nk("ControlSet001", 100, <<>>, 0) @@ 5 :> Nk("ControlSet002", 200, <<>>, 0)
  @@ SetCells(100) @@ SetCells(200)

Damaged(cells) ==
  {cells} \union {[c \in DOMAIN cells \ {d} |-> cells[c]] : d \in DOMAIN cells}
          \union {[cells EXCEPT ![x[1]].body = x[2]] :
                    x \in {d \in DOMAIN cells : cells[d].sig = "nk"} \X {"short", "key"}}
HiveFile(cells) == Good("hive") @@ [hive |-> [regf |-> TRUE, root |-> 1, cells |-> cells]]

UserRows   == {Row(a, "/hive", {"NTUSER.DAT"}) :
                 a \in {"Run/RunOnce resolver", "RecentDocs resolver", "UserAssist resolver"}}
SystemRows == {Row(a, "/hive", {"/SYSTEM"}) :
                 a \in {"BAM/DAM resolver", "AppCompatCache resolver", "Services hive resolver",
                        "USB registry resolver"}}
AmRow      == Row("Amcache", "/hive", {"Amcache.hve"})
Selects    == {Vk("Current", 4, <<n>>) : n \in 1 .. 3}
                \union {Vk("Current", 4, <<>>), Vk("Current", 1, <<2>>), Vk("Default", 4, <<2>>), Away("Current", 0)}
HiveWorlds ==
  {World(r, HiveFile(c)) : r \in UserRows, c \in Damaged(UserCells)}
  \union {World(AmRow, HiveFile(c)) : c \in Damaged(AmCells)}
  \union {World(r, HiveFile(c)) : r \in SystemRows, c \in Damaged(SystemCells(Vk("Current", 4, <<2>>)))
                                                            \union {SystemCells(s) : s \in Selects}}
  \union {World(AmRow, p) : p \in {Good("short"), [Good("hive") EXCEPT !.read = "not found"],
                                   Good("hive") @@ [hive |-> [regf |-> FALSE, root |-> 1, cells |-> AmCells]]}}

-----------------------------------------------------------------------------
\* Links: every body of up to four items, under some sets of flags.
LinkBodies == BoundedSeq(0 .. 2, 4)
LinkFlags  == {{}, {"name"}, {"relative"}, {"name", "relative"}, {"idlist", "args"}, {"linkinfo", "args"},
               {"linkinfo"}, {"idlist", "linkinfo"}, {"relative", "workdir", "args"}}
Link(flags, body, times) ==
  Good("lnk") @@ [header |-> "ok", flags |-> flags, body |-> body, times |-> times]
LinkRow    == Row("", "/link", {".lnk"})
LinkWorlds ==
  {World(LinkRow, Link(f, b, <<0, 0, 0>>)) : f \in LinkFlags, b \in LinkBodies}
  \union {World(LinkRow, Link({"relative"}, <<1, 1>>, t)) : t \in [1 .. 3 -> {0, 1, 2, 3}]}
  \union {World(LinkRow, Good("lnk") @@ NoLink), World(LinkRow, Good("short") @@ NoLink)}

-----------------------------------------------------------------------------
\* Jump lists: every table of three sectors, and lists in both layouts.
Listing(v1, v2, stream, time, pin) == [chars |-> <<v1, v2>>, stream |-> stream, time |-> time, pin |-> pin]
Linked(numbers, start, size)       == [numbers |-> numbers, start |-> start, size |-> size,
                                       lnk |-> Link({"relative"}, <<1, 1>>, <<2, 0, 0>>)]
Jump(fat, start, size, list, streams) ==
  Good("cfbf") @@ [header |-> "none", fat |-> fat, sectors |-> 4, directory |-> 3, miniStart |-> EndOfChain,
    miniFat |-> <<>>, minis |-> 0, root |-> EndOfChain, cutoff |-> 0, sectorSize |-> 160, miniSize |-> 64,
    streams |-> streams, destList |-> [start |-> start, size |-> size], list |-> list, listed |-> TRUE]
Fats     == {f @@ (3 :> EndOfChain) : f \in [0 .. 2 -> {-2, 0, 1, 2, 9}]}
OneFat   == 0 :> 1 @@ 1 :> 2 @@ 2 :> EndOfChain @@ 3 :> EndOfChain
Mini(p, miniFat, start, root) ==
  [p EXCEPT !.miniStart = 1, !.root = root, !.cutoff = 400, !.fat = [n \in 0 .. 3 |-> EndOfChain],
            !.miniFat = miniFat, !.minis = 4, !.destList.start = start, !.sectors = 4]
PlainJump == Jump(OneFat, 0, 350, 32 :> Listing(1, 1, 0, 4, 0) @@ 148 :> Listing(40, 1, 0, 3, 0),
                  <<Linked({1}, 2, 160)>>)
Entries   == {Listing(v1, v2, s, t, pin) : v1 \in {0, 9, MaxChars + 1}, v2 \in {1, 9}, s \in {0, 1, 10},
                                           t \in {1, 4}, pin \in {1, 7}}
JumpRow   == Row("", "/auto", {"destinations"})
JumpWorlds ==
  {World(JumpRow, Jump(f, s, z, 32 :> Listing(1, 1, 0, 4, 0), <<Linked({1}, s, 160)>>)) :
     f \in Fats, s \in {0, 2}, z \in {0, 350}}
  \union {World(JumpRow, Jump(OneFat, 0, 180, 32 :> e, <<Linked({10, 16}, n, z)>>)) :
            e \in Entries, n \in {2, EndOfChain}, z \in {0, 100}}
  \union {World(JumpRow, Mini(PlainJump, f, s, r)) :
            f \in {g @@ (0 :> EndOfChain) : g \in [1 .. 3 -> {-2, 1, 2, 3, 9}]}, s \in {1, -1}, r \in {2, EndOfChain}}
  \union {World(JumpRow, p) : p \in {[PlainJump EXCEPT !.header = "sector size"], [PlainJump EXCEPT !.listed = FALSE],
            [PlainJump EXCEPT !.directory = 9], [PlainJump EXCEPT !.root = 9], PlainJump, Good("short"),
            [PlainJump EXCEPT !.destList.size = 20], [PlainJump EXCEPT !.miniStart = 9]}}
  \union {World([JumpRow EXCEPT !.marks = {"destinations", "custom"}], PlainJump)}

-----------------------------------------------------------------------------
\* Event logs: one record with any few tokens in its data, chunks of records
\* with any sizes, and two chunks.
T(t, name, value, index) == [t |-> t, name |-> name, value |-> value, index |-> index]
Up == T("close", "", 0, 0)
Ended == T("end", "", 0, 0)
In(name) == T("open", name, 0, 0)
DataTokens == {T("attr", "Name", 5, 0), T("value", "", 0, 1), T("value", "", 0, 0), Up, In("Data")}
FieldTokens == {In("System"), In("EventID"), In("TimeCreated"), In("Provider"), Up, T("value", "", 1, 0),
                T("attr", "SystemTime", 4, 0), T("attr", "SystemTime", 1, 0), T("attr", "Name", 7, 0), T("skip", "", 0, 0), T("value", "", 0, 3),
                In(""), T("attr", "Name", 0, 3)}
Xml(tokens, time) == [header |-> TRUE, time |-> time, subs |-> <<6>>, tokens |-> tokens]
DataXml(ts)  == Xml(<<In("Event"), In("EventData"), In("Data")>> \o ts \o <<Up, Up, Up, Ended>>, 3)
FieldXml(ts) == Xml(<<In("Event"), In("System")>> \o ts \o <<Up, Up, Up, Ended>>, 1)
PlainXml     == DataXml(<<T("attr", "Name", 5, 0), T("value", "", 6, 0)>>)
SysmonXml(id) == Xml(<<In("Event"), In("System"), In("Provider"), T("attr", "Name", Sysmon, 0), Up,
                       In("EventID"), T("value", "", id, 0), Up, Up, Up, Ended>>, 4)
Record(size, trailer, xml) == [size |-> size, trailer |-> trailer, xml |-> xml]
Chunk(first, free, file, record) ==
  [signature |-> "chunk", first |-> first, free |-> free, size |-> Len(record), file |-> file, record |-> record]
Log(chunks) == Good("evtx") @@ [chunks |-> chunks]
One(xml)    == Log(<<Chunk(1, 2, 1, <<Record(1, 1, xml)>>)>>)
Records     == {Record(s, s, PlainXml) : s \in -1 .. 2} \union {Record(1, 2, PlainXml)}
LogRow      == Row("EVTX files", "/evtx", {"logs", ".evtx", "primary"})
SysmonRow   == [LogRow EXCEPT !.marks = @ \union {"sysmon"}]
Signed(s)   == [Chunk(1, 0, 1, <<Record(1, 1, PlainXml)>>) EXCEPT !.signature = s]
LogWorlds ==
  {World(LogRow, One(DataXml(ts))) : ts \in BoundedSeq(DataTokens, 4)}
  \union {World(LogRow, One(FieldXml(ts))) : ts \in BoundedSeq(FieldTokens, 2)}
  \union {World(LogRow, Log(<<Chunk(f, free, 3, r)>>)) :
            f \in {1, 0}, free \in {0, 3}, r \in [1 .. 3 -> Records]}
  \union {World(LogRow, Log(<<Chunk(1, 3, 2, <<a, Record(1, 1, PlainXml)>>), b,
                             Chunk(1, 0, file, <<Record(1, 1, PlainXml), a>>)>>)) :
            a \in Records, b \in {Signed("bad"), Signed("zero")}, file \in 1 .. 2}
  \union {World(SysmonRow, One(SysmonXml(id))) : id \in 0 .. 26}
  \union {World(LogRow, One([SysmonXml(1) EXCEPT !.header = FALSE])),
          World([LogRow EXCEPT !.marks = {"logs", ".evtx"}], One(PlainXml)),
          World(LogRow, Log(<<Signed("zero")>>)), World(LogRow, Good("short")), World(LogRow, Good("empty"))}

-----------------------------------------------------------------------------
\* The small formats.
Pf(version, name, times) == Good("pf") @@ [version |-> version, name |-> name, times |-> times]
Bin(version, path, time) == Good("recycle") @@ [version |-> version, path |-> path, time |-> time]
X(t, name, value)        == [t |-> t, name |-> name, value |-> value]
Task(tokens)             == Good("xml") @@ [tokens |-> tokens]
TriggerTokens == {X("start", "Boot", 0), X("end", "Boot", 0), X("start", "Date", 0), X("end", "Date", 0),
               X("start", "StartBoundary", 0), X("end", "StartBoundary", 0), X("text", "", 4), X("end", "Triggers", 0)}
InTriggers(ts) == <<X("start", "Task", 0), X("start", "Triggers", 0)>> \o ts
                    \o <<X("end", "Triggers", 0), X("end", "Task", 0)>>
Settings       == <<X("start", "Settings", 0), X("start", "Enabled", 0), X("text", "", 1), X("end", "Enabled", 0),
                    X("end", "Settings", 0), X("start", "Command", 0), X("text", "", 2), X("end", "Command", 0)>>
InSettings     == InTriggers(<<X("start", "Boot", 0), X("start", "Enabled", 0), X("text", "", 1),
                               X("end", "Enabled", 0), X("end", "Boot", 0)>>)
Wer(lines)    == Good("text") @@ [lines |-> lines, fallback |-> FALSE]
Line(k, v)    == [key |-> k, value |-> v]
Tag(empty, inside, tables) == [empty |-> empty, inside |-> inside, tables |-> tables]
Page(count, tags)  == [count |-> count, tags |-> tags]
Full(tags)         == Page(Len(tags), tags)
Ese(header, pages) == Good("ese") @@ [header |-> header, pageSize |-> 2048, pages |-> pages]
Large(p)           == [p EXCEPT !.pageSize = 8192]
Energy == Tag(FALSE, TRUE, {"energy"})
EseTags == {Tag(TRUE, TRUE, {}), Tag(FALSE, FALSE, {}), Tag(FALSE, TRUE, {}), Tag(FALSE, TRUE, {"network"}),
            Tag(FALSE, TRUE, {"network", "energy"})}
Db(visits, downloads) == Good("sqlite") @@ [visits |-> visits, downloads |-> downloads]
DbTables == {NoTable, <<>>, <<3>>, <<1, 4, 5>>}

OtherWorlds ==
  {World(Row("", "/none", {".pf"}), p) :
     p \in {Pf(v, n, t) : v \in {17, 30, 99}, n \in BOOLEAN, t \in {<<>>, <<1>>, <<5, 0>>, <<5, 4, 3, 2, 1, 0, 0, 0>>}}
             \union {Good("short")}}
  \union {World(Row("", "/none", {"$I"}), p) :
     p \in {Bin(v, s, t) : v \in 1 .. 3, s \in {"none", "path"}, t \in {1, 3}} \union {Good("short")}}
  \union {World(Row("Scheduled Task definitions", "/none", {"tasks"}), p) :
     p \in {Task(InTriggers(ts)) : ts \in BoundedSeq(TriggerTokens, 3)}
             \union {Task(InTriggers(<<>>) \o Settings), Task(<<X("start", "Task", 0)>> \o Settings \o InSettings
                                                              \o <<X("end", "Task", 0)>>)}
             \union {Task(InTriggers(<<X("start", "Boot", 0)>> \o ts \o <<X("end", "Boot", 0)>>)) :
                       ts \in BoundedSeq(TriggerTokens, 3)}
             \union {Task(Settings), Task(<<>>), Good("empty"), Good("binary")}}
  \union {World(Row("WER report files", "/none", {"wer", ".wer"}), p) :
     p \in {Wer(l) : l \in BoundedSeq({Line("eventtime", 1), Line("eventtime", 4), Line("reporttime", 3),
                                       Line("appname", 2)}, 2)}
             \union {[Wer(<<Line("sig", 1)>>) EXCEPT !.fallback = TRUE], Good("empty"), Good("binary")}}
  \union {World(Row("SRUM", "/none", {"SRUDB.dat"}), p) :
     p \in {Ese("ok", <<Full(a), Full(b)>>) : a, b \in BoundedSeq(EseTags, 2)}
             \union {Ese("ok", <<Full(<<Energy>>), Page(504, <<t>>)>>) : t \in {x \in EseTags : x.empty \/ ~x.inside}}
             \union {Ese("ok", <<Full(<<Energy>>), Page(505, <<t>>)>>) : t \in EseTags}
             \union {Large(Ese("ok", <<Page(n, <<t>>), Full(<<Energy>>)>>)) : n \in {1024, 1025}, t \in EseTags}
             \union {Ese("ok", <<>>), Ese("page size", <<>>), Ese("signature", <<>>), Good("short")}}
  \union {World(Row("Edge History", "/none", {"/History"}), p) :
     p \in {Db(v, d) : v, d \in DbTables} \union {Good("short")}}
  \union {World(Row("SRUM", "/none", {"/History"}), Good("short"))}

-----------------------------------------------------------------------------
\* Rows side by side, with what is between them: one that is missing, a folder.
Missing2 == [LinkRow EXCEPT !.path = "/none", !.status = "Missing"]
Folder   == [AmRow EXCEPT !.path = "/none", !.directory = TRUE]
UserRow  == CHOOSE r \in UserRows : r.artifact = "Run/RunOnce resolver"
Gone     == Good("lnk") @@ [NoLink EXCEPT !.header = "ok"]
Side(r1, p1, r2, p2, r3) ==
  [rows |-> <<r1, r3, r2>>, disk |-> r1.path :> p1 @@ r2.path :> p2 @@ r3.path :> [Gone EXCEPT !.read = "not found"]]
ManyWorlds ==
  {Side(LinkRow, Link({"relative"}, <<1, 1>>, <<4, 5, 3>>), SysmonRow, One(SysmonXml(1)), r) : r \in {Missing2, Folder}}
  \union {Side(UserRow, HiveFile(UserCells), JumpRow, PlainJump, Missing2),
          Side(LinkRow, Link({}, <<1>>, <<4, 4, 4>>), LogRow, Good("short"), Missing2)}

\* The rows a scan makes of one profile: three of them name its NTUSER.DAT.
Sharing(row1, row2, cells) == [rows |-> <<row1, row2>>, disk |-> row1.path :> HiveFile(cells)]
SharedWorlds ==
  {Sharing(UserRow, [UserRow EXCEPT !.artifact = "UserAssist resolver"], c) : c \in Damaged(UserCells)}

\* And of one machine: four name its SYSTEM hive.
SystemRow(artifact) == CHOOSE r \in SystemRows : r.artifact = artifact
SharedHiveWorlds ==
  {Sharing([UserRow EXCEPT !.artifact = a], UserRow, UserCells) : a \in {"UserAssist resolver", "RecentDocs resolver"}}
  \union {Side(UserRow, HiveFile(UserCells), LinkRow, Link({"relative"}, <<1, 1>>, <<4, 5, 3>>),
               [UserRow EXCEPT !.artifact = "UserAssist resolver"])}
  \union {Sharing(SystemRow("BAM/DAM resolver"), SystemRow("USB registry resolver"), SystemCells(s)) :
            s \in {Vk("Current", 4, <<2>>), Vk("Current", 1, <<2>>)}}

AllWorlds == HiveWorlds \union LinkWorlds \union JumpWorlds \union LogWorlds \union OtherWorlds
               \union ManyWorlds \union SharedHiveWorlds
=============================================================================
