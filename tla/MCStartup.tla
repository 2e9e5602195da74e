----------------------------- MODULE MCStartup ------------------------------
(***************************************************************************)
(* A configuration file that may hold anything, and ways to start watch and *)
(* ping beside it and elsewhere.                                            *)
(***************************************************************************)
EXTENDS Startup, TLC

Path(dir, file) == [dir |-> dir, file |-> file]
Hb == "mitsume.heartbeat.json"

MCConfigFiles == {Path("etc", "mitsume.json")}
MCDirs == {"etc", "home", "var", "tmp"}
MCHeartbeatName == [file \in {"mitsume.json", Hb, "hb.json"} |-> Hb]
MCHeartbeatFiles == {Path("etc", Hb), Path("home", Hb), Path("var", "hb.json")}

Check(type, j, name, label) ==
  [type |-> type, job |-> j, name |-> name, label |-> label, interval |-> 1,
   timeout |-> None, within |-> None, legal |-> TRUE]
Deadman(j) == [Check("deadman", j, None, j) EXCEPT !.within = 1]
Url == Check("http", None, None, "url")

Document(heartbeatFile, checks) ==
  [webhookEnv |-> "SLACK", heartbeatFile |-> heartbeatFile, interval |-> 0,
   timeout |-> 0, checks |-> checks]

MCDocuments ==
  {Document(None, <<Url, Deadman("a")>>),
   Document(Path("var", "hb.json"), <<Deadman("a"), Deadman("b")>>),
   Document(Path(".", "hb.json"), <<Deadman("a")>>),
   Document(None, <<Url, Url>>),
   Document(None, <<[Url EXCEPT !.name = "a"], Deadman("a")>>),
   Document(None, <<Deadman("a b")>>),
   Document(None, <<Deadman("a"), [Deadman("a") EXCEPT !.name = "again"]>>),
   Document(None, <<[Url EXCEPT !.interval = None]>>),
   [Document(None, <<[Url EXCEPT !.interval = None], Deadman("b")>>) EXCEPT !.interval = 1],
   Document(None, <<[Url EXCEPT !.timeout = 0]>>),
   Document(None, <<[Deadman("a") EXCEPT !.within = None]>>),
   [Document(None, <<Url>>) EXCEPT !.webhookEnv = None]}

Slack(state) == "SLACK" :> state
Started(cwd, configFlag, configEnv) ==
  [cwd |-> cwd, configFlag |-> configFlag, configEnv |-> configEnv,
   heartbeatFlag |-> None, heartbeatEnv |-> None, jobArgument |-> None,
   jobEnv |-> None, webhook |-> Slack("url")]

MCInvocations ==
  {Started("etc", None, None), Started("home", None, None),
   Started("etc", Path(".", "mitsume.json"), None),
   Started("home", Path("etc", "mitsume.json"), None),
   Started("home", None, Path("etc", "mitsume.json")),
   Started("tmp", None, None),
   [Started("etc", None, None) EXCEPT !.heartbeatFlag = Path("var", "hb.json"),
                                      !.jobArgument = "b"],
   [Started("etc", None, None) EXCEPT !.heartbeatEnv = Path(".", "hb.json"),
                                      !.jobEnv = "a b", !.webhook = Slack("empty")],
   [Started("etc", None, None) EXCEPT !.webhook = Slack("unset")]}
=============================================================================
