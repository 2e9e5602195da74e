----------------------------- MODULE MCCheckers -----------------------------
(***************************************************************************)
(* Configurations and documents for the runs of Checkers.                   *)
(***************************************************************************)
EXTENDS Checkers, TLC

FileWant(look, exists, within, min, max) ==
  [look |-> look, exists |-> exists, within |-> within, min |-> min, max |-> max]

MCFileWants ==
  {FileWant("path", "no", 0, None, None), FileWant("path", "yes", 1, 1, None),
   FileWant("glob", "no", 0, None, None), FileWant("glob", "unset", 2, None, None),
   FileWant("glob", "yes", 0, 1, 1), FileWant("bad glob", "no", 0, None, None)}

\* {"items": ["down", {"status": "up"}], "status": "down"}
MCMembers == "root" :> [items |-> "list", status |-> "down"]
               @@ "inner" :> [status |-> "up"]
MCItems == "list" :> <<"down", "inner">>

Field(name) == [isIndex |-> FALSE, key |-> name]
Index(i) == [isIndex |-> TRUE, key |-> i]
Rule(path, op, arg) == [path |-> path, op |-> op, arg |-> arg]

Http(code, text, rules, latency) ==
  [type |-> "http", status |-> code, text |-> text, rules |-> rules,
   latency |-> latency]
Container(running) == [type |-> "container", running |-> running]

MCRequestWants ==
  {Http(200, TRUE, <<>>, 0), Http(200, FALSE, <<>>, 2),
   Http(None, FALSE,
        <<Rule(<<Field("items"), Index(1), Field("status")>>, "equals", "up"),
          Rule(<<Index(2)>>, "exists", FALSE)>>, 1),
   Http(None, FALSE,
        <<Rule(<<Field("items"), Index(0)>>, "match", {"up", "down"})>>, 0),
   Container(TRUE), Container(FALSE)}
=============================================================================
