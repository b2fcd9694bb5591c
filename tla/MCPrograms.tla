----------------------------- MODULE MCPrograms -----------------------------
EXTENDS Programs

Job(kind, cap, onExit, stdin, chunks) ==
  [kind |-> kind, cap |-> cap, onExit |-> onExit, stdin |-> stdin, chunks |-> chunks]

MCJobs ==
  [k \in {"bg", "fg"} |->
     IF k = "bg"
     THEN {Job("echo", {"out"}, TRUE, "data", 2), Job("echo", {"err"}, FALSE, "open", 0),
           Job("collect", {"out"}, FALSE, "data", 2), Job("deaf", {}, TRUE, "data", 2),
           Job("deaf", {"out"}, TRUE, "data", 2), Job("deaf", {"out", "err"}, TRUE, "none", 0)}
     ELSE {Job("echo", {"out"}, FALSE, "data", 2), Job("collect", {"out"}, FALSE, "data", 1),
           Job("collect", {"out"}, FALSE, "data", 2), Job("echo", {}, FALSE, "data", 1),
           Job("deaf", {"out", "err"}, FALSE, "none", 0), Job("deaf", {}, FALSE, "none", 0),
           Job("deaf", {"out"}, FALSE, "data", 2)}]
=============================================================================
