--------------------------- MODULE MCProfileDialogs ---------------------------
EXTENDS ProfileDialogs

MCTyped == {"", "a", "b", "a_"}
MCNames == {"a", "b"}
MCTrim == [t \in MCTyped |-> IF t = "a_" THEN "a" ELSE t]
MCFileName == [f \in Paths |-> "a"]
MCNumbered == [t \in MCTyped |-> IF t = "a" THEN <<"b">> ELSE << >>]

MCFields == <<"address", "port", "username", "quality", "shortcuts", "idle">>
MCValues == [address |-> {"", "host", "host:3390"}, port |-> {"3389", "3390"}, username |-> {"", "u", "u_"},
             quality |-> {"", "speed", "best", "fancy"}, shortcuts |-> {"0", "1"},
             idle |-> {"30", "3600", "9999"}]

Form(host, port, user, quality, shortcuts, idle) ==
  [f \in ToSet(MCFields) |->
     CASE f = "address" -> host [] f = "port" -> port [] f = "username" -> user
       [] f = "quality" -> quality [] f = "shortcuts" -> shortcuts [] f = "idle" -> idle]

MCSettings ==
  {Form(host, port, user, quality, shortcuts, idle) :
     host \in MCValues["address"], port \in MCValues["port"], user \in MCValues["username"],
     quality \in MCValues["quality"], shortcuts \in MCValues["shortcuts"],
     idle \in MCValues["idle"]}

MCHostless == {s \in MCSettings : s["address"] = ""}
MCReread == [s \in MCSettings |-> [s EXCEPT !["username"] = IF @ = "u_" THEN "u" ELSE @]]

(* The idle row ends at an hour. *)
MCTaken == [port |-> [v \in MCValues["port"] |-> v],
            idle |-> [v \in MCValues["idle"] |-> IF v = "9999" THEN "3600" ELSE v]]

MCForms == {Form("host", "3389", "", "", "0", "30"), Form("host", "3390", "u_", "speed", "1", "30")}

(* A file another client wrote, and one with a preset no combo knows, an     *)
(* idle time no row holds, and a key twice, in two types, with one value for *)
(* the manager and another for the session.                                  *)
MCDocuments == {
  << >>,
  <<Line(Other, "s", "gateway"), Line("address", "s", "host:3390"), Line("perf", "i", "speed"),
    Line(Other, "s", "drives")>>,
  <<Line("shortcuts", "i", "0"), Line("address", "s", "host"), Line("quality", "s", "fancy"),
    Line("shortcuts", "s", "1"), Line("idle", "s", "9999")>>}
================================================================================
