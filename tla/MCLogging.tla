----------------------------- MODULE MCLogging -----------------------------
(* Instances of Logging: the call sites and the builds they are tried in.  *)
EXTENDS Logging, TLC

Plain == [macro |-> "LOG", debug |-> FALSE, severity |-> INFO, n |-> 1, level |-> 0,
          data |-> <<>>, strip |-> 0, raw |-> 0, ndebug |-> FALSE, gnu |-> FALSE,
          times |-> 3]

Asserting == CheckMacroNames \cup {"PCHECK", "RAW_CHECK"}

(* Every macro that a build changes, at every strip level.                 *)
Built == {[Plain EXCEPT !.macro = m, !.debug = d, !.severity = s, !.strip = k, !.raw = k,
                        !.ndebug = b] :
            m \in Asserting \cup
                    {"LOG", "LOG_IF", "LOG_TO_STRING", "LOG_STRING", "LOG_TO_SINK",
                     "LOG_TO_SINK_BUT_NOT_TO_LOGFILE", "SYSLOG", "SYSLOG_IF", "PLOG",
                     "PLOG_IF", "RAW_LOG"},
            d \in BOOLEAN, s \in INFO .. DFATAL, k \in 0 .. 4, b \in BOOLEAN}
BuiltPrograms ==
  {p \in Built :
     /\ p.severity = DFATAL => p.macro \in {"LOG", "LOG_IF", "SYSLOG", "SYSLOG_IF"}
     /\ p.macro \in Asserting => p.severity = FATAL
     /\ p.debug => p.macro \in DebugMacros}

(* n = 3 does not divide the number of ints, which five executions leave;  *)
(* n = 1 logs every time, with n = 4 the count modulo n leaves the int.    *)
CountingPrograms ==
  {[Plain EXCEPT !.macro = m, !.n = 3, !.times = 5] : m \in {"LOG_EVERY_N", "LOG_IF_EVERY_N"}}
  \cup {[Plain EXCEPT !.macro = "LOG_EVERY_N", !.n = 4, !.times = 5],
        [Plain EXCEPT !.macro = "LOG_FIRST_N", !.n = 2, !.times = 4]}
  \cup {[Plain EXCEPT !.macro = m] : m \in {"LOG_EVERY_N", "LOG_IF_EVERY_N"}}
  \cup {[Plain EXCEPT !.macro = m, !.n = 3, !.debug = TRUE, !.ndebug = TRUE] :
          m \in {"LOG_EVERY_N", "LOG_IF_EVERY_N"}}

Verbose ==
  {[Plain EXCEPT !.macro = m, !.level = 1, !.gnu = g] :
     m \in {"VLOG", "VLOG_IF", "RAW_VLOG"}, g \in BOOLEAN}
  \cup {[Plain EXCEPT !.macro = m, !.level = 1, !.n = 2] :
          m \in {"VLOG_EVERY_N", "VLOG_IF_EVERY_N"}}
  \cup {[Plain EXCEPT !.macro = "VLOG", !.level = 1, !.gnu = g, !.debug = TRUE,
                     !.ndebug = TRUE] : g \in BOOLEAN}

Container(k) == [i \in 1 .. k |-> [first |-> ToString(i), second |-> ""]]
Map(k) == [i \in 1 .. k |-> [first |-> ToString(i), second |-> "v"]]
Long(k) == [i \in 1 .. k |-> [first |-> "2", second |-> ""]]
Printing ==
  {[Plain EXCEPT !.data = d] : d \in {Container(k) : k \in 0 .. 4} \cup {Map(k) : k \in 0 .. 4}
                                     \cup {Long(3)}}

(* The buffer takes ten bytes: Map(2) is cut inside an element, Long(3) in *)
(* the dots.                                                               *)
ElementBytes ==
  [x \in {"1", "2", "3", "4", "v"} |-> IF x = "2" THEN 3 ELSE IF x = "v" THEN 2 ELSE 1]

SharedPrograms == BuiltPrograms \cup CountingPrograms \cup Verbose \cup Printing

(* The threads do the same, and no property names one.                     *)
Interchangeable == Permutations(Threads)
=============================================================================
