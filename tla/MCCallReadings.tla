--------------------------- MODULE MCCallReadings ---------------------------
EXTENDS CallReadings, ShellScripts, SentPayloads, GuardQuestions

(* Every name that the scripts use.                                        *)
MCNames == {"rm", "git", "sh", "sudo", "timeout", "env", "x", "y", "A", "u", "k", "i", "E"}
MCWrappers == [sudo |-> {<<"-", "u">>}, env |-> {<<"-", "u">>}, timeout |-> {<<"-", "k">>}]
=============================================================================
