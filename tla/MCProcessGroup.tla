--------------------------- MODULE MCProcessGroup ---------------------------
EXTENDS ProcessGroup

\* The default error handling, one ephemeral timeout, and a program that never waits.
default ==
  [mode |-> "SkipCleanUp", blocking |-> FALSE, hook |-> FALSE, abort |-> FALSE,
   works |-> Works, kinds |-> {"async"}, ephemeral |-> 1, timed |-> {}]

\* Two works that share shelves and timeouts with the default error handling;
\* one work in every mode with waits, with a hook, with abort() in another
\* thread; and blocking mode.
MCConfigs ==
  LET one == [default EXCEPT !.works = {CHOOSE w \in Works : TRUE}, !.ephemeral = 0]
      AllModes == {"NoHandling", "TearDown", "CleanUpOnly", "SkipCleanUp"}
  IN  {default}
      \union {[one EXCEPT !.mode = m, !.timed = {TRUE, FALSE}] : m \in AllModes}
      \union {[one EXCEPT !.mode = m, !.hook = TRUE] : m \in AllModes}
      \union {[one EXCEPT !.mode = m, !.abort = TRUE, !.timed = {TRUE}] :
                m \in {"NoHandling", "SkipCleanUp"}}
      \union {[one EXCEPT !.blocking = TRUE, !.timed = {FALSE},
                          !.kinds = {"async", "sync", "coalesced"}]}
=============================================================================
