------------------------ MODULE MCRestartingProvider ------------------------
(* Small instances of RestartingProvider for TLC.                          *)
EXTENDS RestartingProviderInvariant, RestartingProviderSandbox

MCLanguages == {"cpp", "python"}
MCSenjun    == {"senjun_cpp", "senjun_cpp_playground", "senjun_python"}
MCImages    == MCSenjun \cup {"postgres"}

\* The requests compete for the cpp launchers, but request 3 needs python.
MCLanguageOf == [r \in Requests |-> IF r = 3 THEN "python" ELSE "cpp"]

MCOneCpp  == << [language |-> "cpp", imageName |-> "senjun_cpp", launched |-> 1] >>
MCOneEach == MCOneCpp \o
             << [language |-> "python", imageName |-> "senjun_python", launched |-> 1] >>
MCOnePlayground ==
    << [language |-> "cpp", imageName |-> "senjun_cpp_playground", launched |-> 1] >>
MCNone    == << >>

\* Ids never run out: every run call uses up at most one.
ASSUME EnoughIds ==
    Cardinality(Ids \ (Foreign \cup Leftover)) >=
      (MaxCrashes + 1) * Cardinality(Slots)
        + Cardinality(Requests \ NoSources)
=============================================================================
