------------------------------- MODULE MCFiles -------------------------------
\* Small instances of Files for TLC.
EXTENDS Files

CONSTANTS s1, s2

\* Two connections of one user, one of them an administrator's; the home of
\* another user lies beside theirs.
MCHomeOf == s1 :> "u" @@ s2 :> "u"
MCInitialFiles == <<<<"u", "a">>, <<"u", "d", "a">>, <<"v", "a">>>>
=============================================================================
