-------------------------------- MODULE MCLogin --------------------------------
\* Two browsers and two subjects, four requests, one lost cookie: two logins with
\* their callbacks, or a login, a logout and a callback beside another request.
EXTENDS Login, TLC

CONSTANTS b1, b2, s1, s2

MCBrowsers == {b1, b2}
MCSubjects == {s1, s2}
MCMaxRequests == 4
MCMaxLosses == 1

Symmetry == Permutations(MCBrowsers) \cup Permutations(MCSubjects)
================================================================================
