------------------------------ MODULE MCShell ------------------------------
EXTENDS Shell
\* a|a|a   a>a;a&   (a;a)|a<a
MCLines == {<<"a", "|", "a", "|", "a">>, <<"a", ">", "a", ";", "a", "&">>,
            <<"(", "a", ";", "a", ")", "|", "a", "<", "a">>, <<"a", "|", "(">>}
=============================================================================
