------------------------------- MODULE MCBuffer -------------------------------
\* Buffer for TLC: blocks of two bytes, a slack of one, texts of one to three
\* bytes, so that a text can just fit, miss by one, and never fit.
EXTENDS Buffer

CONSTANTS a, b

MCTexts == {<<a>>, <<b>>, <<a, b>>, <<b, a, b>>}
MCKinds == {{}, {"grow"}, {"circular"}, {"static"}, {"readonly"},
            {"grow", "circular"}}
MCStatic == {{"static"}}
=============================================================================
