---------------------------- MODULE TailFollowMC ----------------------------
(* Values of TailFollow's constants for TLC.                               *)
EXTENDS TailFollow

\* Empty, a line that ends within a character, a complete line with "\r\n".
MCInitial == {<<>>, <<"hi">>, <<"cr", "nl">>}

\* Half a character, an end of line, the other half with one.
MCChunks == {<<"hi">>, <<"nl">>, <<"lo", "nl">>}

\* Few bytes and long files, for bytes mode alone.
FewBytes == {<<>>, <<"nl", "a">>, <<"a", "nl">>}
Singles == {<<"a">>, <<"nl">>}
=============================================================================
