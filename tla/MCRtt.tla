------------------------------- MODULE MCRtt -------------------------------
(***************************************************************************)
(* Small instances of Rtt.                                                 *)
(***************************************************************************)
EXTENDS Rtt

\* The second up-buffer is read by the target.
LocalBuffers == {<<"up", 1>>}

SomeTexts == {<<"a">>, <<"a", "b">>, <<"a", "b", "b", "a", "b", "b">>}

\* One application has terminals only, another all the other buffers.
SomeUses == {{Terminal}, {<<"up", 1>>, <<"down", 0>>, <<"down", 1>>}}

=============================================================================
