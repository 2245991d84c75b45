------------------------------ MODULE MCPrintf ------------------------------
(***************************************************************************)
(* Small instances of Printf.                                              *)
(***************************************************************************)
EXTENDS Printf

AllOf(specs, flags, widths, precisions, lengths, args) ==
    [spec: specs, flags: flags, width: widths, precision: precisions, length: lengths, arg: args]

Plain(specs, args) == AllOf(specs, {{}}, {0}, {{}}, {""}, args)

\* Signed and unsigned numbers of one to three digits.
Numbers ==
    AllOf({"d"}, SUBSET {"ZEROPAD", "LEFT", "PLUS", "SPACE"}, {0, 1, 2, 3, 6, -3}, {{}, {0}, {3}}, {""},
          {-100, -12, -3, 0, 7, 10})
        \cup AllOf({"x", "X", "o"}, SUBSET {"ZEROPAD", "LEFT", "HASH"}, {0, 2, 4, 6}, {{}, {0}, {3}}, {""},
                   {0, 11, 30, 300})
        \cup AllOf({"d", "u", "b"}, {{}, {"LEFT"}}, {0, 4}, {{}}, {"h", "hh"}, {-5, 3, 6, 9, 13})
        \cup Plain({"p"}, {30})

\* Decimals in steps of a twentieth, halfway and nearly whole ones too.
Floats ==
    AllOf({"f"}, SUBSET {"ZEROPAD", "LEFT", "PLUS"}, {0, 4, 8}, {{}, {0}, {1}, {2}}, {""},
          {-199, -30, -7, 0, 1, 10, 11, 19, 20, 30, 33, 38, 39, 50})

Strings ==
    AllOf({"s"}, {{}, {"LEFT"}}, {0, 3}, {{}, {1}}, {""}, {<<>>, <<"p", "q">>})
        \cup AllOf({"c"}, {{}, {"LEFT"}}, {0, 2}, {{}}, {""}, {"p"}) \cup Plain({"literal"}, {"p"})

\* Something after nothing or after two characters; three strings.
SomeDirectives ==
    [buffer |-> << Plain({"s"}, {<<>>, <<"p", "q">>}), Numbers \cup Floats \cup Strings >>,
     rtt |-> << Strings, Strings, Strings >>]

=============================================================================
