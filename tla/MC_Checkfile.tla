---------------------------- MODULE MC_Checkfile ----------------------------
EXTENDS Checkfile, TLC

\* Two contents, one file holding each; digests rendered with two hex
\* characters (40 in the code); paths of at most two characters (1023).
MC_Contents == {"C1", "C2"}
MC_HexOf == [c \in MC_Contents |-> IF c = "C1" THEN <<"a", "f">> ELSE <<"b", "3">>]
MC_FS == (<<"p">> :> "C1") @@ (<<"q">> :> "C2")
MC_HashLen == 2
MC_NameMax == 2
MC_BufMax == 15
MC_Chars == {"a", "f", "b", "3", " ", "\n", "p", "q", "x"}

\* Manifest records: verified ones for both files, a hash that does not
\* match, a path with no file, a bad separator, a path that is too long.
Good1    == <<"a", "f", " ", "p", "\n">>
Good2    == <<"b", "3", " ", "q", "\n">>
Mismatch == <<"b", "3", " ", "p", "\n">>
NoFile   == <<"a", "f", " ", "x", "\n">>
BadSep   == <<"a", "f", "x", "p", "\n">>
LongName == <<"a", "f", " ", "p", "p", "p", "p", "\n">>
Records  == {Good1, Good2, Mismatch, NoFile, BadSep, LongName}

\* Every manifest of up to three such records (three records of five bytes
\* fill the 15-byte buffer; any longer manifest is refused as too large).
MC_Manifests == {FlattenSeq(s) : s \in BoundedSeq(Records, 3)}

\* The same, followed by a stray newline or by a last record that lacks its
\* newline: the parser then reads past the end of the manifest.
MCTail_Manifests ==
  {m \o t : m \in {FlattenSeq(s) : s \in BoundedSeq({Good1, Mismatch}, 1)},
            t \in {<<"\n">>, <<"a", "f", " ", "p">>}}
=============================================================================
