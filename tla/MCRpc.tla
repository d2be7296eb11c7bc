------------------------------- MODULE MCRpc -------------------------------
(***************************************************************************)
(* Instance of Rpc for TLC: the ends of the ranges of the C types, and for *)
(* a bool_t a true value that is not 1.                                    *)
(***************************************************************************)
EXTENDS Rpc

MCint    == {-1, IntSize \div 2 - 1}
MCu_int  == {0, IntSize - 1}
MCu_short == {0, ShortSize - 1}
MCchar   == {-1, 1}
MCu_char == {0, CharSize - 1}
MCbool_t == {0, 2}
MCbytes  == {<<>>, <<1, 2>>}
MChandle == {[i \in 1 .. n |-> i] : n \in {0, HandleMax, HandleMax + 1}}
=============================================================================
