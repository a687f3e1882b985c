----------------------------- MODULE MCPriceList -----------------------------
(***************************************************************************)
(* PriceList with up to three rates whose names differ in case and blanks. *)
(***************************************************************************)
EXTENDS PriceList, TLC

MCSpellings == {"", "  ", "azure", "mini", " Mini", "Mini"}

MCTrim == [s \in MCSpellings |-> CASE s = "  " -> ""
                                   [] s = " Mini" -> "Mini"
                                   [] OTHER -> s]

MCLower == [s \in MCSpellings |-> CASE s = "Mini" -> "mini"
                                    [] OTHER -> s]

MCPrices == {-1, 0, 2}

MCRates ==
    [provider : {"azure", "  ", "mini"}, model : {"", "mini", " Mini", "Mini"},
     input : {0}, cached : {-1, 0}, output : {2}]

MCLists == UNION {[1 .. n -> MCRates] : n \in 0 .. 3}
=============================================================================
