------------------------------ MODULE Sam3s4b -------------------------------
(***************************************************************************)
(* The register map of regmaps/local/sam3s4b, the chip that this library   *)
(* is for: the serial interface that arm/uart.h drives by addresses.       *)
(* Addresses count from its first register, 0x400E0600, on.                *)
(***************************************************************************)
EXTENDS RegisterLayout

\* The thirteen bool members of ier, idr, imr and sr make a structure of two
\* bytes; the map is packed, and the next one begins right behind it.
Events(name) ==
    <<name \o ".rxrdy", name \o ".txrdy", "", name \o ".endrx", name \o ".endtx", name \o ".ovre",
      name \o ".frame", name \o ".pare", "", name \o ".txempty", "", name \o ".txbufe", name \o ".rxbuff">>

Uart0 ==
    View(0, <<<<"cr", 32>>>>)
      \cup View(0, <<<<"", 2>>>> \o Flags(<<"rstrx", "rsttx", "rxen", "rxdis", "txen", "txdis", "rststa">>))
      \cup View(4, <<<<"mr", 32>>>>)
      \cup View(4, <<<<"", 9>>, <<"par", 3>>, <<"", 2>>, <<"chmode", 2>>>>)
      \cup View(8, Flags(Events("ier"))) \cup View(10, Flags(Events("idr")))
      \cup View(12, Flags(Events("imr"))) \cup View(14, Flags(Events("sr")))
      \cup View(16, <<<<"rhr", 32>>>>)
      \cup View(20, <<<<"thr", 32>>>>)
      \cup View(24, <<<<"brgr", 32>>>>)

Maps == {Uart0}

=============================================================================
