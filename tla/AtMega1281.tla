----------------------------- MODULE AtMega1281 -----------------------------
(***************************************************************************)
(* The register maps of regmaps/local/legacy/atmega1281. The headers that  *)
(* the chip shares with the atmega128rfa1 are copies but for names and the *)
(* place of the timers' Parameters; the SPI is added.                      *)
(***************************************************************************)
EXTENDS RegisterLayout

LOCAL Rfa1 == INSTANCE AtMega128Rfa1

\* genericTimer.h and the places of timers 1, 3, 4 and 5.
GenericTimer(desc) == Rfa1!GenericTimer(desc)
GenericTimerModes == Rfa1!GenericTimerModes
Timer1Desc == Rfa1!Timer1Desc
Timer3Desc == Rfa1!Timer3Desc
Timer4Desc == Rfa1!Timer4Desc
Timer5Desc == Rfa1!Timer5Desc

\* timer0.h and timer2.h.
Timer0 == Rfa1!Timer0
Timer0Modes == Rfa1!Timer0Modes
Timer2 == Rfa1!Timer2
Timer2Modes == Rfa1!Timer2Modes

\* extInt.h, adc.h, gpior.h and eeprom.h.
ExtIntGenerator(config) == Rfa1!ExtIntGenerator(config)
ExtInt(nr) == Rfa1!ExtInt(nr)
ADCRegMap == Rfa1!ADCRegMap
HWMutexGenerator(address, offset) == Rfa1!HWMutexGenerator(address, offset)
HardwareMutex(n) == HWMutexGenerator(IF n < 8 THEN \h3E ELSE IF n < 16 THEN \h4A ELSE \h4B, n)
Eeprom == Rfa1!EEPROM

\* spi.h: the unit itself, and its four pins in the registers of port B.
Pin(name, bit) ==
    View(\h23, <<<<"", bit>>, <<name \o ".pin", 1>>, <<"", 7>>, <<name \o ".ddr", 1>>,
                 <<"", 7>>, <<name \o ".port", 1>>>>)

Spi ==
    View(\h4C, <<<<"spcr", 8>>>>)
      \cup View(\h4C, Flags(<<"spr0", "spr1", "cpha", "cpol", "mstr", "dord", "spe", "spie">>))
      \cup View(\h4D, <<<<"spsr", 8>>>>)
      \cup View(\h4D, <<<<"spi2x", 1>>, <<"", 5>>, <<"wcol", 1>>, <<"spif", 1>>>>)
      \cup View(\h4E, <<<<"spdr", 8>>>>)
      \cup Pin("ss", 0) \cup Pin("sck", 1) \cup Pin("mosi", 2) \cup Pin("miso", 3)

Maps ==
    {Timer0, Timer2, ADCRegMap, Eeprom, Spi}
      \cup {GenericTimer(desc) : desc \in {Timer1Desc, Timer3Desc, Timer4Desc, Timer5Desc}}
      \cup {ExtIntGenerator(ExtInt(nr)) : nr \in 0 .. 7}
      \cup {HardwareMutex(n) : n \in 0 .. 23}

Timers ==
    {<<Timer0, Timer0Modes>>, <<Timer2, Timer2Modes>>}
      \cup {<<GenericTimer(desc), GenericTimerModes>> :
                desc \in {Timer1Desc, Timer3Desc, Timer4Desc, Timer5Desc}}

=============================================================================
