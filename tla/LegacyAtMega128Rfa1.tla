------------------------- MODULE LegacyAtMega128Rfa1 -------------------------
(***************************************************************************)
(* The register maps of regmaps/local/legacy/atmega128rfa1. Every header   *)
(* is a copy of the one in regmaps/local/atmega128rfa1 but for the place   *)
(* of the timers' Parameters; there is no TWI, UART or flash, and the      *)
(* clock prescaler is added.                                               *)
(***************************************************************************)
EXTENDS RegisterLayout

LOCAL Rfa1 == INSTANCE AtMega128Rfa1

\* genericTimer.h and the places of timers 1, 3, 4 and 5.
GenericTimer(desc) == Rfa1!GenericTimer(desc)
GenericTimerModes == Rfa1!GenericTimerModes
Timer1Desc == Rfa1!Timer1Desc
Timer3Desc == Rfa1!Timer3Desc
Timer4Desc == Rfa1!Timer4Desc
Timer5Desc == Rfa1!Timer5Desc

\* timer0.h and timer2.h.
Timer0 == Rfa1!Timer0
Timer0Modes == Rfa1!Timer0Modes
Timer2 == Rfa1!Timer2
Timer2Modes == Rfa1!Timer2Modes

\* extInt.h, adc.h, gpior.h and eeprom.h.
ExtIntGenerator(config) == Rfa1!ExtIntGenerator(config)
ExtInt(nr) == Rfa1!ExtInt(nr)
ADCRegMap == Rfa1!ADCRegMap
HWMutexGenerator(address, offset) == Rfa1!HWMutexGenerator(address, offset)
HardwareMutex(n) == HWMutexGenerator(IF n < 8 THEN \h3E ELSE IF n < 16 THEN \h4A ELSE \h4B, n)
EEPROM == Rfa1!EEPROM

\* systemclock.h.
Systemclock == View(\h61, <<<<"clkps", 4>>, <<"", 3>>, <<"clkpce", 1>>>>) \cup View(\h61, <<<<"clkpr", 8>>>>)

Maps ==
    {Timer0, Timer2, ADCRegMap, EEPROM, Systemclock}
      \cup {GenericTimer(desc) : desc \in {Timer1Desc, Timer3Desc, Timer4Desc, Timer5Desc}}
      \cup {ExtIntGenerator(ExtInt(nr)) : nr \in 0 .. 7}
      \cup {HardwareMutex(n) : n \in 0 .. 23}

Timers ==
    {<<Timer0, Timer0Modes>>, <<Timer2, Timer2Modes>>}
      \cup {<<GenericTimer(desc), GenericTimerModes>> :
                desc \in {Timer1Desc, Timer3Desc, Timer4Desc, Timer5Desc}}

=============================================================================
