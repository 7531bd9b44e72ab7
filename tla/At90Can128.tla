----------------------------- MODULE At90Can128 -----------------------------
(***************************************************************************)
(* The register maps of regmaps/local/at90can128. Timers 0 and 2 have one  *)
(* compare unit and their control bits in another order; there are no      *)
(* timers 4 and 5. The other headers are copies of those of the            *)
(* atmega128rfa1 but for names and what is noted below.                    *)
(***************************************************************************)
EXTENDS RegisterLayout

LOCAL Rfa1 == INSTANCE AtMega128Rfa1

\* genericTimer.h, timer1.h and timer3.h.
GenericTimer(desc) == Rfa1!GenericTimer(desc)
GenericTimerModes == Rfa1!GenericTimerModes
Timer1Desc == Rfa1!Timer1Desc
Timer3Desc == [Rfa1!Timer3Desc EXCEPT !.ocmOutput = \h2D]

\* timer0.h.  PSArray of index i has the value of the code i + 1.
Timer0 ==
    View(\h24, <<<<"", 7>>, <<"ocmAOutput", 1>>>>)
      \cup View(\h35, Flags(<<"tov", "ocfa">>)) \cup View(\h35, <<<<"tifr", 8>>>>)
      \cup View(\h6E, Flags(<<"toie", "ociea">>)) \cup View(\h6E, <<<<"timsk", 8>>>>)
      \cup View(\h44, <<<<"cs", 3>>, <<"wgm0", 1>>, <<"coma", 2>>, <<"wgm1", 1>>, <<"foca", 1>>>>)
      \cup View(\h44, <<<<"tccra", 8>>>>) \cup View(\h44, <<<<"tccr", 16>>>>)
      \cup View(\h46, <<<<"tcnt", 8>>>>)
      \cup View(\h47, <<<<"ocra", 8>>>>)

Timer0Modes ==
    [forms |-> 0 .. 3, low |-> 2, high |-> 2,
     divisor |-> <<1, 8, 64, 256, 1024>>,
     value |-> <<1, 8, 64, 256, 1024, 1024, 1024>>, code |-> <<1, 2, 3, 4, 5, 5, 5>>]

\* timer2.h.  PSValue compares with the number 128 where the code ps128 is
\* meant, and gives that code the value 1024.
Timer2 ==
    View(\h24, <<<<"", 4>>, <<"ocmAOutput", 1>>>>)
      \cup View(\h37, Flags(<<"tov", "ocf">>)) \cup View(\h37, <<<<"tifr", 8>>>>)
      \cup View(\h70, Flags(<<"toie", "ociea">>)) \cup View(\h70, <<<<"timsk", 8>>>>)
      \cup View(\hB0, <<<<"cs", 3>>, <<"wgm1", 1>>, <<"coma", 2>>, <<"wgm0", 1>>, <<"foc", 1>>>>)
      \cup View(\hB0, <<<<"tccr", 8>>>>)
      \cup View(\hB2, <<<<"tcnt", 8>>, <<"ocra", 8>>>>)
      \cup View(\hB6, Flags(<<"tcrub", "ocraub", "tcnub", "as", "extclk">>)) \cup View(\hB6, <<<<"assr", 8>>>>)

Timer2Modes ==
    [forms |-> 0 .. 3, low |-> 2, high |-> 2,
     divisor |-> <<1, 8, 32, 64, 128, 256, 1024>>,
     value |-> <<1, 8, 32, 64, 1024, 256, 1024>>, code |-> <<1, 2, 3, 4, 5, 6, 7>>]

\* extInt.h; adc.h without the sixth bit of the multiplexer; gpior.h, which
\* calls the first eight mutexes SystemMutex and counts the others from 0.
ExtIntGenerator(config) == Rfa1!ExtIntGenerator(config)
ExtInt(nr) == Rfa1!ExtInt(nr)
Adc == {f \in Rfa1!ADCRegMap : f.name # "mux5"}
HWMutexGenerator(address, offset) == Rfa1!HWMutexGenerator(address, offset)
SystemMutex(n) == HWMutexGenerator(\h3E, n)
HardwareMutex(n) == HWMutexGenerator(IF n < 8 THEN \h4A ELSE \h4B, n + 8)

\* twi.h, uart0.h, uart1.h, flash.h and eeprom.h.
TWI == Rfa1!TWI
Uart0 == Rfa1!Uart0
Uart1 == Rfa1!Uart1
Flash == Rfa1!Flash
EEPROM == Rfa1!EEPROM

Maps ==
    {Timer0, Timer2, Adc, TWI, Uart0, Uart1, Flash, EEPROM}
      \cup {GenericTimer(desc) : desc \in {Timer1Desc, Timer3Desc}}
      \cup {ExtIntGenerator(ExtInt(nr)) : nr \in 0 .. 7}
      \cup {SystemMutex(n) : n \in 0 .. 7} \cup {HardwareMutex(n) : n \in 0 .. 15}

Timers ==
    {<<Timer0, Timer0Modes>>, <<Timer2, Timer2Modes>>}
      \cup {<<GenericTimer(desc), GenericTimerModes>> : desc \in {Timer1Desc, Timer3Desc}}

=============================================================================
