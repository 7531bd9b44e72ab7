--------------------------- MODULE AtMega128Rfa1 ----------------------------
(***************************************************************************)
(* The register maps of regmaps/local/atmega128rfa1: where every field     *)
(* lies, and the tables that a timer keeps of its wave forms and clock     *)
(* prescalers.                                                             *)
(*                                                                         *)
(* A timer's modes are a record: forms, the values of enum WaveForms; low  *)
(* and high, how setWaveForm cuts a form in two (wgm0 takes form modulo    *)
(* low, wgm1 the rest modulo high); divisor, what the comments of enum     *)
(* Prescalers say of the codes 1, 2, ...; value and code, the entries of   *)
(* PSArray from index 0 on.                                                *)
(***************************************************************************)
EXTENDS RegisterLayout

\* genericTimer.h: a timer of 16 bits with three compare units.
GenericTimer(desc) ==
    View(desc.ocmOutput, <<<<"", desc.ocmOffset>>>> \o Flags(<<"ocmAOutput", "ocmBOutput", "ocmCOutput">>))
      \cup View(desc.tifr, Flags(<<"tovf", "ocaf", "ocbf", "occf", "", "icf">>))
      \cup View(desc.tifr, <<<<"tifr", 8>>>>)
      \cup View(desc.timsk, Flags(<<"toie", "ociea", "ocieb", "ociec", "", "icie">>))
      \cup View(desc.timsk, <<<<"timsk", 8>>>>)
      \cup View(desc.tccr, <<<<"wgm0", 2>>, <<"comc", 2>>, <<"comb", 2>>, <<"coma", 2>>,
                             <<"cs", 3>>, <<"wgm1", 2>>, <<"", 1>>, <<"ices", 1>>, <<"icnc", 1>>,
                             <<"", 5>>, <<"focc", 1>>, <<"focb", 1>>, <<"foca", 1>>>>)
      \cup View(desc.tccr, <<<<"tccra", 8>>, <<"tccrb", 8>>, <<"tccrc", 8>>>>)
      \cup View(desc.tcnt, <<<<"tcnt", 16>>>>) \cup View(desc.tcnt, <<<<"tcntl", 8>>, <<"tcnth", 8>>>>)
      \cup View(desc.icr, <<<<"icr", 16>>>>) \cup View(desc.icr, <<<<"icrl", 8>>, <<"icrh", 8>>>>)
      \cup View(desc.ocr, <<<<"ocra", 16>>>>) \cup View(desc.ocr, <<<<"ocral", 8>>, <<"ocrah", 8>>>>)
      \cup View(desc.ocr + 2, <<<<"ocrb", 16>>>>) \cup View(desc.ocr + 2, <<<<"ocrbl", 8>>, <<"ocrbh", 8>>>>)
      \cup View(desc.ocr + 4, <<<<"ocrc", 16>>>>) \cup View(desc.ocr + 4, <<<<"ocrcl", 8>>, <<"ocrch", 8>>>>)

GenericTimerModes ==
    [forms |-> 0 .. 12 \cup {14, 15}, low |-> 4, high |-> 4,
     divisor |-> <<1, 8, 64, 256, 1024>>,
     value |-> <<1, 8, 64, 256, 1024>>, code |-> <<1, 2, 3, 4, 5>>]

\* timer1.h, timer3.h, timer4.h and timer5.h: where the four of them lie.
Timer1Desc == [ocmOutput |-> \h24, ocmOffset |-> 5, tifr |-> \h36, timsk |-> \h6F,
               tccr |-> \h80, tcnt |-> \h84, icr |-> \h86, ocr |-> \h88]
Timer3Desc == [ocmOutput |-> \h2E, ocmOffset |-> 3, tifr |-> \h38, timsk |-> \h71,
               tccr |-> \h90, tcnt |-> \h94, icr |-> \h96, ocr |-> \h98]
Timer4Desc == [ocmOutput |-> \h101, ocmOffset |-> 3, tifr |-> \h39, timsk |-> \h72,
               tccr |-> \hA0, tcnt |-> \hA4, icr |-> \hA6, ocr |-> \hA8]
Timer5Desc == [ocmOutput |-> \h10A, ocmOffset |-> 3, tifr |-> \h3A, timsk |-> \h73,
               tccr |-> \h120, tcnt |-> \h124, icr |-> \h126, ocr |-> \h128]

\* timer0.h: a timer of 8 bits with two compare units.
Timer0 ==
    View(\h24, <<<<"", 7>>, <<"ocmAOutput", 1>>>>)
      \cup View(\h33, <<<<"", 5>>, <<"ocmBOutput", 1>>>>)
      \cup View(\h35, Flags(<<"tov", "ocfa", "ocfb">>)) \cup View(\h35, <<<<"tifr", 8>>>>)
      \cup View(\h6E, Flags(<<"toie", "ociea", "ocieb">>)) \cup View(\h6E, <<<<"timsk", 8>>>>)
      \cup View(\h44, <<<<"wgm0", 2>>, <<"", 2>>, <<"comb", 2>>, <<"coma", 2>>, <<"cs", 3>>,
                        <<"wgm1", 1>>, <<"", 2>>, <<"focb", 1>>, <<"foca", 1>>>>)
      \cup View(\h44, <<<<"tccra", 8>>, <<"tccrb", 8>>>>) \cup View(\h44, <<<<"tccr", 16>>>>)
      \cup View(\h46, <<<<"tcnt", 8>>>>)
      \cup View(\h47, <<<<"ocra", 8>>, <<"ocrb", 8>>>>)

\* Its table of prescalers tests the indices 0, 1, 3 and 5 of 0 to 6.
Timer0Modes ==
    [forms |-> {0, 1, 2, 3, 5, 7}, low |-> 4, high |-> 2,
     divisor |-> <<1, 8, 64, 256, 1024>>,
     value |-> <<1, 8, 1024, 64, 1024, 256, 1024>>, code |-> <<1, 2, 5, 3, 5, 4, 5>>]

\* timer2.h: a timer of 8 bits that may run from a clock of its own.
Timer2 ==
    View(\h24, <<<<"", 4>>, <<"ocmAOutput", 1>>>>)
      \cup View(\h101, <<<<"", 6>>, <<"ocmBOutput", 1>>>>)
      \cup View(\h37, Flags(<<"tov", "ocfa", "ocfb">>)) \cup View(\h37, <<<<"tifr", 8>>>>)
      \cup View(\h70, Flags(<<"toie", "ociea", "ocieb">>)) \cup View(\h70, <<<<"timsk", 8>>>>)
      \cup View(\hB0, <<<<"wgm0", 2>>, <<"", 2>>, <<"comb", 2>>, <<"coma", 2>>, <<"cs", 3>>,
                        <<"wgm1", 1>>, <<"", 2>>, <<"focb", 1>>, <<"foca", 1>>>>)
      \cup View(\hB0, <<<<"tccra", 8>>, <<"tccrb", 8>>>>) \cup View(\hB0, <<<<"tccr", 16>>>>)
      \cup View(\hB2, <<<<"tcnt", 8>>>>)
      \cup View(\hB3, <<<<"ocra", 8>>, <<"ocrb", 8>>>>)
      \cup View(\hB6, <<<<"tcrub", 2>>>> \o Flags(<<"ocrbub", "ocraub", "tcnub", "as", "extclk", "extclkamr">>))
      \cup View(\hB6, <<<<"assr", 8>>>>)

Timer2Modes ==
    [forms |-> {0, 1, 2, 3, 5, 7}, low |-> 4, high |-> 2,
     divisor |-> <<1, 8, 32, 64, 128, 256, 1024>>,
     value |-> <<1, 8, 32, 64, 128, 256, 1024>>, code |-> <<1, 2, 3, 4, 5, 6, 7>>]

\* extInt.h: one external interrupt, and which port its pin is on.
ExtIntGenerator(config) ==
    View(config.portAddress, <<<<"", config.nr>>, <<"type", 1>>>>)
      \cup View(config.portAddress + 1, <<<<"", config.nr>>, <<"trigger", 1>>>>)
      \cup View(\h3C, <<<<"", config.nr>>, <<"flag", 1>>>>)
      \cup View(\h3D, <<<<"", config.nr>>, <<"mask", 1>>>>)
      \cup View(\h69, <<<<"", 2 * config.nr>>, <<"sensitivity", 2>>>>)

ExtInt(nr) == [nr |-> nr, portAddress |-> IF nr < 4 THEN \h2A ELSE \h2D]

\* adc.h.
ADCRegMap ==
    View(\h78, <<<<"adcl", 8>>, <<"adch", 8>>>>) \cup View(\h78, <<<<"adc", 16>>>>)
      \cup View(\h7A, <<<<"adps", 3>>, <<"adie", 1>>, <<"adif", 1>>, <<"adate", 1>>, <<"adsc", 1>>,
                        <<"aden", 1>>, <<"adts", 3>>, <<"mux5", 1>>, <<"", 2>>, <<"acme", 1>>>>)
      \cup View(\h7C, <<<<"admux", 8>>>>) \cup View(\h7C, <<<<"mux", 5>>, <<"adlra", 1>>, <<"refs", 2>>>>)
      \cup View(\h7E, <<<<"didr0", 8>>>>)

\* gpior.h: one bit of a register that programs use as a mutex.  The offset
\* counts from the address on, also where it is more than a byte.
HWMutexGenerator(address, offset) == View(address, <<<<"", offset>>, <<"value", 1>>>>)

HardwareMutex(n) ==
    HWMutexGenerator(IF n < 8 THEN \h3E ELSE IF n < 16 THEN \h4A ELSE \h4B, n)

\* twi.h.
TWI ==
    View(\hB8, <<<<"twbr", 8>>>>)
      \cup View(\hB9, <<<<"twsr", 8>>>>) \cup View(\hB9, <<<<"twps", 2>>, <<"", 1>>, <<"tws", 5>>>>)
      \cup View(\hBA, <<<<"twar", 8>>>>) \cup View(\hBA, <<<<"twgce", 1>>, <<"twa", 7>>>>)
      \cup View(\hBB, <<<<"twdr", 8>>>>)
      \cup View(\hBC, <<<<"twcr", 8>>>>)
      \cup View(\hBC, Flags(<<"twie", "", "twen", "twwc", "twsto", "twsta", "twea", "twint">>))

\* uart0.h, and uart1.h eight bytes on.
Uart(base) ==
    View(base, <<<<"ucsra", 8>>>>)
      \cup View(base, Flags(<<"mpcm", "u2x", "pe", "dor", "fe", "udre", "txc", "rxc">>))
      \cup View(base + 1, <<<<"ucsrb", 8>>>>)
      \cup View(base + 1, Flags(<<"txb8", "rxb8", "ucsz2", "txen", "rxen", "udrie", "txcie", "rxcie">>))
      \cup View(base + 2, <<<<"ucsrc", 8>>>>)
      \cup View(base + 2, Flags(<<"ucpol", "ucsz0", "ucsz1", "usbs">>) \o <<<<"upm", 2>>, <<"umsel", 1>>>>)
      \cup View(base + 4, <<<<"ubbr", 16>>>>) \cup View(base + 4, <<<<"ubrrl", 8>>, <<"ubrrh", 8>>>>)
      \cup View(base + 6, <<<<"udr", 8>>>>)

Uart0 == Uart(\hC0)
Uart1 == Uart(\hC8)

\* flash.h.
Flash ==
    View(\h57, <<<<"spmen", 1>>>>)
      \cup View(\h57, <<<<"cmd", 5>>, <<"", 1>>, <<"rwwsb", 1>>, <<"spmie", 1>>>>)
      \cup View(\h57, <<<<"spmcsr", 8>>>>)
      \cup View(\h5B, <<<<"rampz", 8>>>>)

\* eeprom.h.
EEPROM ==
    View(\h3F, Flags(<<"startRead", "startWrite", "enableWrite", "interruptEnable">>) \o <<<<"mode", 2>>>>)
      \cup View(\h3F, <<<<"eecr", 8>>>>)
      \cup View(\h40, <<<<"data", 8>>>>) \cup View(\h40, <<<<"eedr", 8>>>>)
      \cup View(\h41, <<<<"eearl", 8>>, <<"eearh", 8>>>>) \cup View(\h41, <<<<"address", 16>>>>)

\* The maps of the chip, and the modes of those that are timers.
Maps ==
    {Timer0, Timer2, ADCRegMap, TWI, Uart0, Uart1, Flash, EEPROM}
      \cup {GenericTimer(desc) : desc \in {Timer1Desc, Timer3Desc, Timer4Desc, Timer5Desc}}
      \cup {ExtIntGenerator(ExtInt(nr)) : nr \in 0 .. 7}
      \cup {HardwareMutex(n) : n \in 0 .. 23}

Timers ==
    {<<Timer0, Timer0Modes>>, <<Timer2, Timer2Modes>>}
      \cup {<<GenericTimer(desc), GenericTimerModes>> :
                desc \in {Timer1Desc, Timer3Desc, Timer4Desc, Timer5Desc}}

=============================================================================
