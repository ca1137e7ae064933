---------------------------- MODULE HackSelection ----------------------------
(***************************************************************************)
(* The Bernoulli trial of inject_hack_in_queue (TCPTrack.cc): whether a    *)
(* plugin is applied to a packet is percentage(logarithm(packet_number),   *)
(* hack_frequency), where random() % 100 is the random draw.               *)
(*                                                                         *)
(* logarithm returns a float; it is kept in hundredths (150.9 is 15090).   *)
(* The product (int)(math_choosed * vecna_choosed) is computed in single   *)
(* precision by the code; rounding it changes the integer part only where *)
(* that part exceeds 4500 (150.9f * 3000 is 4526 rather than 4527), where  *)
(* every draw succeeds either way, so the hundredths give the same trials. *)
(*                                                                         *)
(* Also the choice of verdict a plugin gives the packets it makes          *)
(* (pktRandomDamage), from which the engine's DecoyVerdicts are taken.     *)
(***************************************************************************)
EXTENDS Integers

\* logarithm(packet_number): the session-age factor, in hundredths.
logarithm(packet_number) ==
    LET blah == CASE packet_number > 10000 -> (packet_number \div 10000) * 10000
                  [] packet_number > 1000  -> (packet_number \div 1000) * 1000
                  [] packet_number > 100   -> (packet_number \div 100) * 100
                  [] OTHER                 -> -1
    IN  CASE packet_number < 20    -> 15090
          [] blah = -1             -> 220
          [] blah = packet_number  -> 9000
          [] OTHER                 -> 8

\* The draws random() % 100 can give.
Draws == 0..99

\* (random() % 100) <= ((int)(math_choosed * vecna_choosed) / 100), for
\* the draw r.
Succeeds(math100, vecna, r) == r <= ((math100 * vecna) \div 100) \div 100

\* percentage(math_choosed, vecna_choosed): the results it can return.
percentage(math100, vecna) == {Succeeds(math100, vecna, r) : r \in Draws}

\* Hack::pktRandomDamage(scrambles), the verdict a plugin gives a packet it
\* makes: PRESCRIPTION three times in four when the TTL scramble is
\* available, else MALFORMED four times in five when the malformed one is,
\* else GUILTY; here the set of verdicts it can return.
pktRandomDamage(scrambles) ==
    {"GUILTY"} \cup (IF "TTL" \in scrambles THEN {"PRESCRIPTION"} ELSE {})
               \cup (IF "MALFORMED" \in scrambles THEN {"MALFORMED"} ELSE {})

\* Plugin::pktRandomDamage(availableScrambles, supportedScrambles): the same
\* choice over the scrambles both available and supported (with 70 and 95
\* percent), after logging the three scramble lists.
Plugin_pktRandomDamage(availableScrambles, supportedScrambles) ==
    pktRandomDamage(availableScrambles \cap supportedScrambles)

=============================================================================
