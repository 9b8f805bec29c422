------------------------------ MODULE StmMedia ------------------------------
(***************************************************************************)
(* The controllers of the STM32 snapshot that feed something outside: the    *)
(* scan-out of a display (ltdc.rs), memory banks a page answers for (fsmc.rs, *)
(* fsmc_tap.rs), the DMA of the Ethernet MAC, whose descriptors the page      *)
(* walks (eth.rs), and an SD card (sdio.rs).  Left out: the registers that    *)
(* are only kept, the MAC, MMC and PTP blocks, the geometry of a line.        *)
(***************************************************************************)
EXTENDS Integers, Sequences, SequencesExt, TLC

CONSTANTS
    Media,       \* which of "screen", "banks", "net", "card" firmware uses
    Span,        \* pixels of a line, blanking included
    Height,      \* lines of a frame, blanking included
    MaxLag,      \* bound: instructions between two ticks
    Tapped,      \* the banks of the FSMC with a tap; {0, 1} exist
    Offsets,     \* where firmware accesses a bank
    MaxQueue,    \* bound: what waits for the page
    Commands,    \* what is sent to the card: <<index, is a response waited for, is the address the card's>>
    MediaRude    \* what a careless program or page does: "dark", "await", "reset",
                 \* "anyorder"

Sides == {"tx", "rx"}
Uses(what) == what \in Media

VARIABLES
    screen,    \* the LTDC; lag is the time since its last_tick
    bank,      \* FSMC_TAP_EVENTS and FSMC_TAP_DATA
    net,       \* the DMA block of the MAC; poll and done are ETH_*_POLL and ETH_DONE
    page,      \* the descriptor lists the page has walked, and not yet said so
    card,      \* the SDIO controller and its card
    nvic,      \* the interrupts that are pending
    seen       \* history

mediaVars == <<screen, bank, net, page, card, nvic, seen>>

NetReset == [on |-> {}, pending |-> {}, sr |-> {}, ie |-> {}]

BankReset == [events |-> [b \in {0, 1} |-> <<>>], data |-> [b \in {0, 1} |-> <<>>]]
CardReset == [state |-> "idle", sta |-> {}, mask |-> {}, active |-> FALSE]

Init ==
    /\ screen = [on |-> FALSE, px |-> 0, line |-> 0, frame |-> 0, lip |-> 0, isr |-> {}, ie |-> {}, lag |-> 0]
    /\ bank = BankReset
    /\ net = [poll |-> {}, done |-> {}] @@ NetReset
    /\ page = {}
    /\ card = CardReset
    /\ nvic = {}
    /\ seen = [at |-> 0, dark |-> 0, due |-> {}, fresh |-> FALSE, bus |-> [b \in {0, 1} |-> <<>>], asked |-> {}, untold |-> {},
               read |-> {}, finished |-> {}, card |-> "idle", sent |-> FALSE]

-----------------------------------------------------------------------------
(* The display: two pixels for an instruction.                               *)

Whole == Span * Height

\* One line further: at the line of LIPCR, and at the end of a frame, a flag.
OneLine(s, k) ==
    LET line == s.line + 1
        over == line >= Height
    IN  [s EXCEPT !.line = IF over THEN 0 ELSE line,
                  !.frame = IF over THEN (@ + 1) % 2 ELSE @,
                  !.isr = @ \cup {f \in {"line"} : line = s.lip} \cup {f \in {"frame"} : over}]

\* Two pixels for a tick, however long it stands for.
ScannedFixed(s) ==
    LET px == s.px + 2
    IN  [FoldLeft(OneLine, [s EXCEPT !.isr = {}], [k \in 1..(px \div Span) |-> k]) EXCEPT !.px = px % Span, !.lag = 0]

\* What a scan raises is its isr.
Scanned(s) ==
    LET px == s.px + (2 * s.lag)
    IN  [FoldLeft(OneLine, [s EXCEPT !.isr = {}], [k \in 1..(px \div Span) |-> k]) EXCEPT !.px = px % Span, !.lag = 0]

\* The same scan, of the time the display was on.
Lit == 2 * (screen.lag - seen.dark)
Due == LET starts == {x \in (seen.at + 1)..(seen.at + Lit) : x % Span = 0}
       IN  {f \in {"line"} : \E x \in starts : (((x \div Span) - 1) % Height) + 1 = screen.lip}
           \cup {f \in {"frame"} : \E x \in starts : x % Whole = 0}

Fired(s) == IF s.isr \cap s.ie # {} THEN nvic \cup {"screen"} ELSE nvic

Pass ==
    /\ Uses("screen")
    /\ screen.on \/ "dark" \in MediaRude
    /\ screen.lag < MaxLag /\ screen' = [screen EXCEPT !.lag = @ + 1]
    /\ seen' = IF screen.on THEN seen ELSE [seen EXCEPT !.dark = @ + 1]
    /\ UNCHANGED <<bank, net, page, card, nvic>>

ScanTick ==
    /\ screen.on /\ screen.lag > 0
    /\ LET scan == Scanned(screen)
           s == [scan EXCEPT !.isr = @ \cup screen.isr]
       IN  /\ screen' = s
           /\ nvic' = IF scan.isr = {} THEN nvic ELSE Fired(s)
           /\ seen' = [seen EXCEPT !.at = (@ + Lit) % (2 * Whole), !.dark = 0, !.due = @ \cup Due,
                                   !.fresh = @ \/ (Due \cap screen.ie # {})]
    /\ UNCHANGED <<bank, net, page, card>>

\* GCR: LTDCEN.
WriteGcr(on) ==
    /\ Uses("screen") /\ screen' = [screen EXCEPT !.on = on]
    /\ UNCHANGED <<bank, net, page, card, nvic, seen>>

WriteLipcr(n) ==
    /\ Uses("screen") /\ screen' = [screen EXCEPT !.lip = n]
    /\ UNCHANGED <<bank, net, page, card, nvic, seen>>

\* SRCR: the shadow registers are reloaded at once.
WriteSrcr ==
    /\ Uses("screen")
    /\ LET s == [screen EXCEPT !.isr = @ \cup {"reload"}] IN screen' = s /\ nvic' = Fired(s)
    /\ seen' = [seen EXCEPT !.due = @ \cup {"reload"}, !.fresh = @ \/ "reload" \in screen.ie]
    /\ UNCHANGED <<bank, net, page, card>>

WriteIer(ie) ==
    /\ Uses("screen")
    /\ LET s == [screen EXCEPT !.ie = ie] IN screen' = s /\ nvic' = Fired(s)
    /\ seen' = [seen EXCEPT !.fresh = @ \/ (seen.due \cap ie # {})]
    /\ UNCHANGED <<bank, net, page, card>>

WriteIcr(m) ==
    /\ Uses("screen") /\ screen' = [screen EXCEPT !.isr = @ \ m]
    /\ seen' = [seen EXCEPT !.due = @ \ m]
    /\ UNCHANGED <<bank, net, page, card, nvic>>

-----------------------------------------------------------------------------
(* The banks: an access is an event, and a read is answered from the queue.  *)

Heard(b, e) == [bank EXCEPT !.events[b] = Append(@, e)]

ReadBank(b, off) ==
    /\ Uses("banks") /\ Len(bank.events[b]) < MaxQueue
    /\ IF b \in Tapped
       THEN LET v == IF bank.data[b] = <<>> THEN 0 ELSE Head(bank.data[b])
            IN  /\ bank' = [Heard(b, <<"read", off, v>>) EXCEPT !.data[b] = IF @ = <<>> THEN @ ELSE Tail(@)]
                /\ seen' = [seen EXCEPT !.bus[b] = Append(@, <<"read", off, v>>)]
       ELSE UNCHANGED <<bank, seen>>
    /\ UNCHANGED <<screen, net, page, card, nvic>>

WriteBank(b, off, v) ==
    /\ Uses("banks") /\ Len(bank.events[b]) < MaxQueue
    /\ IF b \in Tapped
       THEN bank' = Heard(b, <<"write", off, v>>) /\ seen' = [seen EXCEPT !.bus[b] = Append(@, <<"write", off, v>>)]
       ELSE UNCHANGED <<bank, seen>>
    /\ UNCHANGED <<screen, net, page, card, nvic>>

TakeEvents(b) ==
    /\ bank.events[b] # <<>> /\ bank' = [bank EXCEPT !.events[b] = <<>>]
    /\ seen' = [seen EXCEPT !.bus[b] = <<>>]
    /\ UNCHANGED <<screen, net, page, card, nvic>>

PushData(b, v) ==
    /\ Uses("banks") /\ Len(bank.data[b]) < MaxQueue /\ bank' = [bank EXCEPT !.data[b] = Append(@, v)]
    /\ UNCHANGED <<screen, net, page, card, nvic, seen>>

-----------------------------------------------------------------------------
(* The Ethernet DMA: firmware demands a poll, the page walks the descriptors, *)
(* clears the demand and says it is done, and the next tick tells firmware.   *)

\* The page is not in the middle of a list while firmware runs.
Runs == Uses("net") /\ (page = {} \/ "await" \in MediaRude)

\* deliver_pending_done: a flag that is still set makes the next one wait.
Delivered(n) == [n EXCEPT !.sr = @ \cup n.pending, !.pending = @ \cap n.sr]
Told(n) == IF n.sr \cap n.ie # {} THEN nvic \cup {"net"} ELSE nvic
Update(n) == LET d == Delivered(n) IN net' = d /\ nvic' = Told(d)

Signal(n, sides) ==
    /\ net' = [n EXCEPT !.poll = @ \cup sides]
    /\ seen' = [seen EXCEPT !.asked = @ \cup sides]

\* TPDR and RPDR.
Demand(d) ==
    /\ Runs /\ Signal(net, {d} \cap net.on)
    /\ UNCHANGED <<screen, bank, page, card, nvic>>

WriteOmr(on) ==
    /\ Runs /\ Signal([net EXCEPT !.on = on], on)
    /\ UNCHANGED <<screen, bank, page, card, nvic>>

Walk(d) ==
    /\ d \in net.poll \ page /\ page' = page \cup {d}
    /\ seen' = [seen EXCEPT !.asked = @ \ {d}]
    /\ UNCHANGED <<screen, bank, net, card, nvic>>

\* eth_clear_tx_poll, eth_tx_done.
Finish(d) ==
    /\ d \in page /\ page' = page \ {d}
    /\ net' = [net EXCEPT !.poll = @ \ {d}, !.done = @ \cup {d}]
    /\ seen' = [seen EXCEPT !.untold = @ \cup {d}, !.finished = @ \cup {d}]
    /\ UNCHANGED <<screen, bank, card, nvic>>

NetTick ==
    /\ Runs
    /\ net.done # {} \/ net.sr \cap net.ie # {}
    /\ Update([net EXCEPT !.pending = @ \cup net.done, !.done = {}])
    /\ UNCHANGED <<screen, bank, page, card, seen>>

\* The handler reads the flags and the descriptors, and later clears what it read.
Examine ==
    /\ Runs /\ seen' = [seen EXCEPT !.read = net.sr, !.untold = {}]
    /\ UNCHANGED <<screen, bank, net, page, card, nvic>>

WriteDmasr(m) ==
    /\ Runs /\ m \subseteq seen.read /\ Update([net EXCEPT !.sr = @ \ m])
    /\ seen' = [seen EXCEPT !.read = @ \ m]
    /\ UNCHANGED <<screen, bank, page, card>>

WriteDmaier(ie) ==
    /\ Runs /\ Update([net EXCEPT !.ie = ie])
    /\ UNCHANGED <<screen, bank, page, card, seen>>

\* SWR resets the block, and not what it has asked of the page.
SoftwareReset ==
    /\ Runs
    /\ net.poll \cup net.done = {} \/ "reset" \in MediaRude
    /\ net' = [poll |-> net.poll, done |-> net.done] @@ NetReset
    /\ seen' = [seen EXCEPT !.asked = {}, !.untold = {}, !.read = {}, !.finished = {}]
    /\ UNCHANGED <<screen, bank, page, card, nvic>>

-----------------------------------------------------------------------------
(* The card: the state a command leaves it in, and what a card would do.     *)

Card(s, c, mine) ==
    CASE s = "idle" /\ c \in 41..52    -> "ready"
      [] s \in {"idle", "ready"} /\ c = 2 -> "ident"
      [] s = "ident" /\ c = 3          -> "stby"
      [] s = "stby" /\ c = 7 /\ mine   -> "tran"
      [] OTHER                         -> s

Meant(s, c, mine) ==
    CASE c = 0                         -> "idle"
      [] s = "idle" /\ c = 41          -> "ready"
      [] s = "ready" /\ c = 2          -> "ident"
      [] s = "ident" /\ c = 3          -> "stby"
      [] s \in {"stby", "tran"} /\ c = 7 -> IF mine THEN "tran" ELSE "stby"
      [] OTHER                         -> s

\* A program that does not ask an idle card for its CID, and neither starts a card over
\* nor deselects it.
Usual(s, c, mine) == (c = 2 => s # "idle") /\ (c = 0 => s = "idle") /\ (c = 7 /\ s = "tran" => mine)

CardTold(k) == IF k.sta \cap k.mask # {} THEN nvic \cup {"card"} ELSE nvic

\* CMD: the bit the code takes for the start of a command is a bit of WAITRESP.
Command(c, wait, mine) ==
    /\ Uses("card")
    /\ Usual(seen.card, c, mine) \/ "anyorder" \in MediaRude
    /\ seen' = [seen EXCEPT !.card = Meant(@, c, mine), !.sent = TRUE]
    /\ IF ~wait THEN UNCHANGED <<card, nvic>>
       ELSE LET reads == c \in {17, 18}
                k == [card EXCEPT !.state = Card(@, c, mine), !.active = @ \/ reads,
                                  !.sta = @ \cup {"cmdrend", "dbckend"}
                                            \cup IF reads THEN {"dcrcfail", "dtimeout", "cmdact"} ELSE {}]
            IN  card' = k /\ nvic' = CardTold(k)
    /\ UNCHANGED <<screen, bank, net, page>>

\* DCTRL with DTEN starts over what the data path has told.
WriteDctrl ==
    /\ Uses("card")
    /\ LET k == [card EXCEPT !.active = FALSE, !.sta = (@ \ {"dcrcfail"}) \cup {"dtimeout", "rxoverr"}]
       IN  card' = k /\ nvic' = CardTold(k)
    /\ UNCHANGED <<screen, bank, net, page, seen>>

WriteCardIcr(m) ==
    /\ Uses("card") /\ card' = [card EXCEPT !.sta = @ \ m]
    /\ seen' = IF "cmdrend" \in m THEN [seen EXCEPT !.sent = FALSE] ELSE seen
    /\ UNCHANGED <<screen, bank, net, page, nvic>>

WriteMask(m) ==
    /\ Uses("card")
    /\ LET k == [card EXCEPT !.mask = m] IN card' = k /\ nvic' = CardTold(k)
    /\ UNCHANGED <<screen, bank, net, page, seen>>

-----------------------------------------------------------------------------
TakeIrq(i) ==
    /\ i \in nvic /\ nvic' = nvic \ {i}
    /\ seen' = IF i = "screen" THEN [seen EXCEPT !.fresh = FALSE] ELSE seen
    /\ UNCHANGED <<screen, bank, net, page, card>>

ScreenNext ==
    \/ Pass \/ ScanTick \/ WriteSrcr
    \/ \E on \in BOOLEAN : WriteGcr(on)
    \/ \E n \in 0..Height : WriteLipcr(n)
    \/ \E m \in SUBSET {"line", "frame", "reload"} : WriteIer(m) \/ WriteIcr(m)

BankNext ==
    \E b \in {0, 1} :
        \/ TakeEvents(b) \/ PushData(b, 1)
        \/ \E off \in Offsets : ReadBank(b, off) \/ WriteBank(b, off, 1)

NetNext ==
    \/ NetTick \/ Examine \/ SoftwareReset
    \/ \E d \in Sides : Demand(d) \/ Walk(d) \/ Finish(d)
    \/ \E m \in SUBSET Sides : WriteOmr(m) \/ WriteDmasr(m) \/ WriteDmaier(m)

CardNext ==
    \/ WriteDctrl
    \/ \E c \in Commands : Command(c[1], c[2], c[3])
    \/ \E m \in {{"cmdrend"}, {"cmdrend", "dbckend", "dcrcfail", "dtimeout", "rxoverr"}} : WriteCardIcr(m) \/ WriteMask(m)

Next == ScreenNext \/ BankNext \/ NetNext \/ CardNext \/ \E i \in nvic : TakeIrq(i)

Spec == Init /\ [][Next]_mediaVars

-----------------------------------------------------------------------------
\* However many instructions a tick stands for, the display is at the line and in the
\* frame the time makes it, its flags are those of the lines passed, and firmware that
\* enabled one has an interrupt.
ScanExact ==
    /\ (screen.frame * Whole) + (screen.line * Span) + screen.px = seen.at
    /\ screen.isr = seen.due
    /\ seen.fresh => "screen" \in nvic

\* The page hears of every access to a bank it has tapped, with its address, in order.
BanksHeard == bank.events = seen.bus

\* A demand firmware has made waits for the page until it has walked the list, and a list
\* that was finished after the handler looked is told again; no list is told that this
\* program did not ask for.
FramesServed ==
    /\ seen.asked \subseteq net.poll
    /\ seen.untold \subseteq net.done \cup net.pending \cup net.sr
    /\ net.sr \cup net.pending \subseteq seen.finished

\* The card is where the commands have brought it.
CardInStep == card.state = seen.card

MediaAgree == ScanExact /\ BanksHeard /\ FramesServed /\ CardInStep

\* A command ends with a flag.
CommandsTold == seen.sent => "cmdrend" \in card.sta

\* A block that is read is read without an error.
ReadsSucceed == card.active => {"dcrcfail", "dtimeout"} \cap card.sta = {}
=============================================================================
