---------------------------- MODULE PriceTheory ----------------------------
(***************************************************************************)
(* FeeModderByPriceTheory: the card game that searches the price level of  *)
(* a peer.  A round is a shuffled deck with one card per price around the  *)
(* center; the card in play sets the price and collects the fees earned    *)
(* until its lifetime is over; the best card of a round is the next        *)
(* center.  Every operation is one transaction on the two tables.          *)
(***************************************************************************)
EXTENDS Integers, Sequences, FiniteSets, SequencesExt

CONSTANTS
    Gamers,             \* the peers with a deck
    max_step,           \* prices on each side of the center
    initial_lifetime,   \* ten-minute periods a card stays in play
    MaxEarn,            \* bound: fees of 1 that are forwarded, per peer
    MaxPrice            \* bound: prices the model follows the center to

initial_price == 0
NoRowYet == {}

VARIABLES
    centerprice,        \* the table centerprice: peer -> {its price}, or no row
    cards,              \* the table cards: peer -> its cards, by deckorder
    drawn,              \* history: the price each peer was last given
    forwarded,          \* history: fees forwarded in this round, per peer
    missed              \* history: of those, with no card in play

priceVars == <<centerprice, cards, drawn, forwarded, missed>>

PriceInit ==
    /\ centerprice = [n \in Gamers |-> NoRowYet]
    /\ cards = [n \in Gamers |-> << >>]
    /\ drawn = [n \in Gamers |-> initial_price]
    /\ forwarded = [n \in Gamers |-> 0]
    /\ missed = [n \in Gamers |-> 0]

At(deck, pos) == {i \in DOMAIN deck : deck[i].pos = pos}

get_center_price(row) == IF row = NoRowYet THEN initial_price ELSE CHOOSE p \in row : TRUE

-----------------------------------------------------------------------------
(* The cards that an ORDER BY earnings DESC LIMIT 1 may return.            *)
BestDiscarded(deck) ==
    {i \in At(deck, "Discarded") :
        \A j \in At(deck, "Discarded") : deck[j].earnings <= deck[i].earnings}

(* The center after a round, or before the first one.                      *)
update_centerprice(row, deck) ==
    IF BestDiscarded(deck) = {} THEN {{initial_price}}
    ELSE {IF deck[i].earnings = 0 THEN row ELSE {deck[i].price} : i \in BestDiscarded(deck)}

(* Mutant: the deck reaches one step too far up.                           *)
reshuffle_deckFar(center) ==
    {[i \in DOMAIN s |-> [price |-> s[i], pos |-> "Deck",
                          lifetime |-> initial_lifetime, earnings |-> 0]] :
        s \in SetToSeqs((center - max_step) .. (center + max_step + 1))}

(* New cards around the center, in a random order.                         *)
reshuffle_deck(center) ==
    {[i \in DOMAIN s |-> [price |-> s[i], pos |-> "Deck",
                          lifetime |-> initial_lifetime, earnings |-> 0]] :
        s \in SetToSeqs((center - max_step) .. (center + max_step))}

(* draw_a_card: the one with the highest deckorder.                        *)
draw_a_card(deck) ==
    LET top == CHOOSE i \in At(deck, "Deck") : \A j \in At(deck, "Deck") : j <= i
    IN  [deck EXCEPT ![top].pos = "InPlay"]

PlayedPrice(deck) == deck[CHOOSE i \in At(deck, "InPlay") : TRUE].price

(* get_fee_mod: the price in play, after a draw if there is none and after *)
(* a new round if there is nothing to draw.                                *)
InPlayAlready(n) ==
    /\ At(cards[n], "InPlay") # {}
    /\ UNCHANGED <<centerprice, cards, forwarded, missed>>

Draw(n) ==
    /\ At(cards[n], "InPlay") = {}
    /\ At(cards[n], "Deck") # {}
    /\ cards' = [cards EXCEPT ![n] = draw_a_card(@)]
    /\ UNCHANGED <<centerprice, forwarded, missed>>

end_game_round(n) ==
    /\ At(cards[n], "InPlay") = {}
    /\ At(cards[n], "Deck") = {}
    /\ \E row \in update_centerprice(centerprice[n], cards[n]) :
          /\ centerprice' = [centerprice EXCEPT ![n] = row]
          /\ \E deck \in reshuffle_deck(get_center_price(row)) :
                cards' = [cards EXCEPT ![n] = draw_a_card(deck)]
          /\ get_center_price(row) \in -MaxPrice .. MaxPrice
    /\ forwarded' = [forwarded EXCEPT ![n] = 0]
    /\ missed' = [missed EXCEPT ![n] = 0]

get_fee_mod(n) ==
    /\ InPlayAlready(n) \/ Draw(n) \/ end_game_round(n)
    /\ drawn' = [drawn EXCEPT ![n] = PlayedPrice(cards'[n])]

(* The analyzed listpeers, every ten minutes.                              *)
Aged(card, isConnected) ==
    LET left == IF isConnected THEN card.lifetime - 1 ELSE card.lifetime
    IN  IF card.pos # "InPlay" THEN card
        ELSE [card EXCEPT !.lifetime = left,
                          !.pos = IF left <= 0 THEN "Discarded" ELSE "InPlay"]

update_10_minutes(connected) ==
    /\ cards' = [n \in Gamers |->
                    [i \in DOMAIN cards[n] |-> Aged(cards[n][i], n \in connected)]]
    /\ UNCHANGED <<centerprice, drawn, forwarded, missed>>

PriceForwardFee(n) ==
    /\ forwarded[n] < MaxEarn
    /\ cards[n] # << >>
    /\ forwarded' = [forwarded EXCEPT ![n] = @ + 1]
    /\ cards' = [cards EXCEPT ![n] =
          [i \in DOMAIN @ |-> IF @[i].pos = "InPlay"
                              THEN [@[i] EXCEPT !.earnings = @ + 1] ELSE @[i]]]
    /\ missed' = IF At(cards[n], "InPlay") = {} THEN [missed EXCEPT ![n] = @ + 1] ELSE missed
    /\ UNCHANGED <<centerprice, drawn>>

PriceStep ==
    \/ \E n \in Gamers : get_fee_mod(n) \/ PriceForwardFee(n)
    \/ \E S \in SUBSET Gamers : update_10_minutes(S)

-----------------------------------------------------------------------------
(* The deck of a round: one card for each price within max_step of the      *)
(* center, at most one of them in play, the ones above it in the deck       *)
(* already played, and every fee that was forwarded while a card was in     *)
(* play on exactly one of them.                                             *)
DeckAroundCenter ==
    \A n \in Gamers :
        LET deck == cards[n]
            c == get_center_price(centerprice[n])
        IN  deck # << >> =>
              /\ {deck[i].price : i \in DOMAIN deck} = (c - max_step) .. (c + max_step)
              /\ Len(deck) = 2 * max_step + 1
              /\ Cardinality(At(deck, "InPlay")) <= 1
              /\ \A i \in At(deck, "Deck"), j \in DOMAIN deck \ At(deck, "Deck") : i < j
              /\ FoldLeft(LAMBDA t, card : t + card.earnings, 0, deck)
                   = forwarded[n] - missed[n]
=============================================================================
