------------------------------ MODULE MCRates ------------------------------
(* A small instance of Rates for TLC: two currencies, a rate whose inverse  *)
(* is exact and one whose inverse is too small to store.                    *)
EXTENDS Rates

CONSTANTS usd, khr

Ask(currency, rate, lines, on) == [currency |-> currency, rate |-> rate, lines |-> lines, on |-> on]
Raw(taxable, tax) == [taxable |-> taxable, tax |-> tax]
Single == <<Raw(4, 2)>>
Rounding == <<Raw(3, 0), Raw(3, 0)>>   \* each line is rounded up, the total is not
Double == <<Raw(2, 0), Raw(4, 2)>>
SomeAsksToSave ==
    {Ask(Blank, 0, Single, 0), Ask(khr, 0, Double, 2), Ask(khr, 1, Rounding, 1),
     Ask(usd, 0, <<>>, 1)}

RateRow(from, to, on, rate, status) ==
    [from |-> from, to |-> to, on |-> on, rate |-> rate, status |-> status]
SomeStores ==
    {{}, {RateRow(usd, khr, 1, 3, "APPROVED")},
     {RateRow(usd, khr, 1, 9, "PENDING"), RateRow(khr, usd, 2, 1, "APPROVED")}}
=============================================================================
