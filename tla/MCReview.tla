------------------------------- MODULE MCReview -------------------------------
(* Readings and pages for Review: 90.00 with and without a currency, a value  *)
(* of three decimals that is rounded to it, 190.00, which contains it, and    *)
(* another token.                                                             *)
EXTENDS Review

Money(amount, currency) == [amount |-> amount, currency |-> currency]

Bare == Money(90000, NoCurrency)
Token == Money(10000, NoCurrency)
Dollars == Money(90000, "SGD")
Others == Money(90000, "USD")
Mills == Money(90002, "SGD")
Larger == Money(190000, "SGD")

MCReading == {Bare, Token, Dollars, Others, Mills, Larger}
MCCut == {<<Bare, Dollars>>, <<Bare, Others>>, <<Bare, Larger>>, <<Dollars, Larger>>}
MCShown == {{}, {Bare}, {Dollars}, {Mills}, {Larger}, {Bare, Dollars}, {Dollars, Others}}

===============================================================================
