----------------------------- MODULE MCCheckout -----------------------------
(* Model checking of Checkout: two charges, two deliveries at a time.        *)
EXTENDS Checkout
=============================================================================
