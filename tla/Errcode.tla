------------------------------ MODULE Errcode ------------------------------
(***************************************************************************)
(* The status codes of the platform, with the values the enumeration       *)
(* really has: the hardware codes carry no initializer, so they continue   *)
(* from timeout = -5 and run into the generic ones.                        *)
(***************************************************************************)
EXTENDS Integers

ec_success == 0
ec_closed == -1
ec_full == -2
ec_empty == -3
ec_canceled == -4
ec_timeout == -5

ec_uart_parity == ec_timeout + 1
ec_uart_noise == ec_timeout + 2
ec_uart_framing == ec_timeout + 3
ec_uart_overflow == ec_timeout + 4
ec_uart_dma == ec_timeout + 5
ec_unknown_hw_error == ec_timeout + 6

ErrCode ==
  {ec_success, ec_closed, ec_full, ec_empty, ec_canceled, ec_timeout,
   ec_uart_parity, ec_uart_noise, ec_uart_framing, ec_uart_overflow,
   ec_uart_dma, ec_unknown_hw_error}
=============================================================================
